----------------------------- MODULE SearchProofs -----------------------------
(***************************************************************************)
(* Proofs about SearchExecutor for every finite decision graph, strategy,  *)
(* budget and pool; about the monitor of SearchGuards for every set of     *)
(* valid budgets, of scores and of transitions, and any number of observed *)
(* nodes; about InterruptionReport for all Routes, boards, hands and       *)
(* trials; about PrefixCache for every set of entries and of valid         *)
(* policies; and about pruning for all evidence and any sibling actions.   *)
(***************************************************************************)
EXTENDS SearchExecutor, SearchGuards, InterruptionReport, PrefixCache,
        FiniteSetTheorems, SequenceTheorems, TLAPS

(* SearchExecutor. A run of a pool is a runtime x of an experiment e; the definitions
   below take both, since a prefix is replayed in the middle of a step. *)
\* The fields of a _SearchRuntime.
Fields == {"pc", "cache", "prefetched", "seen", "candidates", "routes", "failures", "updates",
           "nodes", "replays", "hits", "dups", "depth", "termination", "obs", "pending",
           "current", "plan", "observed", "reason", "tree", "node", "ordinal", "completed"}

\* StateOf for an experiment e: the state a prefix leads to.
StateAt(e, p) ==
  LET at[i \in 0..Len(p)] ==
        IF i = 0 THEN e.root
        ELSE LET s == at[i - 1] IN IF s = Fail THEN Fail ELSE e.next[s][p[i]]
  IN at[Len(p)]

\* A replayable prefix: no state on its way is a failure.
Good(e, p) ==
  p \in Seq(Nat) /\ \A i \in 0..Len(p) : StateAt(e, SubSeq(p, 1, i)) \in DOMAIN e.next

\* The actions of a prefix's last state; a planned prefix is the root or an
\* action away from a member of C.
Branch(e, p) == 1..Len(e.next[StateAt(e, p)])
Planned(e, C, p) == p = <<>> \/ \E q \in C : \E i \in Branch(e, q) : p = Append(q, i)

\* AtDepthLimit for an experiment e.
DepthLimit(e, p) == e.max_depth # NoLimit /\ Len(p) >= e.max_depth

\* The records of a runtime.
Statuses == {"unexplored", "explored", "failed", "pruned"}
Candidate == [status : Statuses, dup : BOOLEAN]
Observation == [prefix : Seq(Nat), ok : BOOLEAN, dup : BOOLEAN]
TreeNodes == [untried : Seq(Nat), visits : Nat, value : Int, dup : BOOLEAN]

\* The stages of each mode.
Stages ==
  [depth_first |-> {"depth_first"}, beam |-> {"beam", "beam_layer", "beam_commit"},
   mcts |-> {"mcts", "simulate", "select", "rollout"}]

\* Every field has its type.
Typed(x) ==
  /\ DOMAIN x = Fields
  /\ x.nodes \in Nat /\ x.replays \in Nat /\ x.hits \in Nat /\ x.dups \in Nat /\ x.depth \in Nat
  /\ x.ordinal \in Nat /\ x.completed \in Nat
  /\ x.termination \in Reasons /\ x.reason \in HardReasons \cup {"none"}
  /\ x.routes \in Seq(Seq(Nat)) /\ x.failures \in Seq(Seq(Nat))
  /\ x.obs \in Observation
  /\ IsFiniteSet(DOMAIN x.candidates)
  /\ \A p \in DOMAIN x.candidates : x.candidates[p] \in Candidate

\* Only replayable prefixes are cached, and a prefetched one is not cached yet.
Cached(e, x) ==
  /\ IsFiniteSet(x.cache) /\ \A p \in x.cache : Good(e, p)
  /\ x.prefetched \cap x.cache = {}

\* The counters account for the cache entries, the hits and the failures.
Counted(e, x) ==
  /\ x.nodes = Cardinality(x.cache) + x.hits + Len(x.failures)
  /\ x.replays = e.replay_count * Cardinality(x.cache) + Len(x.failures)

\* n more prefixes, replayed replay_count times each, fit into the budget; outside a beam
\* one more does while max_replays is not reached.
Room(e, x, n) ==
  /\ e.max_nodes # NoLimit => x.nodes + n <= e.max_nodes
  /\ e.max_replays # NoLimit =>
       /\ x.replays + e.replay_count * n <= e.max_replays * e.replay_count
       /\ e.mode # "beam" =>
            x.replays < e.max_replays + (IF n = 0 THEN e.replay_count ELSE 0)

\* No budget is exceeded, and what has been granted still fits.
Limited(e, x) ==
  /\ Room(e, x, 0)
  /\ x.pc = "select" => Room(e, x, 1)
  /\ x.pc = "beam_commit" => Room(e, x, Len(x.plan) - Len(x.observed))

\* The stage belongs to the mode; nothing is observed before the root is.
StagesOf(e, x) ==
  /\ x.pc \in Stages[e.mode] \cup {"done", "raised"}
  /\ x.pc \in {"beam", "mcts"} => x.cache = {} /\ x.seen = {} /\ x.tree = NoCandidates
  /\ e.mode # "mcts" => x.tree = NoCandidates

\* The stack of a depth-first search holds planned prefixes.
Stacked(e, x) ==
  x.pc = "depth_first" =>
    /\ x.pending \in Seq(Seq(Nat))
    /\ \A i \in 1..Len(x.pending) : Planned(e, x.cache, x.pending[i])
    /\ <<>> \in x.cache \/ x.pending = <<(<<>>)>>

\* A child of a prefix of the layer that is not at the depth limit.
ChildOf(e, layer, q) ==
  \E i \in 1..Len(layer) :
    ~DepthLimit(e, layer[i]) /\ \E b \in Branch(e, layer[i]) : q = Append(layer[i], b)

\* The layer of a beam is one level of the graph, its plan holds children of the
\* layer, and what has been observed is in plan order.
Layered(e, x) ==
  /\ x.pc \in {"beam_layer", "beam_commit"} =>
       /\ x.current \in Seq(Seq(Nat)) /\ x.current # <<>> /\ <<>> \in x.cache
       /\ \A i \in 1..Len(x.current) :
            x.current[i] \in x.cache /\ Len(x.current[i]) = Len(x.current[1])
  /\ x.pc = "beam_commit" =>
       /\ x.plan \in Seq(Seq(Nat)) /\ x.observed \in Seq(Observation)
       /\ Len(x.observed) <= Len(x.plan)
       /\ \A j \in 1..Len(x.plan) :
            x.plan[j] \in DOMAIN x.candidates /\ ChildOf(e, x.current, x.plan[j])
       /\ \A j \in 1..Len(x.observed) :
            /\ x.observed[j].prefix = x.plan[j]
            /\ x.observed[j].ok => x.plan[j] \in x.cache

\* The untried actions are distinct actions without a node.
Untried(e, D, p, s) ==
  \A i \in 1..Len(s) :
    /\ s[i] \in Branch(e, p)
    /\ Append(p, s[i]) \notin D
    /\ \A j \in 1..Len(s) : s[i] = s[j] => i = j

\* The tree hangs together: its nodes are observed and, but for the root, have a
\* parent in it.
Grown(e, x) ==
  /\ DOMAIN x.tree \subseteq x.cache
  /\ x.pc \in {"simulate", "select", "rollout"} => <<>> \in DOMAIN x.tree
  /\ x.pc = "rollout" => x.node \in DOMAIN x.tree /\ x.obs.prefix \in x.cache
  /\ \A p \in DOMAIN x.tree :
       /\ x.tree[p] \in TreeNodes
       /\ Planned(e, DOMAIN x.tree, p)
       /\ Untried(e, DOMAIN x.tree, p, x.tree[p].untried)

\* The tree counts completed simulations only.
Visited(x) ==
  /\ x.completed < x.ordinal
  /\ x.tree # NoCandidates => <<>> \in DOMAIN x.tree /\ x.tree[<<>>].visits = x.completed
  /\ x.tree = NoCandidates => x.completed = 0
  /\ \A p \in DOMAIN x.tree :
       /\ x.tree[p].visits >= SumVisits(x, TreeChildren(x, p))
       /\ x.tree[p].value <= 3 * x.tree[p].visits

\* Candidates, routes and seen states are those of observed prefixes.
Recorded(e, x) ==
  /\ \A p \in DOMAIN x.candidates :
       /\ x.candidates[p].status = "explored" => p \in x.cache
       /\ x.candidates[p].status = "failed" => StateAt(e, p) = Fail
  /\ \A p \in x.cache : p # <<>> /\ StateAt(e, p) \in e.legal => InSequence(p, x.routes)
  /\ \A i \in 1..Len(x.routes) : x.routes[i] \in x.cache
  /\ \A s \in x.seen : \E p \in x.cache : StateAt(e, p) = s

\* Some observed prefix of the state has all its children among the candidates.
Settled(e, x, s) ==
  \E p \in x.cache :
    /\ StateAt(e, p) = s
    /\ \A i \in Branch(e, p) : Append(p, i) \in DOMAIN x.candidates

\* A candidate no deeper than n was pruned.
PrunedWithin(x, n) ==
  \E p \in DOMAIN x.candidates : x.candidates[p].status = "pruned" /\ Len(p) <= n

\* While a run may still report an exhausted frontier, every state it has observed is
\* settled, is the state of a prefix still to be expanded, or a candidate was pruned.
CoverageKept(e, x) ==
  x.termination = "exhausted" =>
    /\ e.mode = "depth_first" => \A p \in x.cache : Settled(e, x, StateAt(e, p))
    /\ x.pc = "beam_layer" =>
         \/ PrunedWithin(x, Len(x.current[1]))
         \/ \A p \in x.cache :
              \/ Settled(e, x, StateAt(e, p))
              \/ \E i \in 1..Len(x.current) : StateAt(e, x.current[i]) = StateAt(e, p)
    /\ x.pc = "beam_commit" /\ x.reason = "none" =>
         \/ PrunedWithin(x, Len(x.current[1]))
         \/ DepthLimit(e, x.current[1])
         \/ \A p \in x.cache :
              \/ Settled(e, x, StateAt(e, p))
              \/ \E j \in 1..Len(x.observed) :
                   /\ x.observed[j].ok /\ ~x.observed[j].dup
                   /\ StateAt(e, x.plan[j]) = StateAt(e, p)
    /\ x.pc = "done" /\ e.mode # "mcts" =>
         /\ <<>> \in x.cache
         /\ \/ \E p \in DOMAIN x.candidates : x.candidates[p].status = "pruned"
            \/ \A p \in x.cache : Settled(e, x, StateAt(e, p))

\* What every operation of the runtime keeps.
Core(e, x) == Typed(x) /\ Cached(e, x) /\ Counted(e, x) /\ Recorded(e, x)

\* The inductive invariant of one run, and of all of them.
RunInv(e, x) ==
  /\ Core(e, x) /\ Limited(e, x) /\ StagesOf(e, x) /\ Stacked(e, x) /\ Layered(e, x)
  /\ Grown(e, x) /\ Visited(x) /\ CoverageKept(e, x)

SearchInv ==
  exp \in Experiments /\ DOMAIN rt = Pools /\ \A k \in Pools : RunInv(exp, rt[k])

(* Induction on numbers, finite orders. *)
\* A set of numbers has a least member.
LEMMA LeastOf ==
  ASSUME NEW S \in SUBSET Nat, S # {}
  PROVE  \E x \in S : \A y \in S : x <= y
<1> DEFINE R == {ss \in Nat \X Nat : ss[1] < ss[2]}
<1>1. IsWellFoundedOn(R, Nat) BY NatLessThanWellFounded DEF OpToRel
<1>2. \E x \in S : \A y \in S : ~ (<<y, x>> \in R)
  <2> HIDE DEF R
  <2> QED BY <1>1, WFMin
<1>3. PICK x \in S : \A y \in S : ~ (<<y, x>> \in R) BY <1>2
<1>4. ASSUME NEW y \in S PROVE x <= y
  <2>1. x \in Nat /\ y \in Nat OBVIOUS
  <2>2. <<y, x>> \in Nat \X Nat => ~ (y < x) BY <1>3
  <2> QED BY <2>1, <2>2
<1> QED BY <1>4

\* A set of numbers that holds 0 and with n < m also n + 1 holds 0..m.
LEMMA Climb ==
  ASSUME NEW m \in Nat, NEW S, 0 \in S, \A n \in 0..(m - 1) : n \in S => n + 1 \in S
  PROVE  \A n \in 0..m : n \in S
<1> SUFFICES ASSUME NEW z \in 0..m, z \notin S PROVE FALSE OBVIOUS
<1> DEFINE T == {n \in 0..m : n \notin S}
<1>0. T \in SUBSET Nat /\ T # {} OBVIOUS
<1>1. PICK x \in T : \A y \in T : x <= y
  <2> HIDE DEF T
  <2> QED BY <1>0, LeastOf
<1>2. x # 0 /\ x \in 1..m OBVIOUS
<1>3. x - 1 \in 0..(m - 1) /\ x - 1 \in 0..m /\ (x - 1) + 1 = x /\ ~ (x <= x - 1)
  BY <1>2
<1>4. x - 1 \in S BY <1>1, <1>3
<1>5. (x - 1) + 1 \in S BY <1>3, <1>4
<1> QED BY <1>3, <1>5

\* A finite set has an element before which no other comes.
LEMMA FirstExists ==
  ASSUME NEW T, IsFiniteSet(T), T # {}, NEW R,
         \A p \in T : <<p, p>> \notin R,
         \A p, q, r \in T : <<p, q>> \in R /\ <<q, r>> \in R => <<p, r>> \in R
  PROVE  \E m \in T : \A q \in T : <<q, m>> \notin R
<1> DEFINE before(p) == {q \in T : <<q, p>> \in R}
           ranks == {Cardinality(before(p)) : p \in T}
<1>1. ASSUME NEW p \in T PROVE IsFiniteSet(before(p)) /\ Cardinality(before(p)) \in Nat
  BY FS_Subset, FS_CardinalityType
<1>2. ranks \in SUBSET Nat /\ ranks # {}
  <2> DEFINE c(p) == Cardinality(before(p))
  <2>1. \A p \in T : c(p) \in Nat BY <1>1
  <2>2. ranks = {c(p) : p \in T} OBVIOUS
  <2> HIDE DEF c, ranks
  <2> QED BY <2>1, <2>2
<1>6. \A q \in T : Cardinality(before(q)) \in ranks OBVIOUS
<1>3. PICK r \in ranks : \A s \in ranks : r <= s
  <2> HIDE DEF ranks
  <2> QED BY <1>2, LeastOf
<1>4. PICK m \in T : r = Cardinality(before(m)) OBVIOUS
<1>5. ASSUME NEW q \in T, <<q, m>> \in R PROVE FALSE
  <2>1. before(q) \subseteq before(m) BY <1>5
  <2>2. q \in before(m) /\ q \notin before(q) BY <1>5
  <2>3. Cardinality(before(q)) <= Cardinality(before(m))
        /\ (Cardinality(before(m)) = Cardinality(before(q)) => before(m) = before(q))
    BY <1>1, <2>1, FS_Subset
  <2>4. Cardinality(before(q)) # Cardinality(before(m)) BY <2>2, <2>3
  <2>5. Cardinality(before(m)) <= Cardinality(before(q))
    <3> HIDE DEF before, ranks
    <3> QED BY <1>3, <1>4, <1>6
  <2> HIDE DEF before
  <2> QED BY <1>1, <2>3, <2>4, <2>5
<1> QED BY <1>5

\* The members of T that come before m.
BeforeIn(T, R, m) == {q \in T : <<q, m>> \in R}

\* In a total order of a finite set every rank is taken.
LEMMA EveryRank ==
  ASSUME NEW T, IsFiniteSet(T), NEW R,
         \A p \in T : <<p, p>> \notin R,
         \A p, q, r \in T : <<p, q>> \in R /\ <<q, r>> \in R => <<p, r>> \in R,
         \A p, q \in T : p # q => <<p, q>> \in R \/ <<q, p>> \in R,
         NEW i \in 0..(Cardinality(T) - 1)
  PROVE  \E m \in T : Cardinality(BeforeIn(T, R, m)) = i
<1> DEFINE before(p) == {q \in T : <<q, p>> \in R}
           n == Cardinality(T)
           f == [p \in T |-> Cardinality(before(p))]
<1>1. n \in Nat BY FS_CardinalityType
<1>2. ASSUME NEW p \in T
      PROVE  IsFiniteSet(before(p)) /\ Cardinality(before(p)) \in 0..(n - 1)
  <2>1. IsFiniteSet(before(p)) /\ Cardinality(before(p)) <= n
        /\ (n = Cardinality(before(p)) => T = before(p)) BY FS_Subset
  <2>2. Cardinality(before(p)) \in Nat BY <2>1, FS_CardinalityType
  <2>3. p \notin before(p) OBVIOUS
  <2>4. Cardinality(before(p)) # n BY <2>1, <2>3
  <2> HIDE DEF before, n
  <2> QED BY <1>1, <2>1, <2>2, <2>4
<1>3. ASSUME NEW p \in T, NEW q \in T, <<p, q>> \in R
      PROVE  Cardinality(before(p)) # Cardinality(before(q)) BY <1>3, <1>2, FS_Subset
<1> HIDE DEF before
<1>4. f \in [T -> 0..(n - 1)] BY <1>2
<1>5. \A p, q \in T : f[p] = f[q] => p = q BY <1>3
<1>6. f \in Injection(T, 0..(n - 1)) BY <1>4, <1>5 DEF Injection, IsInjective
<1>7. IsFiniteSet(0..(n - 1)) /\ Cardinality(0..(n - 1)) = n BY <1>1, FS_Interval
<1> HIDE DEF f
<1>8. f \in Surjection(T, 0..(n - 1)) BY <1>6, <1>7, FS_Injection
<1>9. PICK m \in T : f[m] = i BY <1>8 DEF Surjection
<1>10. Cardinality(before(m)) = i BY <1>9 DEF f
<1> QED BY <1>10 DEF before, BeforeIn

(* The state a prefix leads to. *)
\* The walk of a prefix's first n actions.
IsWalk(e, p, n, f) ==
  f = [i \in 0..n |-> IF i = 0 THEN e.root
                      ELSE LET s == f[i - 1] IN IF s = Fail THEN Fail ELSE e.next[s][p[i]]]
Walk(e, p, n) == CHOOSE f : IsWalk(e, p, n, f)

\* The recursive function behind StateAt exists for every length.
LEMMA WalkExists ==
  ASSUME NEW e, NEW p, NEW n \in Nat
  PROVE  \E f : IsWalk(e, p, n, f)
<1> DEFINE ok(m) == \E f : IsWalk(e, p, m, f)
           S == {m \in 0..n : ok(m)}
<1>1. ok(0)
  <2> DEFINE f == [i \in 0..0 |-> e.root]
  <2>1. f = [i \in 0..0 |-> IF i = 0 THEN e.root
               ELSE LET s == f[i - 1] IN IF s = Fail THEN Fail ELSE e.next[s][p[i]]]
    OBVIOUS
  <2> QED BY <2>1 DEF IsWalk
<1>2. ASSUME NEW m \in 0..(n - 1), ok(m) PROVE ok(m + 1)
  <2>1. PICK f : f = [i \in 0..m |->
                       IF i = 0 THEN e.root
                       ELSE LET s == f[i - 1] IN IF s = Fail THEN Fail ELSE e.next[s][p[i]]]
    BY <1>2 DEF IsWalk
  <2> DEFINE last == IF f[m] = Fail THEN Fail ELSE e.next[f[m]][p[m + 1]]
             g == [i \in 0..(m + 1) |-> IF i = m + 1 THEN last ELSE f[i]]
  <2>2. \A i \in 0..m : f[i] = IF i = 0 THEN e.root
                       ELSE LET s == f[i - 1] IN IF s = Fail THEN Fail ELSE e.next[s][p[i]]
    BY <2>1
  <2>3. ASSUME NEW i \in 0..(m + 1)
        PROVE  g[i] = IF i = 0 THEN e.root
                      ELSE LET s == g[i - 1] IN IF s = Fail THEN Fail ELSE e.next[s][p[i]]
    <3>1. CASE i = m + 1 BY <3>1
    <3>2. CASE i # m + 1
      <4>1. i \in 0..m BY <3>2
      <4>2. i # 0 => i - 1 \in 0..m /\ i - 1 \in 0..(m + 1) /\ i - 1 # m + 1 BY <4>1
      <4>3. i # 0 => g[i - 1] = f[i - 1] BY <4>2
      <4>4. g[i] = f[i] BY <3>2
      <4> QED BY <2>2, <4>1, <4>3, <4>4
    <3> QED BY <3>1, <3>2
  <2>4. g = [i \in 0..(m + 1) |-> g[i]] OBVIOUS
  <2> HIDE DEF g
  <2>5. g = [i \in 0..(m + 1) |->
               IF i = 0 THEN e.root
               ELSE LET s == g[i - 1] IN IF s = Fail THEN Fail ELSE e.next[s][p[i]]]
    BY <2>3, <2>4
  <2> QED BY <2>5 DEF IsWalk
<1> HIDE DEF ok
<1>3. \A m \in 0..n : m \in S
  <2>1. 0 \in S BY <1>1
  <2>2. \A m \in 0..(n - 1) : m \in S => m + 1 \in S BY <1>2
  <2> HIDE DEF S
  <2> QED BY <2>1, <2>2, Climb
<1>4. ok(n) BY <1>3
<1> QED BY <1>4 DEF ok

\* A walk starts at the root and follows the chosen action of each state.
LEMMA WalkSteps ==
  ASSUME NEW e, NEW p, NEW n \in Nat
  PROVE  /\ Walk(e, p, n)[0] = e.root
         /\ \A i \in 1..n :
              Walk(e, p, n)[i] = IF Walk(e, p, n)[i - 1] = Fail THEN Fail
                                 ELSE e.next[Walk(e, p, n)[i - 1]][p[i]]
<1>1. PICK f : f = Walk(e, p, n) OBVIOUS
<1>2. IsWalk(e, p, n, f) BY <1>1, WalkExists, Zenon DEF Walk
<1>3. 0 \in 0..n /\ \A i \in 1..n : i \in 0..n /\ i # 0 OBVIOUS
<1> QED BY <1>1, <1>2, <1>3 DEF IsWalk

\* Walks along the same steps pass through the same states.
LEMMA WalkAgrees ==
  ASSUME NEW e, NEW p, NEW q, NEW n \in Nat, NEW m \in Nat, n <= m,
         \A j \in 1..n : p[j] = q[j]
  PROVE  Walk(e, p, n)[n] = Walk(e, q, m)[n]
<1> DEFINE f == Walk(e, p, n)
           g == Walk(e, q, m)
           S == {i \in 0..n : f[i] = g[i]}
<1>1. f[0] = g[0] BY WalkSteps
<1>2. ASSUME NEW i \in 0..(n - 1), f[i] = g[i] PROVE f[i + 1] = g[i + 1]
  BY <1>2, WalkSteps
<1> HIDE DEF f, g
<1>3. 0 \in S /\ \A i \in 0..(n - 1) : i \in S => i + 1 \in S BY <1>1, <1>2
<1> HIDE DEF S
<1>4. n \in S BY <1>3, Climb
<1> QED BY <1>4 DEF S, f, g

\* The state of a prefix is where its walk ends.
LEMMA StateAtWalk ==
  ASSUME NEW e, NEW p
  PROVE  StateAt(e, p) = Walk(e, p, Len(p))[Len(p)]
BY Zenon DEF StateAt, Walk, IsWalk

\* The model's StateOf is StateAt of its experiment.
LEMMA StateOfAt == \A p : StateOf(p) = StateAt(exp, p)
BY Zenon DEF StateOf, StateAt

\* The empty prefix leads to the root.
LEMMA StateAtRoot == ASSUME NEW e PROVE StateAt(e, <<>>) = e.root
<1>1. Len(<<>>) = 0 OBVIOUS
<1> QED BY <1>1, WalkSteps, StateAtWalk

\* One more action leads to its successor, and nowhere after a failure.
LEMMA StateAtAppend ==
  ASSUME NEW e, NEW p \in Seq(Nat), NEW b \in Nat
  PROVE  StateAt(e, Append(p, b)) = IF StateAt(e, p) = Fail THEN Fail
                                    ELSE e.next[StateAt(e, p)][b]
<1> DEFINE q == Append(p, b)
           n == Len(p)
<1>1. n \in Nat /\ Len(q) = n + 1 /\ q[n + 1] = b /\ \A j \in 1..n : p[j] = q[j]
  OBVIOUS
<1> HIDE DEF q, n
<1>2. n + 1 \in Nat /\ n + 1 \in 1..(n + 1) /\ n <= n + 1 /\ (n + 1) - 1 = n BY <1>1
<1>3. Walk(e, p, n)[n] = Walk(e, q, n + 1)[n] BY <1>1, <1>2, WalkAgrees
<1>4. Walk(e, q, n + 1)[n + 1] = IF Walk(e, q, n + 1)[n] = Fail THEN Fail
                                ELSE e.next[Walk(e, q, n + 1)[n]][q[n + 1]]
  BY <1>1, <1>2, WalkSteps
<1>5. StateAt(e, q) = Walk(e, q, n + 1)[n + 1] /\ StateAt(e, p) = Walk(e, p, n)[n]
  BY <1>1, StateAtWalk DEF n
<1> QED BY <1>1, <1>3, <1>4, <1>5 DEF q

(* Prefixes whose replay succeeds. *)
\* What an experiment's own checks guarantee of its graph and its budget.
LEMMA GraphFacts ==
  ASSUME NEW e \in Experiments
  PROVE  /\ Fail \notin DOMAIN e.next /\ IsFiniteSet(DOMAIN e.next)
         /\ \A s \in DOMAIN e.next :
              /\ e.next[s] \in Seq(DOMAIN e.next \cup {Fail})
              /\ \A i \in 1..Len(e.next[s]) : e.next[s][i] \in DOMAIN e.next \cup {Fail}
              /\ e.score[s] \in Int
         /\ e.root \in DOMAIN e.next \cup {Fail}
         /\ e.replay_count \in Nat \ {0} /\ e.width \in Nat \ {0}
         /\ e.max_depth \in Nat \cup {NoLimit}
         /\ e.max_nodes \in Nat \cup {NoLimit} /\ e.max_replays \in Nat \cup {NoLimit}
         /\ NoLimit \notin Int /\ e.mode \in Modes
         /\ e.timed \in BOOLEAN /\ e.wide \in BOOLEAN
<1> DEFINE N == DOMAIN e.next
<1>1. e.next \in [N -> Seq(N \cup {Fail})] BY ExperimentsAssumption
<1>2. \A s \in N : e.next[s] \in Seq(N \cup {Fail})
  <2> HIDE DEF N
  <2> QED BY <1>1
<1>3. \A s \in N : \A i \in 1..Len(e.next[s]) : e.next[s][i] \in N \cup {Fail}
  <2> HIDE DEF N
  <2> QED BY <1>2
<1>4. {e.max_depth, e.max_nodes, e.max_replays} \subseteq Nat \cup {NoLimit}
  BY ExperimentsAssumption
<1> QED BY <1>2, <1>3, <1>4, ExperimentsAssumption, ModesAssumption

\* A replayable prefix ends in a state of the graph.
LEMMA GoodEnds ==
  ASSUME NEW e, NEW p, Good(e, p)
  PROVE  p \in Seq(Nat) /\ StateAt(e, p) \in DOMAIN e.next
<1>1. p \in Seq(Nat) /\ Len(p) \in 0..Len(p) /\ SubSeq(p, 1, Len(p)) = p BY DEF Good
<1> QED BY <1>1 DEF Good

\* The empty prefix is replayable unless the root fails.
LEMMA GoodRoot ==
  ASSUME NEW e \in Experiments, e.root # Fail
  PROVE  Good(e, <<>>)
<1>1. <<>> \in Seq(Nat) /\ Len(<<>>) = 0 /\ \A i \in 0..0 : SubSeq(<<>>, 1, i) = <<>>
  OBVIOUS
<1>2. StateAt(e, <<>>) = e.root /\ e.root \in DOMAIN e.next BY StateAtRoot, GraphFacts
<1>3. \A i \in 0..Len(<<>>) : StateAt(e, SubSeq(<<>>, 1, i)) \in DOMAIN e.next
  BY <1>1, <1>2
<1> QED BY <1>1, <1>3 DEF Good

\* An action of a replayable prefix leads to a state or to a failure.
LEMMA BranchState ==
  ASSUME NEW e \in Experiments, NEW p, Good(e, p), NEW i \in Branch(e, p)
  PROVE  /\ i \in Nat \ {0} /\ Append(p, i) \in Seq(Nat)
         /\ StateAt(e, Append(p, i)) = e.next[StateAt(e, p)][i]
         /\ StateAt(e, Append(p, i)) \in DOMAIN e.next \cup {Fail}
<1>1. p \in Seq(Nat) /\ StateAt(e, p) \in DOMAIN e.next BY GoodEnds
<1>2. e.next[StateAt(e, p)] \in Seq(DOMAIN e.next \cup {Fail})
      /\ Len(e.next[StateAt(e, p)]) \in Nat BY <1>1, GraphFacts
<1>3. i \in Nat \ {0} BY <1>2 DEF Branch
<1>4. StateAt(e, p) # Fail BY <1>1, GraphFacts
<1>5. StateAt(e, Append(p, i)) = e.next[StateAt(e, p)][i]
  BY <1>1, <1>3, <1>4, StateAtAppend
<1>6. e.next[StateAt(e, p)][i] \in DOMAIN e.next \cup {Fail}
  BY <1>1, GraphFacts DEF Branch
<1> QED BY <1>1, <1>3, <1>5, <1>6

\* A replayable prefix stays so with an action that does not fail.
LEMMA GoodAppend ==
  ASSUME NEW e \in Experiments, NEW p, Good(e, p), NEW i \in Branch(e, p),
         StateAt(e, Append(p, i)) # Fail
  PROVE  Good(e, Append(p, i))
<1> DEFINE q == Append(p, i)
<1>1. p \in Seq(Nat) /\ i \in Nat /\ q \in Seq(Nat) /\ Len(q) = Len(p) + 1
  BY GoodEnds, BranchState
<1>2. ASSUME NEW j \in 0..Len(q) PROVE StateAt(e, SubSeq(q, 1, j)) \in DOMAIN e.next
  <2>1. CASE j = Len(q)
    <3>1. SubSeq(q, 1, j) = q BY <1>1, <2>1
    <3> QED BY <3>1, BranchState
  <2>2. CASE j # Len(q)
    <3>1. j \in 0..Len(p) BY <1>1, <2>2
    <3>2. SubSeq(q, 1, j) = SubSeq(p, 1, j) BY <1>1, <3>1
    <3> QED BY <3>1, <3>2 DEF Good
  <2> QED BY <2>1, <2>2
<1> QED BY <1>1, <1>2 DEF Good

\* A planned prefix is well formed, and good when its replay succeeds.
LEMMA PlannedPrefix ==
  ASSUME NEW e \in Experiments, NEW C, \A q \in C : Good(e, q), NEW p, Planned(e, C, p)
  PROVE  /\ p \in Seq(Nat)
         /\ StateAt(e, p) \in DOMAIN e.next \cup {Fail}
         /\ StateAt(e, p) # Fail => Good(e, p)
<1>1. CASE p = <<>>
  <2>1. StateAt(e, p) = e.root /\ e.root \in DOMAIN e.next \cup {Fail}
    BY <1>1, StateAtRoot, GraphFacts
  <2>2. p \in Seq(Nat) BY <1>1
  <2>3. e.root # Fail => Good(e, p) BY <1>1, GoodRoot
  <2> QED BY <2>1, <2>2, <2>3
<1>2. CASE p # <<>>
  <2>1. PICK q \in C : \E i \in Branch(e, q) : p = Append(q, i) BY <1>2 DEF Planned
  <2>2. PICK i \in Branch(e, q) : p = Append(q, i) BY <2>1
  <2> QED BY <2>2, BranchState, GoodAppend
<1> QED BY <1>1, <1>2

(* What the runtime's operations change. *)
\* Only the fields in S may differ.
Only(x, y, S) == DOMAIN y = Fields /\ \A f \in Fields \ S : y[f] = x[f]

\* Marking a candidate touches the candidates alone.
LEMMA MarkEffect ==
  ASSUME NEW x, DOMAIN x = Fields, NEW p, NEW status, NEW dup
  PROVE  /\ Only(x, MarkCandidate(x, p, status, dup), {"candidates"})
         /\ MarkCandidate(x, p, status, dup).candidates =
              IF p = <<>> THEN x.candidates
              ELSE Put(x.candidates, p, [status |-> status, dup |-> dup])
BY DEF MarkCandidate, Only, Fields

\* Recording a route touches the routes and the termination alone.
LEMMA RouteEffect ==
  ASSUME NEW x, DOMAIN x = Fields, NEW p
  PROVE  /\ Only(x, RecordRoute(x, p), {"routes", "termination"})
         /\ RecordRoute(x, p).routes =
              IF ~LegalStop(p) \/ p = <<>> \/ InSequence(p, x.routes)
              THEN x.routes ELSE Append(x.routes, p)
         /\ RecordRoute(x, p).termination \in {x.termination, "goal_reached"}
<1> DEFINE R == IF InSequence(p, x.routes) THEN x.routes ELSE Append(x.routes, p)
           T == IF GoalReached(p) THEN "goal_reached" ELSE x.termination
<1>1. RecordRoute(x, p) = IF ~LegalStop(p) \/ p = <<>> THEN x
                          ELSE [x EXCEPT !.routes = R, !.termination = T]
  BY DEF RecordRoute
<1>2. T \in {x.termination, "goal_reached"} OBVIOUS
<1>3. R = IF InSequence(p, x.routes) THEN x.routes ELSE Append(x.routes, p) OBVIOUS
<1> HIDE DEF R, T
<1> QED BY <1>1, <1>2, <1>3 DEF Only, Fields

\* A path failure costs a node and a replay and marks its candidate failed.
LEMMA FailureEffect ==
  ASSUME NEW x, DOMAIN x = Fields, NEW p
  PROVE  LET y == RecordPathFailure(x, p) IN
         /\ Only(x, y, {"nodes", "replays", "failures", "obs", "candidates"})
         /\ y.nodes = x.nodes + 1 /\ y.replays = x.replays + 1
         /\ y.failures = Append(x.failures, p)
         /\ y.obs = [prefix |-> p, ok |-> FALSE, dup |-> FALSE]
         /\ y.candidates = IF p = <<>> THEN x.candidates
                           ELSE Put(x.candidates, p, [status |-> "failed", dup |-> FALSE])
<1> DEFINE z == [x EXCEPT !.nodes = @ + 1, !.replays = @ + 1,
                          !.failures = Append(@, p),
                          !.obs = [prefix |-> p, ok |-> FALSE, dup |-> FALSE]]
<1>1. /\ Only(x, z, {"nodes", "replays", "failures", "obs"}) /\ DOMAIN z = Fields
      /\ z.nodes = x.nodes + 1 /\ z.replays = x.replays + 1
      /\ z.failures = Append(x.failures, p)
      /\ z.obs = [prefix |-> p, ok |-> FALSE, dup |-> FALSE] BY DEF Only, Fields
<1>2. RecordPathFailure(x, p) = MarkCandidate(z, p, "failed", FALSE)
  BY DEF RecordPathFailure
<1> HIDE DEF z
<1> DEFINE y == MarkCandidate(z, p, "failed", FALSE)
<1>3. /\ DOMAIN y = Fields /\ Only(z, y, {"candidates"})
      /\ y.candidates = IF p = <<>> THEN z.candidates
                        ELSE Put(z.candidates, p, [status |-> "failed", dup |-> FALSE])
  BY <1>1 DEF MarkCandidate, Only, Fields
<1> HIDE DEF y
<1>4. /\ Only(x, y, {"nodes", "replays", "failures", "obs", "candidates"})
      /\ z.candidates = x.candidates /\ y.nodes = z.nodes /\ y.replays = z.replays
      /\ y.failures = z.failures /\ y.obs = z.obs BY <1>1, <1>3 DEF Only, Fields
<1>5. RecordPathFailure(x, p) = y BY <1>2 DEF y
<1> QED BY <1>1, <1>3, <1>4, <1>5

\* A committed frontier costs a node; a cache hit costs no replay.
LEMMA CommitEffect ==
  ASSUME NEW x, DOMAIN x = Fields, NEW p, NEW hit \in BOOLEAN
  PROVE  LET y == CommitFrontier(x, p, hit)
             dup == Exact(p) /\ StateOf(p) \in x.seen IN
         /\ Only(x, y, {"nodes", "replays", "hits", "cache", "routes", "termination",
                        "seen", "dups", "obs", "candidates"})
         /\ y.nodes = x.nodes + 1
         /\ hit => y.hits = x.hits + 1 /\ y.cache = x.cache /\ y.replays = x.replays
         /\ ~hit => /\ y.hits = x.hits /\ y.cache = x.cache \cup {p}
                    /\ y.replays = x.replays + exp.replay_count
         /\ y.routes = IF ~LegalStop(p) \/ p = <<>> \/ InSequence(p, x.routes)
                       THEN x.routes ELSE Append(x.routes, p)
         /\ y.termination \in {x.termination, "goal_reached"}
         /\ y.seen = IF Exact(p) THEN x.seen \cup {StateOf(p)} ELSE x.seen
         /\ y.dups = IF dup THEN x.dups + 1 ELSE x.dups
         /\ y.obs = [prefix |-> p, ok |-> TRUE, dup |-> dup]
         /\ y.candidates = IF p = <<>> THEN x.candidates
                           ELSE Put(x.candidates, p, [status |-> "explored", dup |-> dup])
<1> DEFINE dup == Exact(p) /\ StateOf(p) \in x.seen
           seen == IF Exact(p) THEN x.seen \cup {StateOf(p)} ELSE x.seen
           a == IF hit THEN [x EXCEPT !.hits = @ + 1]
                ELSE [x EXCEPT !.cache = @ \cup {p}, !.replays = @ + exp.replay_count]
           b == [a EXCEPT !.nodes = @ + 1]
           c == RecordRoute(b, p)
           d == [c EXCEPT !.seen = seen, !.dups = IF dup THEN @ + 1 ELSE @,
                          !.obs = [prefix |-> p, ok |-> TRUE, dup |-> dup]]
<1>1. CommitFrontier(x, p, hit) = MarkCandidate(d, p, "explored", dup)
  BY DEF CommitFrontier
<1>2. /\ DOMAIN b = Fields /\ Only(x, b, {"hits", "cache", "replays", "nodes"})
      /\ b.nodes = x.nodes + 1
      /\ hit => b.hits = x.hits + 1 /\ b.cache = x.cache /\ b.replays = x.replays
      /\ ~hit => /\ b.hits = x.hits /\ b.cache = x.cache \cup {p}
                 /\ b.replays = x.replays + exp.replay_count
  <2>1. /\ DOMAIN a = Fields /\ Only(x, a, {"hits", "cache", "replays"})
        /\ hit => a.hits = x.hits + 1 /\ a.cache = x.cache /\ a.replays = x.replays
        /\ ~hit => /\ a.hits = x.hits /\ a.cache = x.cache \cup {p}
                   /\ a.replays = x.replays + exp.replay_count BY DEF Only, Fields
  <2> HIDE DEF a
  <2> QED BY <2>1 DEF Only, Fields
<1> HIDE DEF b
<1>3. /\ DOMAIN c = Fields /\ Only(b, c, {"routes", "termination"})
      /\ c.routes = IF ~LegalStop(p) \/ p = <<>> \/ InSequence(p, b.routes)
                    THEN b.routes ELSE Append(b.routes, p)
      /\ c.termination \in {b.termination, "goal_reached"}
  BY <1>2, RouteEffect DEF Only
<1> HIDE DEF c
<1> DEFINE dups == IF dup THEN c.dups + 1 ELSE c.dups
<1>4. /\ DOMAIN d = Fields /\ Only(c, d, {"seen", "dups", "obs"})
      /\ d.seen = seen /\ d.obs = [prefix |-> p, ok |-> TRUE, dup |-> dup]
      /\ d.dups = dups
  <2>1. d = [c EXCEPT !.seen = seen, !.dups = dups,
                      !.obs = [prefix |-> p, ok |-> TRUE, dup |-> dup]] OBVIOUS
  <2> HIDE DEF dup, seen, dups, d
  <2> QED BY <1>3, <2>1 DEF Only, Fields
<1> HIDE DEF d
<1> DEFINE y == MarkCandidate(d, p, "explored", dup)
<1>5. /\ DOMAIN y = Fields /\ Only(d, y, {"candidates"})
      /\ y.candidates = IF p = <<>> THEN d.candidates
                        ELSE Put(d.candidates, p, [status |-> "explored", dup |-> dup])
  <2> HIDE DEF dup
  <2> QED BY <1>4, MarkEffect DEF Only
<1> HIDE DEF y
<1>6. /\ b.routes = x.routes /\ b.termination = x.termination
      /\ c.dups = x.dups /\ d.candidates = x.candidates
      /\ y.routes = c.routes /\ y.termination = c.termination
      /\ y.seen = d.seen /\ y.dups = d.dups /\ y.obs = d.obs
      /\ y.nodes = b.nodes /\ y.hits = b.hits /\ y.cache = b.cache /\ y.replays = b.replays
  BY <1>2, <1>3, <1>4, <1>5 DEF Only, Fields
<1>7. Only(x, y, {"nodes", "replays", "hits", "cache", "routes", "termination",
                  "seen", "dups", "obs", "candidates"})
  BY <1>2, <1>3, <1>4, <1>5 DEF Only, Fields
<1>8. CommitFrontier(x, p, hit) = y BY <1>1 DEF y
<1> QED
  <2> HIDE DEF dup, seen, dups
  <2>1. /\ y.seen = seen /\ y.dups = dups /\ y.obs = [prefix |-> p, ok |-> TRUE, dup |-> dup]
        /\ y.candidates = IF p = <<>> THEN x.candidates
                          ELSE Put(x.candidates, p, [status |-> "explored", dup |-> dup])
        /\ y.routes = IF ~LegalStop(p) \/ p = <<>> \/ InSequence(p, x.routes)
                       THEN x.routes ELSE Append(x.routes, p)
        /\ y.termination \in {x.termination, "goal_reached"} BY <1>3, <1>4, <1>5, <1>6
  <2> QED BY <1>2, <1>6, <1>7, <1>8, <2>1 DEF dup, seen, dups

(* The replay of a planned prefix. *)
\* The fields a replay touches.
CommitFields == {"nodes", "replays", "hits", "cache", "routes", "termination",
                 "seen", "dups", "obs", "candidates"}
FailureFields == {"nodes", "replays", "failures", "obs", "candidates"}
ReplayFields == CommitFields \cup FailureFields \cup {"depth", "prefetched"}

\* What every successful or failed replay leaves behind.
Replayed(e, x, y, p) ==
  /\ Only(x, y, ReplayFields)
  /\ y.nodes = x.nodes + 1
  /\ y.replays <= x.replays + e.replay_count
  /\ y.obs.prefix = p
  /\ y.obs.ok => p \in y.cache
  /\ ~y.obs.ok => y.cache = x.cache /\ p # <<>>
  /\ y.obs.ok /\ y.obs.dup => \E q \in x.cache : StateAt(e, q) = StateAt(e, p)
  /\ x.cache \subseteq y.cache /\ y.cache \subseteq x.cache \cup {p}
  /\ DOMAIN y.candidates = DOMAIN x.candidates \cup ({p} \ {<<>>})
  /\ \A q \in DOMAIN x.candidates : q # p => y.candidates[q] = x.candidates[q]
  /\ y.termination \in {x.termination, "goal_reached"}

\* Put sets one key and keeps the others.
LEMMA PutEffect ==
  ASSUME NEW f, NEW k, NEW v
  PROVE  /\ DOMAIN Put(f, k, v) = DOMAIN f \cup {k}
         /\ Put(f, k, v)[k] = v
         /\ \A j \in DOMAIN f : j # k => Put(f, k, v)[j] = f[j]
BY DEF Put

\* The candidates after one of them has been marked.
MarkedAs(f, p, v) == IF p = <<>> THEN f ELSE Put(f, p, v)
\* Marking one candidate keeps the others and the type of all.
LEMMA Marked ==
  ASSUME NEW f, NEW g, NEW p, NEW v, g = MarkedAs(f, p, v),
         IsFiniteSet(DOMAIN f), \A q \in DOMAIN f : f[q] \in Candidate,
         v \in Candidate
  PROVE  /\ DOMAIN g = DOMAIN f \cup ({p} \ {<<>>})
         /\ \A q \in DOMAIN f : q # p => g[q] = f[q]
         /\ p # <<>> => g[p] = v
         /\ \A q \in DOMAIN g : g[q] = f[q] \/ (q = p /\ g[q] = v)
         /\ IsFiniteSet(DOMAIN g)
         /\ \A q \in DOMAIN g : g[q] \in Candidate
<1>1. CASE p = <<>> BY <1>1 DEF MarkedAs
<1>2. CASE p # <<>>
  <2>1. g = Put(f, p, v) BY <1>2 DEF MarkedAs
  <2>2. DOMAIN g = DOMAIN f \cup {p} /\ g[p] = v /\ \A q \in DOMAIN f : q # p => g[q] = f[q]
    BY <2>1 DEF Put
  <2>3. IsFiniteSet(DOMAIN g) BY <2>2, FS_AddElement
  <2> HIDE <2>1
  <2> QED BY <1>2, <2>2, <2>3
<1> QED BY <1>1, <1>2

\* A commit keeps the counters, the cache and the candidates true.
LEMMA CommitKeeps ==
  ASSUME exp \in Experiments, NEW x, Core(exp, x), NEW p, Good(exp, p), NEW hit \in BOOLEAN,
         hit => p \in x.cache, ~hit => p \notin x.cache /\ p \notin x.prefetched
  PROVE  LET y == CommitFrontier(x, p, hit) IN
         /\ Core(exp, y) /\ Only(x, y, CommitFields) /\ Replayed(exp, x, y, p)
<1> DEFINE y == CommitFrontier(x, p, hit)
           dup == Exact(p) /\ StateOf(p) \in x.seen
           v == [status |-> "explored", dup |-> dup]
<1>1. DOMAIN x = Fields BY DEF Core, Typed
<1>2. /\ Only(x, y, CommitFields)
      /\ y.nodes = x.nodes + 1
      /\ hit => y.hits = x.hits + 1 /\ y.cache = x.cache /\ y.replays = x.replays
      /\ ~hit => /\ y.hits = x.hits /\ y.cache = x.cache \cup {p}
                 /\ y.replays = x.replays + exp.replay_count
      /\ y.routes = IF ~LegalStop(p) \/ p = <<>> \/ InSequence(p, x.routes)
                    THEN x.routes ELSE Append(x.routes, p)
      /\ y.termination \in {x.termination, "goal_reached"}
      /\ y.seen = IF Exact(p) THEN x.seen \cup {StateOf(p)} ELSE x.seen
      /\ y.dups = IF dup THEN x.dups + 1 ELSE x.dups
      /\ y.obs = [prefix |-> p, ok |-> TRUE, dup |-> dup]
      /\ y.candidates = IF p = <<>> THEN x.candidates ELSE Put(x.candidates, p, v)
  BY <1>1, CommitEffect, ZenonT(30) DEF CommitFields
<1>3. StateOf(p) = StateAt(exp, p) /\ p \in Seq(Nat) /\ StateAt(exp, p) \in DOMAIN exp.next
  BY StateOfAt, GoodEnds
<1>4. dup \in BOOLEAN BY DEF Exact
<1>5. exp.replay_count \in Nat \ {0} BY GraphFacts
<1> HIDE DEF y
<1>6. y.cache = x.cache \cup {p} /\ p \in y.cache BY <1>2
<1>7. v \in Candidate /\ v.status = "explored"
  <2> HIDE DEF dup
  <2> QED BY <1>4 DEF Statuses, Candidate
<1>8. /\ DOMAIN y.candidates = DOMAIN x.candidates \cup ({p} \ {<<>>})
      /\ \A q \in DOMAIN x.candidates : q # p => y.candidates[q] = x.candidates[q]
      /\ \A q \in DOMAIN y.candidates :
           (y.candidates[q] = x.candidates[q] /\ q \in DOMAIN x.candidates)
           \/ (q = p /\ y.candidates[q] = v)
      /\ IsFiniteSet(DOMAIN y.candidates)
      /\ \A q \in DOMAIN y.candidates : y.candidates[q] \in Candidate
  <2>1. /\ IsFiniteSet(DOMAIN x.candidates)
        /\ \A q \in DOMAIN x.candidates : x.candidates[q] \in Candidate
    BY DEF Core, Typed
  <2>2. y.candidates = IF p = <<>> THEN x.candidates ELSE Put(x.candidates, p, v)
    BY <1>2
  <2> HIDE DEF v
  <2>3. /\ DOMAIN y.candidates = DOMAIN x.candidates \cup ({p} \ {<<>>})
        /\ \A q \in DOMAIN x.candidates : q # p => y.candidates[q] = x.candidates[q]
        /\ p # <<>> => y.candidates[p] = v
        /\ IsFiniteSet(DOMAIN y.candidates)
        /\ \A q \in DOMAIN y.candidates : y.candidates[q] \in Candidate
    <3>1. PICK f, g, w : f = x.candidates /\ g = y.candidates /\ w = v OBVIOUS
    <3>2. g = MarkedAs(f, p, w) BY <2>2, <3>1 DEF MarkedAs
    <3>3. /\ IsFiniteSet(DOMAIN f) /\ w \in Candidate
          /\ \A q \in DOMAIN f : f[q] \in Candidate BY <1>7, <2>1, <3>1
    <3>4. /\ DOMAIN g = DOMAIN f \cup ({p} \ {<<>>})
          /\ \A q \in DOMAIN f : q # p => g[q] = f[q]
          /\ p # <<>> => g[p] = w
          /\ IsFiniteSet(DOMAIN g)
          /\ \A q \in DOMAIN g : g[q] \in Candidate
      <4>1. DOMAIN g = DOMAIN f \cup ({p} \ {<<>>}) BY <3>2, <3>3, Marked
      <4>2. \A q \in DOMAIN f : q # p => g[q] = f[q] BY <3>2 DEF MarkedAs, Put
      <4>3. p # <<>> => g[p] = w BY <3>2 DEF MarkedAs, Put
      <4>4. IsFiniteSet(DOMAIN g) BY <3>2, <3>3, Marked
      <4>5. \A q \in DOMAIN g : g[q] \in Candidate BY <3>2, <3>3, Marked
      <4> QED BY <4>1, <4>2, <4>3, <4>4, <4>5
    <3> QED BY <3>1, <3>4
  <2>4. \A q \in DOMAIN y.candidates :
           (y.candidates[q] = x.candidates[q] /\ q \in DOMAIN x.candidates)
           \/ (q = p /\ y.candidates[q] = v)
    <3>1. CASE p = <<>> BY <2>2, <3>1
    <3>2. CASE p # <<>> BY <2>3, <3>2
    <3> QED BY <3>1, <3>2
  <2> QED BY <2>3, <2>4
<1>9. /\ Only(x, y, CommitFields)
      /\ y.failures = x.failures /\ y.depth = x.depth /\ y.ordinal = x.ordinal
      /\ y.completed = x.completed /\ y.reason = x.reason /\ y.prefetched = x.prefetched
      /\ DOMAIN y = Fields BY <1>2 DEF Only, CommitFields, Fields
<1>10. y.routes \in Seq(Seq(Nat))
       /\ (\A i \in 1..Len(y.routes) : y.routes[i] = p \/
             (i \in 1..Len(x.routes) /\ y.routes[i] = x.routes[i]))
       /\ (\A q : InSequence(q, x.routes) => InSequence(q, y.routes))
       /\ (LegalStop(p) /\ p # <<>> => InSequence(p, y.routes))
  <2>1. x.routes \in Seq(Seq(Nat)) BY DEF Core, Typed
  <2>2. CASE ~LegalStop(p) \/ p = <<>> \/ InSequence(p, x.routes) BY <1>2, <2>2, <2>1
  <2>3. CASE ~(~LegalStop(p) \/ p = <<>> \/ InSequence(p, x.routes))
    <3>1. y.routes = Append(x.routes, p) BY <1>2, <2>3
    <3> DEFINE r == x.routes
               n == Len(r)
    <3>2. n \in Nat /\ Len(Append(r, p)) = n + 1 /\ Append(r, p)[n + 1] = p
          /\ (\A i \in 1..n : Append(r, p)[i] = r[i]) /\ Append(r, p) \in Seq(Seq(Nat))
      BY <1>3, <2>1
    <3>3. y.routes \in Seq(Seq(Nat)) /\ Len(y.routes) = n + 1 /\ y.routes[n + 1] = p
          /\ (\A i \in 1..n : y.routes[i] = x.routes[i]) BY <3>1, <3>2
    <3>7. Len(x.routes) = n /\ \A i \in 1..(n + 1) : i = n + 1 \/ i \in 1..n BY <3>2
    <3>8. \A i \in 1..n : i \in 1..(n + 1) BY <3>2
    <3> HIDE DEF n
    <3>4. InSequence(p, y.routes) BY <3>2, <3>3 DEF InSequence
    <3>5. ASSUME NEW q, InSequence(q, x.routes) PROVE InSequence(q, y.routes)
      BY <3>3, <3>5, <3>7, <3>8 DEF InSequence
    <3>6. ASSUME NEW i \in 1..Len(y.routes)
          PROVE  y.routes[i] = p \/ (i \in 1..Len(x.routes) /\ y.routes[i] = x.routes[i])
      BY <3>3, <3>7
    <3> QED BY <3>3, <3>4, <3>5, <3>6
  <2> QED BY <2>2, <2>3
<1>11. Typed(y)
  <2>1. x.nodes \in Nat /\ x.replays \in Nat /\ x.hits \in Nat /\ x.dups \in Nat
        /\ x.depth \in Nat /\ x.ordinal \in Nat /\ x.completed \in Nat
        /\ x.termination \in Reasons /\ x.reason \in HardReasons \cup {"none"}
        /\ x.failures \in Seq(Seq(Nat)) BY DEF Core, Typed
  <2>2. y.nodes \in Nat /\ y.dups \in Nat /\ y.depth \in Nat /\ y.ordinal \in Nat
        /\ y.completed \in Nat
    <3> HIDE DEF dup
    <3> QED BY <1>2, <1>9, <2>1, SMTT(30)
  <2>3. y.hits \in Nat /\ y.replays \in Nat BY <1>2, <1>5, <2>1, SMTT(30)
  <2>4. y.termination \in Reasons /\ y.reason \in HardReasons \cup {"none"}
    BY <1>2, <1>9, <2>1 DEF Reasons
  <2>5. y.obs \in Observation
    <3> HIDE DEF dup
    <3> QED BY <1>2, <1>3, <1>4 DEF Observation
  <2>6. y.failures \in Seq(Seq(Nat)) BY <1>9, <2>1
  <2> QED BY <1>8, <1>9, <1>10, <2>2, <2>3, <2>4, <2>5, <2>6 DEF Typed
<1>12. Cached(exp, y) BY <1>6, <1>2, <1>9, FS_AddElement DEF Core, Cached
<1>13. Counted(exp, y)
  <2> DEFINE c == Cardinality(x.cache)
  <2>1. IsFiniteSet(x.cache) /\ c \in Nat BY FS_CardinalityType DEF Core, Cached
  <2>2. x.nodes = c + x.hits + Len(x.failures) /\ x.replays = exp.replay_count * c + Len(x.failures)
    BY DEF Core, Counted
  <2>3. x.hits \in Nat /\ Len(x.failures) \in Nat BY DEF Core, Typed
  <2>4. CASE hit BY <1>2, <1>9, <2>4, <2>1, <2>2, <2>3 DEF Counted
  <2>5. CASE ~hit
    <3>1. y.nodes = x.nodes + 1 /\ y.hits = x.hits /\ y.cache = x.cache \cup {p}
          /\ y.replays = x.replays + exp.replay_count /\ y.failures = x.failures
      BY <1>2, <1>9, <2>5
    <3>2. Cardinality(y.cache) = c + 1 BY <2>1, <2>5, <3>1, FS_AddElement
    <3>3. y.nodes = (c + 1) + y.hits + Len(y.failures) BY <2>1, <2>2, <2>3, <3>1
    <3>4. \A r, m, n \in Nat : (r * m + n) + r = r * (m + 1) + n OBVIOUS
    <3>5. y.replays = exp.replay_count * (c + 1) + Len(y.failures)
      <4>1. y.replays = (exp.replay_count * c + Len(x.failures)) + exp.replay_count
        BY <2>2, <3>1
      <4>2. exp.replay_count \in Nat BY <1>5
      <4> HIDE DEF c
      <4>3. (exp.replay_count * c + Len(x.failures)) + exp.replay_count
              = exp.replay_count * (c + 1) + Len(x.failures)
        BY <2>1, <2>3, <3>4, <4>2, Zenon
      <4> QED BY <3>1, <4>1, <4>3
    <3> QED BY <3>2, <3>3, <3>5 DEF Counted
  <2> QED BY <2>4, <2>5
<1>14. Recorded(exp, y)
  <2>1. /\ \A q \in DOMAIN x.candidates :
             /\ x.candidates[q].status = "explored" => q \in x.cache
             /\ x.candidates[q].status = "failed" => StateAt(exp, q) = Fail
        /\ \A q \in x.cache : q # <<>> /\ StateAt(exp, q) \in exp.legal
                                => InSequence(q, x.routes)
        /\ \A i \in 1..Len(x.routes) : x.routes[i] \in x.cache
        /\ \A s \in x.seen : \E q \in x.cache : StateAt(exp, q) = s
    BY DEF Core, Recorded
  <2>2. \A q \in DOMAIN y.candidates :
             /\ y.candidates[q].status = "explored" => q \in y.cache
             /\ y.candidates[q].status = "failed" => StateAt(exp, q) = Fail
    <3> HIDE DEF v
    <3> QED BY <1>6, <1>7, <1>8, <2>1
  <2>3. \A q \in y.cache : q # <<>> /\ StateAt(exp, q) \in exp.legal => InSequence(q, y.routes)
    BY <1>3, <1>6, <1>10, <2>1 DEF LegalStop
  <2>4. \A i \in 1..Len(y.routes) : y.routes[i] \in y.cache BY <1>6, <1>10, <2>1
  <2>5. \A s \in y.seen : \E q \in y.cache : StateAt(exp, q) = s
    BY <1>2, <1>3, <1>6, <2>1
  <2> QED BY <2>2, <2>3, <2>4, <2>5 DEF Recorded
<1>15. Replayed(exp, x, y, p)
  <2>1. Only(x, y, ReplayFields) BY <1>2 DEF Only, ReplayFields
  <2>2. y.replays <= x.replays + exp.replay_count BY <1>2, <1>5 DEF Core, Typed
  <2>3. y.obs.prefix = p /\ y.obs.ok = TRUE /\ y.obs.dup = dup
    <3> HIDE DEF dup
    <3> QED BY <1>2
  <2>4. dup => \E q \in x.cache : StateAt(exp, q) = StateAt(exp, p)
    BY <1>3 DEF Core, Recorded
  <2> HIDE DEF dup, v
  <2> QED BY <1>2, <1>6, <1>8, <2>1, <2>2, <2>3, <2>4 DEF Replayed
<1>16. Core(exp, y) BY <1>11, <1>12, <1>13, <1>14 DEF Core
<1> QED BY <1>9, <1>15, <1>16 DEF y

\* A path failure keeps the counters, the cache and the candidates true.
LEMMA FailureKeeps ==
  ASSUME exp \in Experiments, NEW x, Core(exp, x), NEW p \in Seq(Nat), p # <<>>,
         StateAt(exp, p) = Fail, p \notin x.cache
  PROVE  LET y == RecordPathFailure(x, p) IN
         /\ Core(exp, y) /\ Only(x, y, FailureFields) /\ Replayed(exp, x, y, p)
<1> DEFINE y == RecordPathFailure(x, p)
           v == [status |-> "failed", dup |-> FALSE]
<1>1. DOMAIN x = Fields BY DEF Core, Typed
<1>2. /\ Only(x, y, FailureFields)
      /\ y.nodes = x.nodes + 1 /\ y.replays = x.replays + 1
      /\ y.failures = Append(x.failures, p)
      /\ y.obs = [prefix |-> p, ok |-> FALSE, dup |-> FALSE]
      /\ y.candidates = MarkedAs(x.candidates, p, v)
  BY <1>1, FailureEffect DEF FailureFields, MarkedAs
<1> HIDE DEF y
<1>3. v \in Candidate /\ v.status = "failed" BY DEF Statuses, Candidate
<1>4. /\ IsFiniteSet(DOMAIN x.candidates)
      /\ \A q \in DOMAIN x.candidates : x.candidates[q] \in Candidate
      /\ x.nodes \in Nat /\ x.replays \in Nat /\ x.hits \in Nat /\ x.dups \in Nat
      /\ x.depth \in Nat /\ x.ordinal \in Nat /\ x.completed \in Nat
      /\ x.termination \in Reasons /\ x.reason \in HardReasons \cup {"none"}
      /\ x.failures \in Seq(Seq(Nat)) /\ x.routes \in Seq(Seq(Nat)) BY DEF Core, Typed
<1>5. /\ DOMAIN y.candidates = DOMAIN x.candidates \cup ({p} \ {<<>>})
      /\ \A q \in DOMAIN x.candidates : q # p => y.candidates[q] = x.candidates[q]
      /\ \A q \in DOMAIN y.candidates :
           (y.candidates[q] = x.candidates[q] /\ q \in DOMAIN x.candidates)
           \/ (q = p /\ y.candidates[q] = v)
      /\ IsFiniteSet(DOMAIN y.candidates)
      /\ \A q \in DOMAIN y.candidates : y.candidates[q] \in Candidate
  <2> HIDE DEF v
  <2>1. PICK f, g : f = x.candidates /\ g = y.candidates OBVIOUS
  <2>2. g = MarkedAs(f, p, v) /\ IsFiniteSet(DOMAIN f) /\ v \in Candidate
        /\ \A q \in DOMAIN f : f[q] \in Candidate BY <1>2, <1>3, <1>4, <2>1
  <2>3. /\ DOMAIN g = DOMAIN f \cup ({p} \ {<<>>})
        /\ \A q \in DOMAIN f : q # p => g[q] = f[q]
        /\ \A q \in DOMAIN g : (g[q] = f[q] /\ q \in DOMAIN f) \/ (q = p /\ g[q] = v)
        /\ IsFiniteSet(DOMAIN g)
        /\ \A q \in DOMAIN g : g[q] \in Candidate
    <3>1. DOMAIN g = DOMAIN f \cup ({p} \ {<<>>}) /\ IsFiniteSet(DOMAIN g)
      BY <2>2, Marked
    <3>2. \A q \in DOMAIN g : g[q] \in Candidate BY <2>2, Marked
    <3>3. /\ \A q \in DOMAIN f : q # p => g[q] = f[q]
          /\ \A q \in DOMAIN g : (g[q] = f[q] /\ q \in DOMAIN f) \/ (q = p /\ g[q] = v)
      BY <2>2 DEF MarkedAs, Put
    <3> QED BY <3>1, <3>2, <3>3
  <2> QED BY <2>1, <2>3
<1>6. /\ y.cache = x.cache /\ y.hits = x.hits /\ y.dups = x.dups /\ y.seen = x.seen
      /\ y.routes = x.routes /\ y.termination = x.termination
      /\ y.depth = x.depth /\ y.ordinal = x.ordinal
      /\ y.completed = x.completed /\ y.reason = x.reason /\ y.prefetched = x.prefetched
      /\ DOMAIN y = Fields BY <1>2 DEF Only, FailureFields, Fields
<1>7. y.failures \in Seq(Seq(Nat)) /\ Len(y.failures) = Len(x.failures) + 1
  BY <1>2, <1>4
<1>8. Typed(y)
  <2>1. y.obs \in Observation BY <1>2 DEF Observation
  <2>2. y.nodes \in Nat /\ y.replays \in Nat /\ y.hits \in Nat /\ y.dups \in Nat
        /\ y.depth \in Nat /\ y.ordinal \in Nat /\ y.completed \in Nat
        /\ y.termination \in Reasons /\ y.reason \in HardReasons \cup {"none"}
        /\ y.routes \in Seq(Seq(Nat)) /\ y.failures \in Seq(Seq(Nat))
    <3>1. y.nodes \in Nat /\ y.replays \in Nat
      <4>1. y.nodes = x.nodes + 1 /\ y.replays = x.replays + 1 BY <1>2
      <4>2. x.nodes \in Nat /\ x.replays \in Nat BY <1>4
      <4> QED BY <4>1, <4>2
    <3>2. y.hits \in Nat /\ y.dups \in Nat
        /\ y.depth \in Nat /\ y.ordinal \in Nat /\ y.completed \in Nat
        /\ y.termination \in Reasons /\ y.reason \in HardReasons \cup {"none"}
        /\ y.routes \in Seq(Seq(Nat)) BY <1>4, <1>6
    <3> QED BY <1>7, <3>1, <3>2
  <2> QED BY <1>5, <1>6, <2>1, <2>2 DEF Typed
<1>9. Cached(exp, y) BY <1>6 DEF Core, Cached
<1>10. Counted(exp, y)
  <2> DEFINE c == Cardinality(x.cache)
  <2>1. c \in Nat BY FS_CardinalityType DEF Core, Cached
  <2>2. x.nodes = c + x.hits + Len(x.failures) /\ x.replays = exp.replay_count * c + Len(x.failures)
    BY DEF Core, Counted
  <2>3. x.hits \in Nat /\ Len(x.failures) \in Nat /\ exp.replay_count \in Nat
    <3>1. exp.replay_count \in Nat BY GraphFacts
    <3> QED BY <3>1 DEF Core, Typed
  <2>4. exp.replay_count * c \in Nat
    <3> HIDE DEF c
    <3> QED BY <2>1, <2>3
  <2>5. Cardinality(y.cache) = c BY <1>6
  <2> HIDE DEF c
  <2>8. y.nodes = x.nodes + 1 /\ y.replays = x.replays + 1 /\ y.hits = x.hits
    BY <1>2, <1>6
  <2>6. y.nodes = c + y.hits + Len(y.failures) BY <1>7, <2>1, <2>2, <2>3, <2>8
  <2>7. y.replays = exp.replay_count * c + Len(y.failures)
    BY <1>7, <2>2, <2>3, <2>4, <2>8
  <2> QED BY <2>5, <2>6, <2>7 DEF Counted
<1>11. Recorded(exp, y)
  <2>1. /\ \A q \in DOMAIN x.candidates :
             /\ x.candidates[q].status = "explored" => q \in x.cache
             /\ x.candidates[q].status = "failed" => StateAt(exp, q) = Fail
        /\ \A q \in x.cache : q # <<>> /\ StateAt(exp, q) \in exp.legal
                                => InSequence(q, x.routes)
        /\ \A i \in 1..Len(x.routes) : x.routes[i] \in x.cache
        /\ \A s \in x.seen : \E q \in x.cache : StateAt(exp, q) = s
    BY DEF Core, Recorded
  <2>2. \A q \in DOMAIN y.candidates :
             /\ y.candidates[q].status = "explored" => q \in y.cache
             /\ y.candidates[q].status = "failed" => StateAt(exp, q) = Fail
    <3> HIDE DEF v
    <3> QED BY <1>3, <1>5, <1>6, <2>1
  <2> QED BY <1>6, <2>1, <2>2 DEF Recorded
<1>12. Replayed(exp, x, y, p)
  <2>1. Only(x, y, ReplayFields) BY <1>2 DEF Only, ReplayFields
  <2>2. y.obs.prefix = p /\ y.obs.ok = FALSE BY <1>2
  <2>3. y.replays <= x.replays + exp.replay_count
    <3>1. exp.replay_count \in Nat \ {0} BY GraphFacts
    <3>2. x.replays \in Nat /\ y.replays = x.replays + 1 BY <1>2, <1>4
    <3> QED BY <3>1, <3>2
  <2> HIDE DEF v
  <2> QED BY <1>2, <1>4, <1>5, <1>6, <2>1, <2>2, <2>3 DEF Replayed
<1>13. Core(exp, y) BY <1>8, <1>9, <1>10, <1>11 DEF Core
<1> QED BY <1>2, <1>12, <1>13 DEF y

\* The replay of a planned prefix keeps the counters, the cache and the candidates true.
LEMMA ReplayKeeps ==
  ASSUME exp \in Experiments, NEW x, Core(exp, x), NEW p, Planned(exp, x.cache, p)
  PROVE  LET y == ReplayPrefix(x, p) IN
         /\ Core(exp, y)
         /\ \/ p = <<>> /\ Only(x, y, {"pc"}) /\ y.pc = "raised" /\ exp.root = Fail
            \/ Replayed(exp, x, y, p)
<1> DEFINE d == IF Len(p) > x.depth THEN Len(p) ELSE x.depth
           f == IF p \in x.cache THEN x.prefetched ELSE x.prefetched \ {p}
           z == [x EXCEPT !.depth = d, !.prefetched = f]
           r == [x EXCEPT !.pc = "raised"]
           y == ReplayPrefix(x, p)
<1>1. y = IF p \in x.cache THEN CommitFrontier(z, p, TRUE)
          ELSE IF StateOf(p) # Fail THEN CommitFrontier(z, p, FALSE)
          ELSE IF p = <<>> THEN r ELSE RecordPathFailure(z, p) BY DEF ReplayPrefix
<1>2. DOMAIN x = Fields /\ x.depth \in Nat BY DEF Core, Typed
<1>3. /\ p \in Seq(Nat) /\ StateAt(exp, p) \in DOMAIN exp.next \cup {Fail}
      /\ StateAt(exp, p) # Fail => Good(exp, p)
      /\ \A q \in x.cache : Good(exp, q)
      /\ StateOf(p) = StateAt(exp, p) BY PlannedPrefix, StateOfAt DEF Core, Cached
<1>4. d \in Nat BY <1>2, <1>3
<1>5. f \subseteq x.prefetched /\ (p \notin x.cache => p \notin f) OBVIOUS
<1>6. /\ DOMAIN z = Fields /\ z.depth = d /\ z.prefetched = f
      /\ Only(x, z, {"depth", "prefetched"})
  <2> HIDE DEF d, f
  <2> QED BY <1>2 DEF Only, Fields
<1> HIDE DEF d, f, z, r, y
<1>7. /\ z.nodes = x.nodes /\ z.replays = x.replays /\ z.hits = x.hits /\ z.dups = x.dups
      /\ z.ordinal = x.ordinal /\ z.completed = x.completed /\ z.reason = x.reason
      /\ z.termination = x.termination /\ z.routes = x.routes /\ z.failures = x.failures
      /\ z.obs = x.obs /\ z.candidates = x.candidates /\ z.cache = x.cache /\ z.seen = x.seen
  BY <1>6 DEF Only, Fields
<1>8. Core(exp, z) BY <1>4, <1>6, <1>7, <1>5 DEF Core, Typed, Cached, Counted, Recorded
<1>9. ASSUME Replayed(exp, z, y, p) PROVE Replayed(exp, x, y, p)
  BY <1>6, <1>9, <1>7 DEF Replayed, Only, ReplayFields
<1>10. CASE p \in x.cache BY <1>1, <1>10, <1>3, <1>7, <1>8, <1>9, CommitKeeps DEF y
<1>11. CASE p \notin x.cache /\ StateOf(p) # Fail
  <2>1. y = CommitFrontier(z, p, FALSE) BY <1>1, <1>11
  <2>2. Core(exp, CommitFrontier(z, p, FALSE)) /\ Replayed(exp, z, CommitFrontier(z, p, FALSE), p)
    BY <1>3, <1>5, <1>6, <1>7, <1>8, <1>11, CommitKeeps
  <2> QED BY <1>9, <2>1, <2>2 DEF y
<1>12. CASE p \notin x.cache /\ StateOf(p) = Fail /\ p # <<>>
  BY <1>1, <1>12, <1>3, <1>7, <1>8, <1>9, FailureKeeps DEF y
<1>13. CASE p \notin x.cache /\ StateOf(p) = Fail /\ p = <<>>
  <2>1. y = r BY <1>1, <1>13
  <2>2. Only(x, r, {"pc"}) /\ r.pc = "raised" BY <1>2 DEF r, Only, Fields
  <2>3. /\ r.nodes = x.nodes /\ r.replays = x.replays /\ r.hits = x.hits /\ r.dups = x.dups
        /\ r.ordinal = x.ordinal /\ r.completed = x.completed /\ r.reason = x.reason
        /\ r.termination = x.termination /\ r.routes = x.routes /\ r.failures = x.failures
        /\ r.obs = x.obs /\ r.candidates = x.candidates /\ r.cache = x.cache /\ r.seen = x.seen
        /\ r.depth = x.depth /\ r.prefetched = x.prefetched /\ DOMAIN r = Fields
    BY <2>2 DEF Only, Fields
  <2>4. Typed(r) BY <2>3 DEF Core, Typed
  <2>5. Cached(exp, r) /\ Counted(exp, r) /\ Recorded(exp, r)
    BY <2>3 DEF Core, Cached, Counted, Recorded
  <2>6. exp.root = Fail BY <1>3, <1>13, StateAtRoot
  <2> QED BY <1>13, <2>1, <2>2, <2>4, <2>5, <2>6 DEF Core, y
<1> QED BY <1>10, <1>11, <1>12, <1>13

(* Candidates recorded ahead, and the room the budget leaves. *)
\* Entries are added, none is changed.
Wider(f, g) == DOMAIN f \subseteq DOMAIN g /\ \A q \in DOMAIN f : g[q] = f[q]

\* The fields that plan and log say nothing about what has been observed.
LEMMA CoreFrame ==
  ASSUME NEW e, NEW x, NEW y, Core(e, x), DOMAIN y = Fields,
         Only(x, y, {"pc", "updates", "pending", "current", "plan", "observed", "tree", "node"})
  PROVE  Core(e, y)
<1>1. /\ y.nodes = x.nodes /\ y.replays = x.replays /\ y.hits = x.hits /\ y.dups = x.dups
      /\ y.ordinal = x.ordinal /\ y.completed = x.completed /\ y.reason = x.reason
      /\ y.termination = x.termination /\ y.routes = x.routes /\ y.failures = x.failures
      /\ y.obs = x.obs /\ y.candidates = x.candidates /\ y.cache = x.cache /\ y.seen = x.seen
      /\ y.depth = x.depth /\ y.prefetched = x.prefetched BY DEF Only, Fields
<1>2. Typed(y) BY <1>1 DEF Core, Typed
<1>3. Cached(e, y) /\ Counted(e, y) /\ Recorded(e, y)
  BY <1>1 DEF Core, Cached, Counted, Recorded
<1> QED BY <1>2, <1>3 DEF Core

\* Candidates may be added unexplored or pruned; the prefetched set stays apart from the cache.
LEMMA CandidatesFrame ==
  ASSUME NEW e, NEW x, NEW y, Core(e, x),
         Only(x, y, {"candidates", "prefetched"}),
         IsFiniteSet(DOMAIN y.candidates), y.prefetched \cap x.cache = {},
         \A q \in DOMAIN y.candidates :
           /\ y.candidates[q] \in Candidate
           /\ \/ q \in DOMAIN x.candidates /\ y.candidates[q] = x.candidates[q]
              \/ y.candidates[q].status \in {"unexplored", "pruned"}
  PROVE  Core(e, y)
<1>1. /\ y.nodes = x.nodes /\ y.replays = x.replays /\ y.hits = x.hits /\ y.dups = x.dups
      /\ y.ordinal = x.ordinal /\ y.completed = x.completed /\ y.reason = x.reason
      /\ y.termination = x.termination /\ y.routes = x.routes /\ y.failures = x.failures
      /\ y.obs = x.obs /\ y.cache = x.cache /\ y.seen = x.seen
      /\ y.depth = x.depth /\ DOMAIN y = Fields BY DEF Only, Fields
<1>2. Typed(y) BY <1>1 DEF Core, Typed
<1>3. Cached(e, y) /\ Counted(e, y) BY <1>1 DEF Core, Cached, Counted
<1>4. Recorded(e, y)
  <2>1. \A q \in DOMAIN y.candidates :
           /\ y.candidates[q].status = "explored" => q \in y.cache
           /\ y.candidates[q].status = "failed" => StateAt(e, q) = Fail
    <3> SUFFICES ASSUME NEW q \in DOMAIN y.candidates,
                        y.candidates[q].status \in {"explored", "failed"}
                 PROVE  /\ y.candidates[q].status = "explored" => q \in y.cache
                        /\ y.candidates[q].status = "failed" => StateAt(e, q) = Fail
      OBVIOUS
    <3>1. q \in DOMAIN x.candidates /\ y.candidates[q] = x.candidates[q] OBVIOUS
    <3> QED BY <1>1, <3>1 DEF Core, Recorded
  <2> QED BY <1>1, <2>1 DEF Core, Recorded
<1> QED BY <1>2, <1>3, <1>4 DEF Core

\* Recording candidates ahead of their replay keeps the core of the invariant.
LEMMA EnsureKeeps ==
  ASSUME NEW e, NEW x, Core(e, x), NEW ps, IsFiniteSet(ps)
  PROVE  LET y == EnsureCandidates(x, ps) IN
         /\ Core(e, y) /\ Only(x, y, {"candidates"})
         /\ Wider(x.candidates, y.candidates)
         /\ ps \subseteq DOMAIN y.candidates \cup {<<>>}
         /\ \A q \in DOMAIN y.candidates : q \in DOMAIN x.candidates \/ y.candidates[q].status = "unexplored"
<1> DEFINE new == [status |-> "unexplored", dup |-> FALSE]
           g == [q \in DOMAIN x.candidates \cup (ps \ {<<>>}) |->
                   IF q \in DOMAIN x.candidates THEN x.candidates[q] ELSE new]
           y == [x EXCEPT !.candidates = g]
<1>1. EnsureCandidates(x, ps) = y BY DEF EnsureCandidates
<1>2. DOMAIN x = Fields /\ IsFiniteSet(DOMAIN x.candidates)
      /\ \A q \in DOMAIN x.candidates : x.candidates[q] \in Candidate
  BY DEF Core, Typed
<1>3. new \in Candidate /\ new.status = "unexplored" BY DEF Candidate, Statuses
<1> HIDE DEF new
<1>4. IsFiniteSet(DOMAIN x.candidates \cup (ps \ {<<>>})) BY <1>2, FS_Subset, FS_Union
<1>5. /\ DOMAIN g = DOMAIN x.candidates \cup (ps \ {<<>>})
      /\ \A q \in DOMAIN x.candidates : g[q] = x.candidates[q]
      /\ \A q \in DOMAIN g : g[q] \in Candidate
      /\ \A q \in DOMAIN g : q \in DOMAIN x.candidates \/ g[q].status = "unexplored"
  BY <1>2, <1>3
<1> HIDE DEF g
<1>6. Only(x, y, {"candidates"}) /\ y.candidates = g BY <1>2 DEF Only, Fields
<1>7. y.prefetched = x.prefetched /\ Only(x, y, {"candidates", "prefetched"})
  BY <1>6 DEF Only, Fields
<1> HIDE DEF y
<1>8. Core(e, y) BY <1>7, <1>5, <1>6, <1>4, CandidatesFrame DEF Core, Cached
<1>9. Wider(x.candidates, y.candidates) /\ ps \subseteq DOMAIN y.candidates \cup {<<>>}
  BY <1>5, <1>6 DEF Wider
<1> QED BY <1>1, <1>5, <1>6, <1>8, <1>9

\* Replaying each of the n prefixes that still fit c times.
LEMMA Repeated ==
  ASSUME NEW c \in Nat \ {0}, NEW r \in Nat, NEW n \in Nat, NEW m \in Nat, r + n <= m
  PROVE  r + c * n <= m * c
<1>1. PICK d \in Nat : m = (r + n) + d
  <2>1. m - (r + n) \in Nat /\ m = (r + n) + (m - (r + n)) OBVIOUS
  <2> QED BY <2>1
<1>2. PICK b \in Nat : c = b + 1
  <2>1. c - 1 \in Nat /\ c = (c - 1) + 1 OBVIOUS
  <2> QED BY <2>1
<1>3. b * r \in Nat /\ c * d \in Nat BY <1>1, <1>2
<1>4. m * c = c * n + r + b * r + c * d BY <1>1, <1>2
<1>5. c * n \in Nat OBVIOUS
<1> QED BY <1>3, <1>4, <1>5

\* _remaining_node_slots stays within the budget.
LEMMA SlotsFit ==
  ASSUME exp \in Experiments, NEW x, x.nodes \in Nat, x.replays \in Nat, Room(exp, x, 0),
         NEW u \in Nat
  PROVE  Slots(x, u) \in 0..u /\ Room(exp, x, Slots(x, u))
<1> DEFINE n == IF exp.max_nodes = NoLimit THEN u ELSE Remaining(exp.max_nodes, x.nodes)
           r == IF exp.max_replays = NoLimit THEN u ELSE Remaining(exp.max_replays, x.replays)
<1>1. Slots(x, u) = Smaller(u, Smaller(n, r)) BY DEF Slots
<1>2. exp.max_nodes \in Nat \cup {NoLimit} /\ exp.max_replays \in Nat \cup {NoLimit}
  BY GraphFacts
<1>3. n \in Nat /\ (exp.max_nodes # NoLimit => x.nodes + n <= exp.max_nodes)
  BY <1>2 DEF Remaining, Room
<1>4. r \in Nat /\ (exp.max_replays # NoLimit => r = Remaining(exp.max_replays, x.replays))
  BY <1>2 DEF Remaining
<1> HIDE DEF n, r
<1>5. Smaller(u, Smaller(n, r)) \in 0..u /\ Smaller(u, Smaller(n, r)) <= n
      /\ Smaller(u, Smaller(n, r)) <= r BY <1>3, <1>4 DEF Smaller
<1>6. PICK s \in 0..u : s = Slots(x, u) /\ s <= n /\ s <= r BY <1>1, <1>5
<1>7. exp.max_nodes # NoLimit => x.nodes + s <= exp.max_nodes BY <1>2, <1>3, <1>6
<1>8. ASSUME exp.max_replays # NoLimit, s # 0
      PROVE  x.replays < exp.max_replays /\ s <= exp.max_replays - x.replays
  BY <1>2, <1>4, <1>6, <1>8 DEF Remaining
<1>9. exp.replay_count \in Nat \ {0} BY GraphFacts
<1>10. ASSUME exp.max_replays # NoLimit, s # 0
       PROVE  x.replays + exp.replay_count * s <= exp.max_replays * exp.replay_count
  BY <1>2, <1>8, <1>9, <1>10, Repeated
<1> QED BY <1>2, <1>6, <1>7, <1>8, <1>10 DEF Room

\* A sequence has finitely many values.
LEMMA FiniteValues ==
  ASSUME NEW s, NEW n \in Nat
  PROVE  IsFiniteSet({s[i] : i \in 1..n})
<1>1. IsFiniteSet(1..n) BY FS_Interval
<1> DEFINE T == {s[i] : i \in 1..n}
           f == [i \in 1..n |-> s[i]]
<1>2. f \in Surjection(1..n, T) BY DEF Surjection
<1> HIDE DEF f
<1>3. IsFiniteSet(T) BY <1>1, <1>2, FS_Surjection
<1> QED BY <1>3

\* Prefetching records candidates and results, and commits nothing.
LEMMA PrefetchKeeps ==
  ASSUME exp \in Experiments, NEW x, Core(exp, x), Room(exp, x, 0),
         NEW k \in Nat, NEW s, Len(s) \in Nat
  PROVE  LET y == Prefetch(k, x, s) IN
         /\ Core(exp, y) /\ Only(x, y, {"candidates", "prefetched"})
         /\ Wider(x.candidates, y.candidates)
<1> DEFINE w == Slots(x, k)
           m == Smaller(w, Len(s))
           ahead == {s[i] : i \in 1..m}
           dispatch == ahead \ (x.cache \cup x.prefetched)
           z == EnsureCandidates(x, dispatch)
           u == [z EXCEPT !.prefetched = @ \cup dispatch]
           y == Prefetch(k, x, s)
<1>1. y = IF k <= 1 \/ Len(s) <= 1 \/ w <= 1 THEN x
          ELSE IF Cardinality(dispatch) <= 1 THEN z ELSE u BY DEF Prefetch
<1>2. DOMAIN x = Fields /\ x.nodes \in Nat /\ x.replays \in Nat BY DEF Core, Typed
<1>3. w \in Nat BY <1>2, SlotsFit
<1>4. IsFiniteSet(dispatch)
  <2>1. m \in Nat BY <1>3 DEF Smaller
  <2>2. IsFiniteSet(ahead)
    <3> HIDE DEF m
    <3> QED BY <2>1, FiniteValues
  <2> HIDE DEF ahead
  <2> QED BY <2>2, FS_Subset
<1>5. dispatch \cap x.cache = {} OBVIOUS
<1> HIDE DEF dispatch
<1>6. /\ Core(exp, z) /\ Only(x, z, {"candidates"}) /\ Wider(x.candidates, z.candidates)
  BY <1>4, EnsureKeeps
<1> HIDE DEF z, y, w
<1>7. DOMAIN z = Fields /\ z.cache = x.cache BY <1>6 DEF Only, Fields
<1>8. /\ Only(z, u, {"prefetched"}) /\ u.prefetched = z.prefetched \cup dispatch
  BY <1>7 DEF Only, Fields
<1> HIDE DEF u
<1>9. u.candidates = z.candidates /\ Only(z, u, {"candidates", "prefetched"})
  BY <1>8 DEF Only, Fields
<1>10. Core(exp, u)
  <2>1. u.prefetched \cap z.cache = {} BY <1>5, <1>6, <1>7, <1>8 DEF Core, Cached
  <2>2. IsFiniteSet(DOMAIN z.candidates) /\ \A q \in DOMAIN z.candidates : z.candidates[q] \in Candidate
    BY <1>6 DEF Core, Typed
  <2> QED BY <1>6, <1>9, <2>1, <2>2, CandidatesFrame
<1>11. Only(x, u, {"candidates", "prefetched"}) /\ Wider(x.candidates, u.candidates)
  BY <1>6, <1>8, <1>9 DEF Only
<1>12. Only(x, z, {"candidates", "prefetched"}) /\ Only(x, x, {"candidates", "prefetched"})
       /\ Wider(x.candidates, x.candidates) BY <1>2, <1>6 DEF Only, Wider
<1>13. CASE y = x BY <1>12, <1>13 DEF y
<1>14. CASE y = z BY <1>6, <1>12, <1>14 DEF y
<1>15. CASE y = u BY <1>10, <1>11, <1>15 DEF y
<1> QED BY <1>1, <1>13, <1>14, <1>15

(* The budget check, and the parts of the invariant that survive a step. *)
\* When no hard budget is reached there is room for one more replay.
LEMMA BudgetReason ==
  ASSUME exp \in Experiments, NEW x, x.nodes \in Nat, x.replays \in Nat, NEW late \in BOOLEAN
  PROVE  /\ HardBudgetReason(x, late) \in HardReasons \cup {"none"}
         /\ HardBudgetReason(x, late) = "none" => Room(exp, x, 1)
<1>1. exp.max_nodes \in Nat \cup {NoLimit} /\ exp.max_replays \in Nat \cup {NoLimit}
  BY GraphFacts
<1>2. CASE late BY <1>2 DEF HardBudgetReason, HardReasons
<1>3. CASE ~late /\ AtLimit(exp.max_nodes, x.nodes)
  BY <1>3 DEF HardBudgetReason, HardReasons
<1>4. CASE ~late /\ ~AtLimit(exp.max_nodes, x.nodes) /\ AtLimit(exp.max_replays, x.replays)
  BY <1>4 DEF HardBudgetReason, HardReasons
<1>5. CASE ~late /\ ~AtLimit(exp.max_nodes, x.nodes) /\ ~AtLimit(exp.max_replays, x.replays)
  <2>1. exp.replay_count \in Nat \ {0} BY GraphFacts
  <2>2. exp.max_replays # NoLimit => x.replays + 1 <= exp.max_replays BY <1>1, <1>5 DEF AtLimit
  <2>3. exp.max_replays # NoLimit
          => x.replays + exp.replay_count * 1 <= exp.max_replays * exp.replay_count
    BY <1>1, <2>1, <2>2, Repeated
  <2> QED BY <1>1, <1>5, <2>2, <2>3 DEF AtLimit, HardBudgetReason, Room
<1> QED BY <1>2, <1>3, <1>4, <1>5

\* The clock is late or it is not.
LEMMA LateBoolean == Late \subseteq BOOLEAN
BY DEF Late

\* A step that commits at most one replay fits into the room it was given.
LEMMA RoomAfter ==
  ASSUME NEW e \in Experiments, NEW x, NEW y, NEW m \in Nat, Room(e, x, m + 1),
         x.nodes \in Nat, x.replays \in Nat, y.replays \in Nat, y.nodes = x.nodes + 1,
         y.replays <= x.replays + e.replay_count, m = 0 \/ e.mode = "beam"
  PROVE  Room(e, y, m)
<1>1. e.max_nodes \in Nat \cup {NoLimit} /\ e.max_replays \in Nat \cup {NoLimit}
  BY GraphFacts
<1>2. e.max_nodes # NoLimit => y.nodes + m <= e.max_nodes BY <1>1 DEF Room
<1>3. PICK c \in Nat \ {0} : c = e.replay_count BY GraphFacts
<1>4. c * (m + 1) = c * m + c /\ c * m \in Nat /\ m + 1 # 0 BY <1>3
<1>5. ASSUME e.max_replays # NoLimit
      PROVE  /\ y.replays + c * m <= e.max_replays * c
             /\ e.mode # "beam" => y.replays < e.max_replays + c
  <2>1. PICK b : b = e.max_replays * c OBVIOUS
  <2>2. e.max_replays \in Nat /\ b \in Nat BY <1>1, <1>3, <1>5, <2>1
  <2>3. x.replays + c * (m + 1) <= b BY <1>3, <1>5, <2>1 DEF Room
  <2>4. x.replays + (c * m + c) <= b BY <1>4, <2>3
  <2>5. y.replays <= x.replays + c BY <1>3
  <2>6. y.replays + c * m <= b BY <1>4, <2>2, <2>4, <2>5
  <2>7. e.mode # "beam" => x.replays < e.max_replays BY <1>4, <1>5, <2>2 DEF Room
  <2>8. e.mode # "beam" => y.replays < e.max_replays + c BY <2>2, <2>5, <2>7, <1>3
  <2> QED BY <2>1, <2>6, <2>8
<1>6. m = 0 \/ ~(e.mode # "beam") OBVIOUS
<1> QED BY <1>2, <1>3, <1>5, <1>6 DEF Room

\* Room depends on two counters only.
LEMMA RoomFrame ==
  ASSUME NEW e, NEW x, NEW y, y.nodes = x.nodes, y.replays = x.replays, NEW n, Room(e, x, n)
  PROVE  Room(e, y, n)
BY DEF Room

\* Room for more is room for less.
LEMMA RoomLess ==
  ASSUME NEW e \in Experiments, NEW x, x.nodes \in Nat, x.replays \in Nat,
         NEW m \in Nat, NEW n \in Nat, m <= n, Room(e, x, n)
  PROVE  Room(e, x, m)
<1>1. e.max_nodes \in Nat \cup {NoLimit} /\ e.max_replays \in Nat \cup {NoLimit}
  BY GraphFacts
<1>2. e.max_nodes # NoLimit => x.nodes + m <= e.max_nodes BY <1>1 DEF Room
<1>3. e.replay_count \in Nat \ {0} BY GraphFacts
<1>4. e.replay_count * m <= e.replay_count * n
      /\ e.replay_count * m \in Nat /\ e.replay_count * n \in Nat
  <2>1. PICK d \in Nat : n = m + d
    <3>1. n - m \in Nat /\ n = m + (n - m) OBVIOUS
    <3> QED BY <3>1
  <2>2. e.replay_count * n = e.replay_count * m + e.replay_count * d
        /\ e.replay_count * d \in Nat /\ e.replay_count * m \in Nat BY <1>3, <2>1
  <2> QED BY <2>2
<1>5. e.max_replays # NoLimit =>
        x.replays + e.replay_count * m <= e.max_replays * e.replay_count
  <2> SUFFICES ASSUME e.max_replays # NoLimit
               PROVE  x.replays + e.replay_count * m <= e.max_replays * e.replay_count OBVIOUS
  <2>1. PICK b \in Nat : b = e.max_replays * e.replay_count BY <1>1, <1>3
  <2>2. x.replays + e.replay_count * n <= b BY <2>1 DEF Room
  <2> QED BY <1>4, <2>1, <2>2
<1>6. e.max_replays # NoLimit /\ e.mode # "beam" =>
        x.replays < e.max_replays + (IF m = 0 THEN e.replay_count ELSE 0)
  BY <1>1, <1>3 DEF Room
<1> QED BY <1>2, <1>5, <1>6 DEF Room

\* The stage of a running search tells its mode.
LEMMA ModeOf ==
  ASSUME NEW e \in Experiments, NEW x, StagesOf(e, x)
  PROVE  /\ x.pc = "depth_first" => e.mode = "depth_first"
         /\ x.pc \in {"beam", "beam_layer", "beam_commit"} => e.mode = "beam"
         /\ x.pc \in {"mcts", "simulate", "select", "rollout"} => e.mode = "mcts"
<1>1. e.mode \in {"depth_first", "beam", "mcts"} BY GraphFacts DEF Modes
<1> QED BY <1>1 DEF StagesOf, Stages

\* Without a search tree only the first six parts of the invariant can fail.
LEMMA Treeless ==
  ASSUME NEW e \in Experiments, NEW z, Core(e, z), Limited(e, z), StagesOf(e, z), Stacked(e, z),
         Layered(e, z), CoverageKept(e, z), e.mode # "mcts", z.completed = 0, z.ordinal >= 1
  PROVE  RunInv(e, z)
<1>1. z.tree = NoCandidates /\ DOMAIN z.tree = {} BY DEF StagesOf, NoCandidates
<1>2. z.pc \notin {"simulate", "select", "rollout"} BY ModeOf
<1>3. Grown(e, z) BY <1>1, <1>2 DEF Grown
<1>4. Visited(z) BY <1>1 DEF Core, Typed, Visited
<1> QED BY <1>3, <1>4 DEF RunInv

\* A settled state stays settled while the tables grow.
LEMMA SettledStays ==
  ASSUME NEW e, NEW x, NEW y, NEW s, Settled(e, x, s), x.cache \subseteq y.cache,
         DOMAIN x.candidates \subseteq DOMAIN y.candidates
  PROVE  Settled(e, y, s)
BY DEF Settled

\* A planned prefix stays planned while the cache grows.
LEMMA PlannedStays ==
  ASSUME NEW e, NEW C, NEW D, C \subseteq D, NEW p, Planned(e, C, p)
  PROVE  Planned(e, D, p)
BY DEF Planned

\* A run that stops before a verdict on its coverage keeps the invariant.
LEMMA StopKeeps ==
  ASSUME NEW e \in Experiments, NEW x, NEW y, RunInv(e, x),
         Only(x, y, {"pc", "termination", "updates"}), y.pc \in {"done", "raised"},
         y.termination \in Reasons,
         y.termination = "exhausted" =>
           /\ x.termination = "exhausted"
           /\ y.pc = "done" /\ e.mode # "mcts" =>
                /\ <<>> \in x.cache
                /\ \/ \E p \in DOMAIN x.candidates : x.candidates[p].status = "pruned"
                   \/ \A p \in x.cache : Settled(e, x, StateAt(e, p))
  PROVE  RunInv(e, y)
<1>1. /\ y.nodes = x.nodes /\ y.replays = x.replays /\ y.hits = x.hits /\ y.dups = x.dups
      /\ y.ordinal = x.ordinal /\ y.completed = x.completed /\ y.reason = x.reason
      /\ y.routes = x.routes /\ y.failures = x.failures
      /\ y.obs = x.obs /\ y.candidates = x.candidates /\ y.cache = x.cache /\ y.seen = x.seen
      /\ y.depth = x.depth /\ y.prefetched = x.prefetched /\ y.tree = x.tree
      /\ DOMAIN y = Fields BY DEF Only, Fields
<1>2. Typed(y) BY <1>1 DEF RunInv, Core, Typed
<1>3. Cached(e, y) /\ Counted(e, y) /\ Recorded(e, y)
  BY <1>1 DEF RunInv, Core, Cached, Counted, Recorded
<1>4. Limited(e, y) /\ StagesOf(e, y) /\ Stacked(e, y) /\ Layered(e, y)
  <2>1. Room(e, y, 0) BY <1>1 DEF RunInv, Limited, Room
  <2> QED BY <1>1, <2>1 DEF RunInv, Limited, StagesOf, Stacked, Layered
<1>5. Grown(e, y) BY <1>1 DEF RunInv, Grown
<1>6. Visited(y) BY <1>1 DEF RunInv, Visited, SumVisits, TreeChildren
<1>7. CoverageKept(e, y)
  <2>1. \A s : Settled(e, x, s) <=> Settled(e, y, s) BY <1>1 DEF Settled
  <2>2. ASSUME y.termination = "exhausted", e.mode = "depth_first"
        PROVE  \A p \in y.cache : Settled(e, y, StateAt(e, p))
    BY <1>1, <2>1, <2>2 DEF RunInv, CoverageKept
  <2>3. ASSUME y.termination = "exhausted", y.pc = "done", e.mode # "mcts"
        PROVE  /\ <<>> \in y.cache
               /\ \/ \E p \in DOMAIN y.candidates : y.candidates[p].status = "pruned"
                  \/ \A p \in y.cache : Settled(e, y, StateAt(e, p))
    BY <1>1, <2>1, <2>3
  <2> QED BY <2>2, <2>3 DEF CoverageKept
<1> QED BY <1>2, <1>3, <1>4, <1>5, <1>6, <1>7 DEF RunInv, Core

(* _run_depth_first *)
\* The first elements of a sequence.
LEMMA Shortened ==
  ASSUME NEW S, NEW s \in Seq(S), NEW m \in 0..Len(s)
  PROVE  /\ SubSeq(s, 1, m) \in Seq(S) /\ Len(SubSeq(s, 1, m)) = m
         /\ \A i \in 1..m : SubSeq(s, 1, m)[i] = s[i]
OBVIOUS

\* The top of a stack and what is left below it.
LEMMA StackTop ==
  ASSUME NEW S, NEW s \in Seq(S), s # <<>>
  PROVE  LET n == Len(s)
             t == SubSeq(s, 1, n - 1) IN
         /\ n \in Nat \ {0} /\ s[n] \in S
         /\ t \in Seq(S) /\ Len(t) = n - 1
         /\ \A i \in 1..(n - 1) : t[i] = s[i]
<1> DEFINE n == Len(s)
           t == SubSeq(s, 1, n - 1)
<1>1. n \in Nat \ {0} /\ s[n] \in S OBVIOUS
<1>2. n - 1 \in 0..Len(s) BY <1>1
<1> QED BY <1>1, <1>2, Shortened

\* The length and the elements of a concatenation.
LEMMA Concatenated ==
  ASSUME NEW S, NEW s \in Seq(S), NEW r \in Seq(S)
  PROVE  /\ s \o r \in Seq(S) /\ Len(s \o r) = Len(s) + Len(r)
         /\ Len(s) \in Nat /\ Len(r) \in Nat
         /\ \A i \in 1..Len(s) : (s \o r)[i] = s[i]
         /\ \A i \in (Len(s) + 1)..(Len(s) + Len(r)) : (s \o r)[i] = r[i - Len(s)]
<1>1. s \o r \in Seq(S) /\ Len(s \o r) = Len(s) + Len(r) OBVIOUS
<1>2. \A i \in 1..Len(s) : (s \o r)[i] = s[i] OBVIOUS
<1>3. \A i \in (Len(s) + 1)..(Len(s) + Len(r)) : (s \o r)[i] = r[i - Len(s)] OBVIOUS
<1> QED BY <1>1, <1>2, <1>3

\* A function on 1..n is a sequence of length n.
LEMMA Tabulated ==
  ASSUME NEW S, NEW n \in Nat, NEW f, f = [i \in 1..n |-> f[i]], \A i \in 1..n : f[i] \in S
  PROVE  f \in Seq(S) /\ Len(f) = n
<1>1. f \in [1..n -> S] OBVIOUS
<1> QED BY <1>1

\* Every element of a grown stack was on it or is a child.
LEMMA StackGrows ==
  ASSUME NEW s \in Seq(Seq(Nat)), NEW kids \in Seq(Seq(Nat))
  PROVE  LET t == s \o Reversed(kids) IN
         /\ t \in Seq(Seq(Nat))
         /\ \A i \in 1..Len(t) : (i \in 1..Len(s) /\ t[i] = s[i])
              \/ \E j \in 1..Len(kids) : t[i] = kids[j]
<1> DEFINE r == Reversed(kids)
           n == Len(kids)
<1>1. n \in Nat /\ \A i \in 1..n : n + 1 - i \in 1..n /\ kids[n + 1 - i] \in Seq(Nat)
  OBVIOUS
<1>2. r = [i \in 1..n |-> kids[n + 1 - i]] BY DEF Reversed
<1>3. r \in Seq(Seq(Nat)) /\ Len(r) = n /\ \A i \in 1..n : r[i] = kids[n + 1 - i]
  <2> HIDE DEF r, n
  <2>1. r \in [1..n -> Seq(Nat)] BY <1>1, <1>2
  <2> QED BY <1>1, <1>2, <2>1
<1> HIDE DEF r
<1> DEFINE t == s \o r
<1>4. t \in Seq(Seq(Nat)) /\ Len(t) = Len(s) + n /\ Len(s) \in Nat
      /\ (\A i \in 1..Len(s) : t[i] = s[i])
      /\ (\A i \in (Len(s) + 1)..(Len(s) + n) : t[i] = r[i - Len(s)])
  <2> HIDE DEF n
  <2> QED BY <1>3, Concatenated, ZenonT(30)
<1> HIDE DEF t, n
<1>5. ASSUME NEW i \in 1..Len(t), i \notin 1..Len(s)
      PROVE  \E j \in 1..n : t[i] = kids[j]
  <2>1. i \in (Len(s) + 1)..(Len(s) + n) /\ i - Len(s) \in 1..n BY <1>1, <1>4, <1>5
  <2>2. t[i] = kids[n + 1 - (i - Len(s))] BY <1>3, <1>4, <2>1
  <2> QED BY <1>1, <2>1, <2>2
<1> QED BY <1>4, <1>5 DEF t, r, n

\* The children of a prefix are one per action, in order.
LEMMA ChildrenOf ==
  ASSUME exp \in Experiments, NEW p, Good(exp, p)
  PROVE  /\ Children(p) \in Seq(Seq(Nat)) /\ Len(Children(p)) \in Nat
         /\ Branch(exp, p) = 1..Len(Children(p))
         /\ \A i \in 1..Len(Children(p)) : Children(p)[i] = Append(p, i)
         /\ (Actions(p) = <<>> => Branch(exp, p) = {})
         /\ Len(Actions(p)) = Len(Children(p)) /\ Actions(p) \in Seq(Nat)
         /\ \A i \in 1..Len(Actions(p)) : Actions(p)[i] = i
<1> DEFINE n == Len(exp.next[StateAt(exp, p)])
<1>1. p \in Seq(Nat) /\ StateAt(exp, p) \in DOMAIN exp.next BY GoodEnds
<1>2. n \in Nat BY <1>1, GraphFacts
<1>3. Actions(p) = [i \in 1..n |-> i] BY StateOfAt DEF Actions
<1>4. Branch(exp, p) = 1..n BY DEF Branch
<1> HIDE DEF n
<1>5. Actions(p) \in Seq(Nat) /\ Len(Actions(p)) = n /\ \A i \in 1..n : Actions(p)[i] = i
  BY <1>2, <1>3
<1>6. Children(p) = [i \in 1..n |-> Append(p, i)] BY <1>5 DEF Children
<1>7. Children(p) \in Seq(Seq(Nat)) /\ Len(Children(p)) = n
      /\ \A i \in 1..n : Children(p)[i] = Append(p, i)
  <2>1. \A i \in 1..n : Children(p)[i] = Append(p, i) /\ Append(p, i) \in Seq(Nat)
    BY <1>1, <1>2, <1>6
  <2>2. Children(p) = [i \in 1..n |-> Children(p)[i]] BY <1>6
  <2>3. \A i \in 1..n : Children(p)[i] \in Seq(Nat) BY <2>1
  <2> QED BY <1>2, <2>1, <2>2, <2>3, Tabulated
<1>8. Actions(p) = <<>> => n = 0 BY <1>5
<1>9. n = 0 => 1..n = {} OBVIOUS
<1> QED BY <1>2, <1>4, <1>5, <1>7, <1>8, <1>9

\* A child is never the root.
LEMMA NoPrefix == ASSUME NEW p \in Seq(Nat), NEW i \in Nat PROVE Append(p, i) # <<>>
OBVIOUS

\* What makes a depth-first run correct between two visits.
LEMMA DepthFirstState ==
  ASSUME NEW e \in Experiments, NEW z, Core(e, z), e.mode = "depth_first",
         z.pc \in {"depth_first", "done", "raised"}, Room(e, z, 0),
         z.tree = NoCandidates, z.completed = 0, z.ordinal >= 1,
         z.pc = "depth_first" =>
           /\ z.pending \in Seq(Seq(Nat)) /\ <<>> \in z.cache
           /\ \A i \in 1..Len(z.pending) : Planned(e, z.cache, z.pending[i]),
         z.termination = "exhausted" =>
           z.pc # "done" /\ \A p \in z.cache : Settled(e, z, StateAt(e, p))
  PROVE  RunInv(e, z)
<1>1. Limited(e, z) /\ Layered(e, z) BY DEF Limited, Layered
<1>2. StagesOf(e, z) BY DEF StagesOf, Stages
<1>3. Stacked(e, z) BY DEF Stacked
<1>4. CoverageKept(e, z) BY DEF CoverageKept
<1> QED BY <1>1, <1>2, <1>3, <1>4, Treeless

\* What an unobserved stack top turns into once its replay has been observed.
LEMMA DepthFirstExpands ==
  ASSUME exp \in Experiments, NEW k \in Nat, NEW y, NEW p,
         Core(exp, y), exp.mode = "depth_first", y.pc = "depth_first", Room(exp, y, 0),
         y.tree = NoCandidates, y.completed = 0, y.ordinal >= 1,
         y.pending \in Seq(Seq(Nat)), <<>> \in y.cache,
         \A i \in 1..Len(y.pending) : Planned(exp, y.cache, y.pending[i]),
         p \in y.cache,
         y.termination = "exhausted" =>
           \A q \in y.cache : Settled(exp, y, StateAt(exp, q)) \/ StateAt(exp, q) = StateAt(exp, p)
  PROVE  RunInv(exp, DepthFirstExpand(k, y, p))
<1> DEFINE kids == Children(p)
           a == Log(y, p)
           b == Prefetch(k, a, kids)
           ps == {kids[i] : i \in 1..Len(kids)}
           c == EnsureCandidates(b, ps)
           t == c.pending \o Reversed(kids)
           u == [c EXCEPT !.pending = t]
<1>1. DepthFirstExpand(k, y, p) = u BY DEF DepthFirstExpand
<1>2. Good(exp, p) /\ p \in Seq(Nat) BY GoodEnds DEF Core, Cached
<1>3. /\ kids \in Seq(Seq(Nat)) /\ Len(kids) \in Nat /\ Branch(exp, p) = 1..Len(kids)
      /\ \A i \in 1..Len(kids) : kids[i] = Append(p, i) BY <1>2, ChildrenOf
<1>4. DOMAIN y = Fields BY DEF Core, Typed
<1>5. Only(y, a, {"updates"}) /\ a.updates = Append(y.updates, p)
  BY <1>4 DEF Log, Only, Fields
<1>6. Core(exp, a) BY <1>5, CoreFrame DEF Only
<1> HIDE DEF kids, a
<1>7. Room(exp, a, 0) BY <1>5 DEF Only, Fields, Room
<1>8. Core(exp, b) /\ Only(a, b, {"candidates", "prefetched"}) /\ Wider(a.candidates, b.candidates)
  BY <1>3, <1>6, <1>7, PrefetchKeeps
<1> HIDE DEF b
<1>9. IsFiniteSet(ps) BY <1>3, FiniteValues
<1>10. Core(exp, c) /\ Only(b, c, {"candidates"}) /\ Wider(b.candidates, c.candidates)
       /\ ps \subseteq DOMAIN c.candidates \cup {<<>>} BY <1>8, <1>9, EnsureKeeps
<1> HIDE DEF c
<1>11. Only(y, c, {"updates", "candidates", "prefetched"})
       /\ DOMAIN y.candidates \subseteq DOMAIN c.candidates
  BY <1>5, <1>8, <1>10 DEF Only, Fields, Wider
<1>12. c.pending = y.pending /\ DOMAIN c = Fields BY <1>11 DEF Only, Fields
<1>13. Only(c, u, {"pending"}) /\ u.pending = t BY <1>12 DEF Only, Fields
<1>14. /\ t \in Seq(Seq(Nat))
       /\ \A i \in 1..Len(t) : (i \in 1..Len(y.pending) /\ t[i] = y.pending[i])
              \/ \E j \in 1..Len(kids) : t[i] = kids[j]
  <2>1. t = y.pending \o Reversed(kids) BY <1>12
  <2> HIDE DEF t
  <2>2. PICK s : s = y.pending OBVIOUS
  <2>3. s \in Seq(Seq(Nat)) /\ t = s \o Reversed(kids) BY <2>1, <2>2
  <2>4. /\ t \in Seq(Seq(Nat))
        /\ \A i \in 1..Len(t) : (i \in 1..Len(s) /\ t[i] = s[i])
              \/ \E j \in 1..Len(kids) : t[i] = kids[j]
    BY <1>3, <2>3, StackGrows, SMTT(30)
  <2> QED BY <2>2, <2>4
<1> HIDE DEF t, u
<1>15. Core(exp, u) BY <1>13, <1>10, CoreFrame DEF Only
<1>16. /\ u.pc = y.pc /\ u.nodes = y.nodes /\ u.replays = y.replays /\ u.tree = y.tree
       /\ u.completed = y.completed /\ u.ordinal = y.ordinal /\ u.cache = y.cache
       /\ u.termination = y.termination /\ u.candidates = c.candidates
  BY <1>11, <1>13 DEF Only, Fields
<1>17. Room(exp, u, 0) BY <1>16 DEF Room
<1>18. ASSUME NEW i \in 1..Len(u.pending) PROVE Planned(exp, u.cache, u.pending[i])
  <2>1. CASE i \in 1..Len(y.pending) /\ t[i] = y.pending[i] BY <1>13, <1>16, <2>1
  <2>2. CASE \E j \in 1..Len(kids) : t[i] = kids[j]
    <3>1. PICK j \in 1..Len(kids) : t[i] = kids[j] BY <2>2
    <3>2. j \in Branch(exp, p) /\ t[i] = Append(p, j) BY <1>3, <3>1
    <3> QED BY <1>13, <1>16, <3>2 DEF Planned
  <2> QED BY <1>13, <1>14, <2>1, <2>2
<1>19. \A i \in Branch(exp, p) : Append(p, i) \in DOMAIN u.candidates
  <2> SUFFICES ASSUME NEW i \in Branch(exp, p) PROVE Append(p, i) \in DOMAIN u.candidates
    OBVIOUS
  <2>1. i \in 1..Len(kids) /\ kids[i] = Append(p, i) /\ i \in Nat BY <1>3
  <2>2. Append(p, i) # <<>> BY <1>2, <2>1, NoPrefix
  <2>3. kids[i] \in ps BY <2>1
  <2> QED BY <1>10, <1>16, <2>1, <2>2, <2>3
<1>20. Settled(exp, u, StateAt(exp, p)) BY <1>16, <1>19 DEF Settled
<1>21. u.termination = "exhausted" => \A q \in u.cache : Settled(exp, u, StateAt(exp, q))
  BY <1>11, <1>16, <1>20, SettledStays
<1> QED BY <1>1, <1>13, <1>14, <1>15, <1>16, <1>17, <1>18, <1>21, DepthFirstState

\* A visit of the depth-first search keeps the invariant.
LEMMA DepthFirstVisits ==
  ASSUME exp \in Experiments, NEW k \in Nat, NEW x, RunInv(exp, x), x.pc = "depth_first",
         x.pending # <<>>, Room(exp, x, 1)
  PROVE  LET p == x.pending[Len(x.pending)]
             y == ReplayPrefix([x EXCEPT !.pending = SubSeq(@, 1, Len(@) - 1)], p)
         IN  RunInv(exp, DepthFirstAfter(k, y, p))
<1> DEFINE n == Len(x.pending)
           t == SubSeq(x.pending, 1, n - 1)
           p == x.pending[n]
           z == [x EXCEPT !.pending = t]
           y == ReplayPrefix(z, p)
<1>1. Core(exp, x) /\ DOMAIN x = Fields /\ exp.mode = "depth_first" /\ x.tree = NoCandidates
      /\ x.completed = 0 /\ x.ordinal >= 1 /\ x.nodes \in Nat /\ x.replays \in Nat
  BY ModeOf DEF RunInv, Core, Typed, StagesOf, Visited
<1>2. /\ x.pending \in Seq(Seq(Nat))
      /\ \A i \in 1..n : Planned(exp, x.cache, x.pending[i])
      /\ <<>> \in x.cache \/ x.pending = <<(<<>>)>> BY DEF RunInv, Stacked
<1>3. n \in Nat \ {0} /\ t \in Seq(Seq(Nat)) /\ Len(t) = n - 1
      /\ (\A i \in 1..(n - 1) : t[i] = x.pending[i]) /\ n \in 1..n BY <1>2, StackTop
<1>4. Planned(exp, x.cache, p) BY <1>2, <1>3
<1>5. x.pending = <<(<<>>)>> => p = <<>> OBVIOUS
<1> HIDE DEF n, t
<1>6. Only(x, z, {"pending"}) /\ z.pending = t BY <1>1 DEF Only, Fields
<1>7. /\ z.pc = x.pc /\ z.tree = x.tree /\ z.completed = x.completed /\ z.ordinal = x.ordinal
      /\ z.cache = x.cache /\ z.candidates = x.candidates /\ z.termination = x.termination
      /\ z.nodes = x.nodes /\ z.replays = x.replays BY <1>6 DEF Only, Fields
<1>8. Core(exp, z) BY <1>6, <1>1, CoreFrame DEF Only
<1> HIDE DEF p, z
<1>9. /\ Core(exp, y)
      /\ \/ p = <<>> /\ Only(z, y, {"pc"}) /\ y.pc = "raised"
         \/ Replayed(exp, z, y, p) BY <1>4, <1>7, <1>8, ReplayKeeps
<1> HIDE DEF y
<1>10. x.termination = "exhausted" => \A q \in x.cache : Settled(exp, x, StateAt(exp, q))
  BY <1>1 DEF RunInv, CoverageKept
<1>11. y.nodes \in Nat /\ y.replays \in Nat BY <1>9 DEF Core, Typed
<1>12. CASE p = <<>> /\ Only(z, y, {"pc"}) /\ y.pc = "raised"
  <2>1. DepthFirstAfter(k, y, p) = y BY <1>12 DEF DepthFirstAfter
  <2>2. /\ y.tree = x.tree /\ y.completed = x.completed /\ y.ordinal = x.ordinal
        /\ y.cache = x.cache /\ y.candidates = x.candidates /\ y.termination = x.termination
        /\ y.nodes = x.nodes /\ y.replays = x.replays BY <1>7, <1>12 DEF Only, Fields
  <2>3. Room(exp, x, 0) BY DEF RunInv, Limited
  <2>4. Room(exp, y, 0) BY <2>2, <2>3 DEF Room
  <2>5. y.termination = "exhausted" => \A q \in y.cache : Settled(exp, y, StateAt(exp, q))
    BY <1>10, <2>2, SettledStays
  <2> QED
    BY <1>1, <1>9, <1>12, <2>1, <2>2, <2>4, <2>5, DepthFirstState DEF p, y, z, n, t
<1>13. CASE Replayed(exp, z, y, p)
  <2>1. /\ y.pc = "depth_first" /\ y.tree = NoCandidates /\ y.completed = 0 /\ y.ordinal >= 1
        /\ y.pending = t
    <3>1. /\ y.pc = z.pc /\ y.tree = z.tree /\ y.completed = z.completed /\ y.ordinal = z.ordinal
          /\ y.pending = z.pending
      BY <1>13 DEF Replayed, Only, Fields, ReplayFields, CommitFields, FailureFields
    <3> QED BY <1>1, <1>6, <1>7, <3>1
  <2>2. Room(exp, y, 0) BY <1>7, <1>13, <1>1, <1>11, RoomAfter DEF Replayed
  <2>3. x.cache \subseteq y.cache /\ y.cache \subseteq x.cache \cup {p}
        /\ DOMAIN x.candidates \subseteq DOMAIN y.candidates
    BY <1>7, <1>13 DEF Replayed
  <2>4. (y.obs.ok => p \in y.cache) /\ (~y.obs.ok => y.cache = x.cache /\ p # <<>>)
    BY <1>7, <1>13 DEF Replayed
  <2>5. <<>> \in y.cache BY <1>2, <1>5, <2>3, <2>4 DEF p
  <2>6. \A i \in 1..Len(t) : Planned(exp, y.cache, t[i])
    <3> SUFFICES ASSUME NEW i \in 1..Len(t) PROVE Planned(exp, y.cache, t[i]) OBVIOUS
    <3>1. i \in 1..n /\ t[i] = x.pending[i] BY <1>3
    <3> QED BY <1>2, <2>3, <3>1, PlannedStays
  <2>7. y.termination = "exhausted" =>
          x.termination = "exhausted" /\ \A q \in x.cache : Settled(exp, y, StateAt(exp, q))
    BY <1>7, <1>13, <1>10, <2>3, SettledStays DEF Replayed
  <2>8. y.obs.ok \in BOOLEAN /\ y.obs.dup \in BOOLEAN
    BY <1>9 DEF Core, Typed, Observation
  <2>9. CASE ~y.obs.ok
    <3>1. DepthFirstAfter(k, y, p) = y BY <2>1, <2>9 DEF DepthFirstAfter
    <3>2. RunInv(exp, y)
      BY <1>1, <1>3, <1>9, <2>1, <2>2, <2>4, <2>5, <2>6, <2>7, <2>9, DepthFirstState
    <3> QED BY <3>1, <3>2 DEF p, y, z, n, t
  <2>10. CASE y.obs.ok /\ y.termination = "goal_reached"
    <3> DEFINE u == [y EXCEPT !.pc = "done"]
    <3>1. DepthFirstAfter(k, y, p) = u BY <2>1, <2>10 DEF DepthFirstAfter
    <3>2. DOMAIN y = Fields BY <1>9 DEF Core, Typed
    <3>3. Only(y, u, {"pc"}) /\ u.pc = "done" BY <3>2 DEF Only, Fields
    <3> HIDE DEF u
    <3>4. /\ u.tree = y.tree /\ u.completed = y.completed /\ u.ordinal = y.ordinal
          /\ u.termination = y.termination /\ u.nodes = y.nodes /\ u.replays = y.replays
          /\ DOMAIN u = Fields BY <3>3 DEF Only, Fields
    <3>5. Core(exp, u) BY <1>9, <3>3, <3>4, CoreFrame DEF Only
    <3>6. Room(exp, u, 0) BY <2>2, <3>4 DEF Room
    <3>7. u.termination # "exhausted" BY <2>10, <3>4
    <3>8. RunInv(exp, u) BY <1>1, <2>1, <3>3, <3>4, <3>5, <3>6, <3>7, DepthFirstState
    <3> QED BY <3>1, <3>8 DEF p, y, z, n, t
  <2>11. CASE y.obs.ok /\ y.termination # "goal_reached" /\ y.obs.dup
    <3>1. DepthFirstAfter(k, y, p) = y BY <2>1, <2>11 DEF DepthFirstAfter
    <3>2. \E q \in x.cache : StateAt(exp, q) = StateAt(exp, p)
      BY <1>7, <1>13, <2>11 DEF Replayed
    <3>3. y.termination = "exhausted" => \A q \in y.cache : Settled(exp, y, StateAt(exp, q))
      BY <2>3, <2>7, <3>2
    <3>4. RunInv(exp, y)
      BY <1>1, <1>3, <1>9, <2>1, <2>2, <2>5, <2>6, <3>3, DepthFirstState
    <3> QED BY <3>1, <3>4 DEF p, y, z, n, t
  <2>12. CASE y.obs.ok /\ y.termination # "goal_reached" /\ ~y.obs.dup /\ AtDepthLimit(p)
    <3> DEFINE u == [y EXCEPT !.termination = "max_depth"]
    <3>1. DepthFirstAfter(k, y, p) = u BY <2>1, <2>12 DEF DepthFirstAfter
    <3>2. DOMAIN y = Fields BY <1>9 DEF Core, Typed
    <3>3. Only(y, u, {"termination"}) /\ u.termination = "max_depth"
      BY <3>2 DEF Only, Fields
    <3> HIDE DEF u
    <3>4. /\ u.tree = y.tree /\ u.completed = y.completed /\ u.ordinal = y.ordinal
          /\ u.pc = y.pc /\ u.nodes = y.nodes /\ u.replays = y.replays
          /\ u.pending = y.pending /\ u.cache = y.cache
          /\ DOMAIN u = Fields /\ u.hits = y.hits /\ u.dups = y.dups
          /\ u.reason = y.reason /\ u.routes = y.routes /\ u.failures = y.failures
          /\ u.obs = y.obs /\ u.candidates = y.candidates /\ u.seen = y.seen
          /\ u.depth = y.depth /\ u.prefetched = y.prefetched BY <3>3 DEF Only, Fields
    <3>5. Core(exp, u)
      <4>1. Typed(u) BY <1>9, <3>3, <3>4 DEF Core, Typed, Reasons
      <4>2. Cached(exp, u) /\ Counted(exp, u) /\ Recorded(exp, u)
        BY <1>9, <3>4 DEF Core, Cached, Counted, Recorded
      <4> QED BY <4>1, <4>2 DEF Core
    <3>6. Room(exp, u, 0) BY <2>2, <3>4 DEF Room
    <3>7. u.termination # "exhausted" BY <3>3
    <3>8. RunInv(exp, u)
      BY <1>1, <1>3, <2>1, <2>5, <2>6, <3>4, <3>5, <3>6, <3>7, DepthFirstState
    <3> QED BY <3>1, <3>8 DEF p, y, z, n, t
  <2>13. CASE y.obs.ok /\ y.termination # "goal_reached" /\ ~y.obs.dup /\ ~AtDepthLimit(p)
    <3>1. DepthFirstAfter(k, y, p) = DepthFirstExpand(k, y, p)
      BY <2>1, <2>13 DEF DepthFirstAfter
    <3>2. y.termination = "exhausted" =>
            \A q \in y.cache : Settled(exp, y, StateAt(exp, q)) \/ StateAt(exp, q) = StateAt(exp, p)
      BY <2>3, <2>7
    <3>3. RunInv(exp, DepthFirstExpand(k, y, p))
      BY <1>1, <1>3, <1>9, <2>1, <2>2, <2>4, <2>5, <2>6, <2>13, <3>2, DepthFirstExpands
    <3> QED BY <3>1, <3>3 DEF p, y, z, n, t
  <2> QED BY <2>8, <2>9, <2>10, <2>11, <2>12, <2>13
<1> QED BY <1>9, <1>12, <1>13

(* The orders that rank prefixes. *)
\* The lexicographic order of prefixes is a strict order, total on one length.
LEMMA LexOrder ==
  ASSUME NEW p \in Seq(Nat), NEW q \in Seq(Nat), NEW r \in Seq(Nat)
  PROVE  /\ ~LexBefore(p, p)
         /\ LexBefore(p, q) /\ LexBefore(q, r) => LexBefore(p, r)
         /\ Len(p) = Len(q) /\ p # q => LexBefore(p, q) \/ LexBefore(q, p)
<1> DEFINE Before(a, b, i) == a[i] < b[i] /\ \A j \in 1..(i - 1) : a[j] = b[j]
<1>1. \A i \in 1..Len(p) : p[i] \in Nat OBVIOUS
<1>2. \A i \in 1..Len(q) : q[i] \in Nat OBVIOUS
<1>3. \A i \in 1..Len(r) : r[i] \in Nat OBVIOUS
<1>4. Len(p) \in Nat /\ Len(q) \in Nat /\ Len(r) \in Nat OBVIOUS
<1>5. \A a, b \in Nat : Smaller(a, b) \in Nat /\ Smaller(a, b) <= a /\ Smaller(a, b) <= b
        /\ \A i \in Nat : i <= a /\ i <= b => i <= Smaller(a, b) BY DEF Smaller
<1>6. \A a, b : LexBefore(a, b) <=> \E i \in 1..Smaller(Len(a), Len(b)) : Before(a, b, i)
  BY DEF LexBefore
<1>7. ~LexBefore(p, p)
  <2> SUFFICES ASSUME NEW i \in 1..Smaller(Len(p), Len(p)), p[i] < p[i] PROVE FALSE
    BY <1>6
  <2>1. i \in 1..Len(p) BY <1>4 DEF Smaller
  <2> QED BY <1>1, <2>1
<1>8. ASSUME LexBefore(p, q), LexBefore(q, r) PROVE LexBefore(p, r)
  <2>1. PICK i \in 1..Smaller(Len(p), Len(q)) : Before(p, q, i) BY <1>6, <1>8
  <2>2. PICK j \in 1..Smaller(Len(q), Len(r)) : Before(q, r, j) BY <1>6, <1>8
  <2> DEFINE m == Smaller(i, j)
  <2>3. i \in 1..Len(p) /\ i \in 1..Len(q) /\ j \in 1..Len(q) /\ j \in 1..Len(r)
    <3>1. i \in 1..Len(p) /\ i \in 1..Len(q) BY <1>4 DEF Smaller
    <3>2. j \in 1..Len(q) /\ j \in 1..Len(r) BY <1>4 DEF Smaller
    <3> QED BY <3>1, <3>2
  <2>4. m \in Nat /\ m >= 1 /\ m <= i /\ m <= j /\ (m = i \/ m = j) BY <2>3 DEF Smaller
  <2> HIDE DEF m
  <2>5. m \in 1..Len(p) /\ m \in 1..Len(q) /\ m \in 1..Len(r) BY <1>4, <2>3, <2>4, SMTT(30)
  <2>6. m \in 1..Smaller(Len(p), Len(r)) BY <1>4, <1>5, <2>5
  <2>7. \A h \in 1..(m - 1) : h \in 1..(i - 1) /\ h \in 1..(j - 1) BY <2>3, <2>4
  <2>8. \A h \in 1..(m - 1) : p[h] = r[h] BY <2>1, <2>2, <2>7
  <2>9. p[m] \in Nat /\ q[m] \in Nat /\ r[m] \in Nat BY <1>1, <1>2, <1>3, <2>5
  <2>10. m = i \/ (m \in 1..(i - 1)) BY <2>3, <2>4
  <2>11. m = j \/ (m \in 1..(j - 1)) BY <2>3, <2>4
  <2>12. p[m] < q[m] \/ p[m] = q[m] BY <2>1, <2>10
  <2>13. q[m] < r[m] \/ q[m] = r[m] BY <2>2, <2>11
  <2>14. p[m] < q[m] \/ q[m] < r[m] BY <2>1, <2>2, <2>4
  <2>15. p[m] < r[m] BY <2>9, <2>12, <2>13, <2>14, SMTT(30)
  <2> QED BY <1>6, <2>6, <2>8, <2>15
<1>9. ASSUME Len(p) = Len(q), p # q PROVE LexBefore(p, q) \/ LexBefore(q, p)
  <2> DEFINE D == {i \in 1..Len(p) : p[i] # q[i]}
  <2>1. D \in SUBSET Nat /\ D # {}
    <3>1. p = [i \in 1..Len(p) |-> p[i]] /\ q = [i \in 1..Len(q) |-> q[i]] OBVIOUS
    <3>2. ASSUME \A i \in 1..Len(p) : p[i] = q[i] PROVE FALSE BY <1>9, <3>1, <3>2
    <3>3. PICK i \in 1..Len(p) : p[i] # q[i] BY <3>2
    <3>4. i \in D BY <3>3
    <3>5. D \subseteq 1..Len(p) /\ 1..Len(p) \subseteq Nat BY <1>4
    <3> HIDE DEF D
    <3> QED BY <3>4, <3>5
  <2>2. PICK i \in D : \A j \in D : i <= j
    <3> HIDE DEF D
    <3> QED BY <2>1, LeastOf
  <2>3. i \in 1..Len(p) /\ p[i] # q[i] /\ p[i] \in Nat /\ q[i] \in Nat
    BY <1>1, <1>2, <1>9
  <2>4. ASSUME NEW j \in 1..(i - 1) PROVE p[j] = q[j] BY <1>4, <2>3, <2>2
  <2>5. i \in 1..Smaller(Len(p), Len(q)) /\ i \in 1..Smaller(Len(q), Len(p))
    BY <1>4, <1>9, <2>3 DEF Smaller
  <2>6. p[i] < q[i] \/ q[i] < p[i] BY <2>3
  <2> QED BY <1>6, <2>4, <2>5, <2>6
<1> QED BY <1>7, <1>8, <1>9

\* The peak score is the score of a prefix on the way, and no less than the last one's.
LEMMA PeakExists ==
  ASSUME exp \in Experiments, NEW p, Good(exp, p)
  PROVE  PeakScore(p) \in Int /\ Score(p) \in Int /\ Score(p) <= PeakScore(p)
<1> DEFINE v(i) == Score(SubSeq(p, 1, i))
           seen == {v(i) : i \in 0..Len(p)}
           R == {ss \in Int \X Int : ss[2] < ss[1]}
<1>1. p \in Seq(Nat) /\ StateAt(exp, p) \in DOMAIN exp.next /\ Len(p) \in Nat
  BY GoodEnds
<1>2. \A i \in 0..Len(p) : v(i) \in Int BY GraphFacts, StateOfAt DEF Good, Score
<1>3. Score(p) \in Int BY <1>1, GraphFacts, StateOfAt DEF Score
<1>4. PeakScore(p) = CHOOSE m \in seen : \A s \in seen : s <= m BY DEF PeakScore
<1>11. Score(p) \in seen
  <2>1. SubSeq(p, 1, Len(p)) = p /\ Len(p) \in 0..Len(p) BY <1>1
  <2> QED BY <2>1
<1> HIDE DEF v
<1>5. IsFiniteSet(seen) /\ seen # {} /\ \A s \in seen : s \in Int
  <2>1. IsFiniteSet(0..Len(p)) BY <1>1, FS_Interval
  <2> DEFINE f == [i \in 0..Len(p) |-> v(i)]
  <2>2. f \in Surjection(0..Len(p), seen) BY DEF Surjection
  <2>3. 0 \in 0..Len(p) BY <1>1
  <2> HIDE DEF f
  <2>4. IsFiniteSet(seen)
    <3> HIDE DEF seen
    <3> QED BY <2>1, <2>2, FS_Surjection
  <2> QED BY <1>2, <2>3, <2>4
<1> HIDE DEF seen
<1>10. \A s, t \in Int : <<s, t>> \in R <=> t < s OBVIOUS
<1> HIDE DEF R
<1>6. /\ \A s \in seen : <<s, s>> \notin R
      /\ \A s, t, u \in seen : <<s, t>> \in R /\ <<t, u>> \in R => <<s, u>> \in R
  BY <1>5, <1>10
<1>7. PICK m \in seen : \A s \in seen : <<s, m>> \notin R BY <1>5, <1>6, FirstExists
<1>8. \A s \in seen : s <= m
  <2> SUFFICES ASSUME NEW s \in seen PROVE s <= m OBVIOUS
  <2>1. s \in Int /\ m \in Int BY <1>5
  <2>2. ~ (m < s) BY <1>7, <1>10, <2>1
  <2> QED BY <2>1, <2>2
<1>9. PeakScore(p) \in seen /\ \A s \in seen : s <= PeakScore(p)
  <2> HIDE <1>7
  <2> QED BY <1>4, <1>8
<1> QED BY <1>3, <1>5, <1>9, <1>11

\* The order of two triples of numbers, the first difference deciding.
Above(a, b) ==
  \/ a[1] > b[1]
  \/ a[1] = b[1] /\ a[2] > b[2]
  \/ a[1] = b[1] /\ a[2] = b[2] /\ a[3] > b[3]

\* The three parts of a prefix's worth are integers.
LEMMA WorthOrder ==
  ASSUME exp \in Experiments, NEW p, NEW q, Good(exp, p), Good(exp, q)
  PROVE  /\ Worth(p)[1] \in Int /\ Worth(p)[2] \in Int /\ Worth(p)[3] \in Int
         /\ Worth(p)[1] = IF Success(p) THEN 1 ELSE 0
         /\ FirstDifference(Ranked(p, q)) <=> Above(Worth(p), Worth(q))
         /\ Worth(p) = Worth(q) <=> /\ Worth(p)[1] = Worth(q)[1]
                                    /\ Worth(p)[2] = Worth(q)[2]
                                    /\ Worth(p)[3] = Worth(q)[3]
<1> DEFINE a == Worth(p)
           b == Worth(q)
           s(r) == IF Success(r) THEN 1 ELSE 0
<1>1. PeakScore(p) \in Int /\ Score(p) \in Int BY PeakExists
<1>2. a = <<s(p), PeakScore(p), Score(p)>> /\ b = <<s(q), PeakScore(q), Score(q)>>
  BY DEF Worth
<1>3. s(p) \in Int OBVIOUS
<1> DEFINE pairs == Ranked(p, q)
<1>4. pairs = [i \in 1..3 |-> <<a[i], b[i]>>] BY DEF Ranked
<1> HIDE DEF a, b, s
<1>5. Len(pairs) = 3 /\ pairs[1] = <<a[1], b[1]>> /\ pairs[2] = <<a[2], b[2]>>
      /\ pairs[3] = <<a[3], b[3]>> BY <1>4
<1> HIDE DEF pairs
<1>6. pairs[1][1] = a[1] /\ pairs[1][2] = b[1] /\ pairs[2][1] = a[2] /\ pairs[2][2] = b[2]
      /\ pairs[3][1] = a[3] /\ pairs[3][2] = b[3] BY <1>5
<1>7. FirstDifference(pairs) <=> Above(a, b)
  <2>1. FirstDifference(pairs) <=>
          \E i \in 1..3 : pairs[i][1] > pairs[i][2] /\ \A j \in 1..(i - 1) : pairs[j][1] = pairs[j][2]
    BY <1>5 DEF FirstDifference
  <2>2. \A i \in 1..3 : i = 1 \/ i = 2 \/ i = 3 OBVIOUS
  <2>3. 1..(1 - 1) = {} /\ 1..(2 - 1) = {1} /\ 1..(3 - 1) = {1, 2} /\ 1 \in 1..3 /\ 2 \in 1..3 /\ 3 \in 1..3
    OBVIOUS
  <2>4. FirstDifference(pairs) => Above(a, b)
    <3> SUFFICES ASSUME NEW i \in 1..3, pairs[i][1] > pairs[i][2],
                        \A j \in 1..(i - 1) : pairs[j][1] = pairs[j][2]
                 PROVE  Above(a, b) BY <2>1
    <3>1. CASE i = 1 BY <1>6, <3>1 DEF Above
    <3>2. CASE i = 2 BY <1>6, <2>3, <3>2 DEF Above
    <3>3. CASE i = 3 BY <1>6, <2>3, <3>3 DEF Above
    <3> QED BY <2>2, <3>1, <3>2, <3>3
  <2>5. ASSUME Above(a, b) PROVE FirstDifference(pairs)
    <3>1. CASE a[1] > b[1] BY <1>6, <2>3, <2>1, <3>1
    <3>2. CASE a[1] = b[1] /\ a[2] > b[2] BY <1>6, <2>3, <2>1, <3>2
    <3>3. CASE a[1] = b[1] /\ a[2] = b[2] /\ a[3] > b[3] BY <1>6, <2>3, <2>1, <3>3
    <3> QED BY <2>5, <3>1, <3>2, <3>3 DEF Above
  <2> QED BY <2>4, <2>5
<1>8. a[1] = s(p) /\ a[2] = PeakScore(p) /\ a[3] = Score(p)
      /\ b[1] = s(q) /\ b[2] = PeakScore(q) /\ b[3] = Score(q) BY <1>2
<1>9. a = b <=> a[1] = b[1] /\ a[2] = b[2] /\ a[3] = b[3] BY <1>2, <1>8
<1> QED BY <1>1, <1>3, <1>7, <1>8, <1>9 DEF a, b, pairs, s

\* Above is a strict order of triples, and two triples it does not rank are equal.
LEMMA AboveOrder ==
  ASSUME NEW a, NEW b, NEW c, a[1] \in Int, a[2] \in Int, a[3] \in Int,
         b[1] \in Int, b[2] \in Int, b[3] \in Int, c[1] \in Int, c[2] \in Int, c[3] \in Int
  PROVE  /\ ~Above(a, a)
         /\ Above(a, b) /\ Above(b, c) => Above(a, c)
         /\ \/ Above(a, b) \/ Above(b, a)
            \/ a[1] = b[1] /\ a[2] = b[2] /\ a[3] = b[3]
BY DEF Above

\* The order of a beam is strict, and total on the prefixes of one layer.
LEMMA BeamOrder ==
  ASSUME exp \in Experiments, NEW p, NEW q, NEW r, Good(exp, p), Good(exp, q), Good(exp, r)
  PROVE  /\ ~BeamBefore(p, p)
         /\ BeamBefore(p, q) /\ BeamBefore(q, r) => BeamBefore(p, r)
         /\ Len(p) = Len(q) /\ p # q => BeamBefore(p, q) \/ BeamBefore(q, p)
<1>1. p \in Seq(Nat) /\ q \in Seq(Nat) /\ r \in Seq(Nat) BY GoodEnds
<1> DEFINE a == Worth(p)
           b == Worth(q)
           c == Worth(r)
<1>2. a[1] \in Int /\ a[2] \in Int /\ a[3] \in Int /\ b[1] \in Int /\ b[2] \in Int /\ b[3] \in Int
      /\ c[1] \in Int /\ c[2] \in Int /\ c[3] \in Int BY WorthOrder
<1>3. /\ FirstDifference(Ranked(p, p)) <=> Above(a, a)
      /\ FirstDifference(Ranked(p, q)) <=> Above(a, b)
      /\ FirstDifference(Ranked(q, p)) <=> Above(b, a)
      /\ FirstDifference(Ranked(q, r)) <=> Above(b, c)
      /\ FirstDifference(Ranked(p, r)) <=> Above(a, c) BY WorthOrder
<1>4. a[1] = b[1] /\ a[2] = b[2] /\ a[3] = b[3] => a = b BY WorthOrder
<1>5. ~LexBefore(p, p) /\ (LexBefore(p, q) /\ LexBefore(q, r) => LexBefore(p, r))
      /\ (Len(p) = Len(q) /\ p # q => LexBefore(p, q) \/ LexBefore(q, p))
  BY <1>1, LexOrder
<1> HIDE DEF a, b, c
<1>6. /\ ~Above(a, a) /\ (Above(a, b) /\ Above(b, c) => Above(a, c))
      /\ Above(a, b) \/ Above(b, a) \/ a = b BY <1>2, <1>4, AboveOrder
<1>7. /\ BeamBefore(p, p) <=> Above(a, a) \/ LexBefore(p, p)
      /\ BeamBefore(p, q) <=> Above(a, b) \/ (a = b /\ LexBefore(p, q))
      /\ BeamBefore(q, p) <=> Above(b, a) \/ (a = b /\ LexBefore(q, p))
      /\ BeamBefore(q, r) <=> Above(b, c) \/ (b = c /\ LexBefore(q, r))
      /\ BeamBefore(p, r) <=> Above(a, c) \/ (a = c /\ LexBefore(p, r))
  BY <1>3 DEF BeamBefore, a, b, c
<1>8. BeamBefore(p, q) /\ BeamBefore(q, r) => BeamBefore(p, r) BY <1>5, <1>6, <1>7
<1> QED BY <1>5, <1>6, <1>7, <1>8

\* The order of the routes is strict.
LEMMA RouteOrder ==
  ASSUME exp \in Experiments, NEW p, NEW q, NEW r, Good(exp, p), Good(exp, q), Good(exp, r)
  PROVE  /\ ~RouteBefore(p, p)
         /\ RouteBefore(p, q) /\ RouteBefore(q, r) => RouteBefore(p, r)
<1>1. p \in Seq(Nat) /\ q \in Seq(Nat) /\ r \in Seq(Nat) BY GoodEnds
<1> DEFINE a == Worth(p)
           b == Worth(q)
           c == Worth(r)
           Shorter(u, v) == Len(u) < Len(v) \/ (Len(u) = Len(v) /\ LexBefore(u, v))
<1>2. a[1] \in Int /\ a[2] \in Int /\ a[3] \in Int /\ b[1] \in Int /\ b[2] \in Int /\ b[3] \in Int
      /\ c[1] \in Int /\ c[2] \in Int /\ c[3] \in Int BY WorthOrder
<1>3. /\ FirstDifference(Ranked(p, p)) <=> Above(a, a)
      /\ FirstDifference(Ranked(p, q)) <=> Above(a, b)
      /\ FirstDifference(Ranked(q, r)) <=> Above(b, c)
      /\ FirstDifference(Ranked(p, r)) <=> Above(a, c) BY WorthOrder
<1>5. ~LexBefore(p, p) /\ (LexBefore(p, q) /\ LexBefore(q, r) => LexBefore(p, r))
  BY <1>1, LexOrder
<1>6. Len(p) \in Nat /\ Len(q) \in Nat /\ Len(r) \in Nat BY <1>1
<1>9. ~Shorter(p, p) /\ (Shorter(p, q) /\ Shorter(q, r) => Shorter(p, r)) BY <1>5, <1>6
<1>7. /\ RouteBefore(p, p) <=> Above(a, a) \/ Shorter(p, p)
      /\ RouteBefore(p, q) <=> Above(a, b) \/ (a = b /\ Shorter(p, q))
      /\ RouteBefore(q, r) <=> Above(b, c) \/ (b = c /\ Shorter(q, r))
      /\ RouteBefore(p, r) <=> Above(a, c) \/ (a = c /\ Shorter(p, r))
  BY <1>3 DEF RouteBefore
<1> HIDE DEF a, b, c, Shorter
<1>10. ~Above(a, a) /\ (Above(a, b) /\ Above(b, c) => Above(a, c)) BY <1>2, AboveOrder
<1>8. RouteBefore(p, q) /\ RouteBefore(q, r) => RouteBefore(p, r) BY <1>7, <1>9, <1>10
<1> QED BY <1>7, <1>8, <1>9, <1>10

\* The best of a layer are members of it, and there is one unless it is empty.
LEMMA BestBeam ==
  ASSUME exp \in Experiments, NEW S, IsFiniteSet(S), \A p \in S : Good(exp, p),
         NEW d, \A p \in S : Len(p) = d, NEW w \in Nat \ {0}
  PROVE  LET b == Best(S, w, BeamBefore) IN
         /\ b \in Seq(Seq(Nat)) /\ Len(b) \in Nat
         /\ \A i \in 1..Len(b) : b[i] \in S
         /\ S # {} => Len(b) >= 1
         /\ S = {} => b = <<>>
<1> DEFINE rank(p) == Cardinality({q \in S : BeamBefore(q, p)})
           n == Smaller(w, Cardinality(S))
           R == {pq \in S \X S : BeamBefore(pq[1], pq[2])}
           b == Best(S, w, BeamBefore)
<1>1. b = [i \in 1..n |-> CHOOSE p \in S : rank(p) = i - 1] BY DEF Best
<1> HIDE DEF b
<1>2. Cardinality(S) \in Nat /\ (S = {} <=> Cardinality(S) = 0)
  BY FS_CardinalityType, FS_EmptySet
<1>3. n \in Nat /\ n <= Cardinality(S) /\ (S # {} => n >= 1) /\ (S = {} => n = 0)
  BY <1>2 DEF Smaller
<1>4. \A p, q \in S : <<p, q>> \in R <=> BeamBefore(p, q) OBVIOUS
<1> HIDE DEF R
<1>5. \A p, q, r \in S : /\ <<p, p>> \notin R
                         /\ <<p, q>> \in R /\ <<q, r>> \in R => <<p, r>> \in R
                         /\ p # q => <<p, q>> \in R \/ <<q, p>> \in R
  BY <1>4, BeamOrder
<1>6. \A m \in S : BeforeIn(S, R, m) = {q \in S : BeamBefore(q, m)}
  BY <1>4 DEF BeforeIn
<1>7. ASSUME NEW i \in 1..n PROVE \E p \in S : rank(p) = i - 1
  <2>1. i - 1 \in 0..(Cardinality(S) - 1) BY <1>2, <1>3
  <2>2. PICK m \in S : Cardinality(BeforeIn(S, R, m)) = i - 1
    <3>1. /\ \A p \in S : <<p, p>> \notin R
          /\ \A p, q, r \in S : <<p, q>> \in R /\ <<q, r>> \in R => <<p, r>> \in R
          /\ \A p, q \in S : p # q => <<p, q>> \in R \/ <<q, p>> \in R BY <1>5
    <3> HIDE <1>5
    <3>2. PICK c : c = i - 1 OBVIOUS
    <3>3. c \in 0..(Cardinality(S) - 1) BY <2>1, <3>2
    <3>4. \E m \in S : Cardinality(BeforeIn(S, R, m)) = c BY <3>1, <3>3, EveryRank
    <3> QED BY <3>2, <3>4
  <2> QED BY <1>6, <2>2
<1> HIDE DEF rank, n
<1>8. \A i \in 1..n : b[i] \in S BY <1>1, <1>7
<1>9. \A i \in 1..n : b[i] \in Seq(Nat) BY <1>8, GoodEnds
<1>10. b \in Seq(Seq(Nat)) /\ Len(b) = n
  <2>1. b = [i \in 1..n |-> b[i]] BY <1>1
  <2> QED BY <1>3, <1>9, <2>1, Tabulated
<1>11. Len(b) = 0 => b = <<>> BY <1>10
<1> QED BY <1>3, <1>8, <1>10, <1>11 DEF b

\* No route comes before the best one.
LEMMA BestRouteFirst ==
  ASSUME exp \in Experiments, NEW S, IsFiniteSet(S), S # {}, \A p \in S : Good(exp, p)
  PROVE  LET m == Best(S, 1, RouteBefore)[1] IN m \in S /\ \A q \in S : ~RouteBefore(q, m)
<1> DEFINE rank(p) == Cardinality({q \in S : RouteBefore(q, p)})
           n == Smaller(1, Cardinality(S))
           R == {pq \in S \X S : RouteBefore(pq[1], pq[2])}
           b == Best(S, 1, RouteBefore)
<1>1. b = [i \in 1..n |-> CHOOSE p \in S : rank(p) = i - 1] BY DEF Best
<1> HIDE DEF b
<1>2. Cardinality(S) \in Nat /\ Cardinality(S) # 0 BY FS_CardinalityType, FS_EmptySet
<1>3. n = 1 BY <1>2 DEF Smaller
<1>4. \A p, q \in S : <<p, q>> \in R <=> RouteBefore(p, q) OBVIOUS
<1> HIDE DEF R, n
<1>5. b[1] = CHOOSE p \in S : rank(p) = 0 BY <1>1, <1>3
<1>6. \A p, q, r \in S : /\ <<p, p>> \notin R
                         /\ <<p, q>> \in R /\ <<q, r>> \in R => <<p, r>> \in R
  BY <1>4, RouteOrder
<1>7. PICK m \in S : \A q \in S : <<q, m>> \notin R BY <1>6, FirstExists
<1>8. \A p \in S : rank(p) = 0 <=> \A q \in S : ~RouteBefore(q, p)
  <2> SUFFICES ASSUME NEW p \in S PROVE rank(p) = 0 <=> \A q \in S : ~RouteBefore(q, p)
    OBVIOUS
  <2> DEFINE T == {q \in S : RouteBefore(q, p)}
  <2>1. IsFiniteSet(T) BY FS_Subset
  <2>2. Cardinality(T) = 0 <=> T = {}
    <3> HIDE DEF T
    <3> QED BY <2>1, FS_EmptySet
  <2> QED BY <2>2
<1>9. rank(m) = 0 BY <1>4, <1>7, <1>8
<1> HIDE DEF rank
<1>10. b[1] \in S /\ rank(b[1]) = 0 BY <1>5, <1>9
<1> QED BY <1>8, <1>10 DEF b

(* Flattened layers. *)
\* The recursive function behind Flatten.
IsFlat(ss, n, f) == f = [i \in 0..n |-> IF i = 0 THEN <<>> ELSE f[i - 1] \o ss[i]]
Flat(ss, n) == CHOOSE f : IsFlat(ss, n, f)

\* The recursive function behind Flatten exists for every length.
LEMMA FlatExists == ASSUME NEW ss, NEW n \in Nat PROVE \E f : IsFlat(ss, n, f)
<1> DEFINE ok(m) == \E f : IsFlat(ss, m, f)
           S == {m \in 0..n : ok(m)}
<1>1. ok(0)
  <2> DEFINE f == [i \in 0..0 |-> <<>>]
  <2>1. f = [i \in 0..0 |-> IF i = 0 THEN <<>> ELSE f[i - 1] \o ss[i]] OBVIOUS
  <2> QED BY <2>1 DEF IsFlat
<1>2. ASSUME NEW m \in 0..(n - 1), ok(m) PROVE ok(m + 1)
  <2>1. PICK f : f = [i \in 0..m |-> IF i = 0 THEN <<>> ELSE f[i - 1] \o ss[i]]
    BY <1>2 DEF IsFlat
  <2> DEFINE last == f[m] \o ss[m + 1]
             g == [i \in 0..(m + 1) |-> IF i = m + 1 THEN last ELSE f[i]]
  <2>2. \A i \in 0..m : f[i] = IF i = 0 THEN <<>> ELSE f[i - 1] \o ss[i] BY <2>1
  <2>3. ASSUME NEW i \in 0..(m + 1)
        PROVE  g[i] = IF i = 0 THEN <<>> ELSE g[i - 1] \o ss[i]
    <3>1. CASE i = m + 1
      <4>1. i - 1 = m /\ m # m + 1 /\ i # 0 /\ m \in 0..(m + 1) BY <3>1
      <4>2. g[i - 1] = f[m] BY <4>1
      <4> QED BY <3>1, <4>1, <4>2
    <3>2. CASE i # m + 1
      <4>1. i \in 0..m BY <3>2
      <4>2. i # 0 => i - 1 \in 0..m /\ i - 1 \in 0..(m + 1) /\ i - 1 # m + 1 BY <4>1
      <4>3. i # 0 => g[i - 1] = f[i - 1] BY <4>2
      <4>4. g[i] = f[i] BY <3>2
      <4> QED BY <2>2, <4>1, <4>3, <4>4
    <3> QED BY <3>1, <3>2
  <2>4. g = [i \in 0..(m + 1) |-> g[i]] OBVIOUS
  <2> HIDE DEF g
  <2>5. g = [i \in 0..(m + 1) |-> IF i = 0 THEN <<>> ELSE g[i - 1] \o ss[i]]
    BY <2>3, <2>4
  <2> QED BY <2>5 DEF IsFlat
<1> HIDE DEF ok
<1>3. \A m \in 0..n : m \in S
  <2>1. 0 \in S BY <1>1
  <2>2. \A m \in 0..(n - 1) : m \in S => m + 1 \in S BY <1>2
  <2> HIDE DEF S
  <2> QED BY <2>1, <2>2, Climb
<1>4. ok(n) BY <1>3
<1> QED BY <1>4 DEF ok

\* r holds the elements of the parts ss and no others.
FlatOf(A, ss, r) ==
  /\ r \in Seq(A) /\ Len(r) \in Nat
  /\ \A h \in 1..Len(r) : \E i \in 1..Len(ss) : \E j \in 1..Len(ss[i]) : r[h] = ss[i][j]
  /\ \A i \in 1..Len(ss) : \A j \in 1..Len(ss[i]) : \E h \in 1..Len(r) : r[h] = ss[i][j]

\* A flattened sequence of sequences holds the elements of its parts and no others.
LEMMA FlattenElements ==
  ASSUME NEW A, NEW ss, Len(ss) \in Nat, \A i \in 1..Len(ss) : ss[i] \in Seq(A)
  PROVE  FlatOf(A, ss, Flatten(ss))
<1> DEFINE n == Len(ss)
           f == Flat(ss, n)
           Holds(m, r) ==
             /\ r \in Seq(A)
             /\ \A h \in 1..Len(r) : \E i \in 1..m : \E j \in 1..Len(ss[i]) : r[h] = ss[i][j]
             /\ \A i \in 1..m : \A j \in 1..Len(ss[i]) : \E h \in 1..Len(r) : r[h] = ss[i][j]
           S == {m \in 0..n : Holds(m, f[m])}
<1>1. Flatten(ss) = f[n] BY Zenon DEF Flatten, Flat, IsFlat
<1>2. PICK g : g = f OBVIOUS
<1>3. IsFlat(ss, n, g) BY <1>2, FlatExists, Zenon DEF Flat
<1>4. g[0] = <<>> /\ \A m \in 0..(n - 1) : g[m + 1] = g[m] \o ss[m + 1]
  BY <1>3 DEF IsFlat
<1> HIDE DEF n, f
<1>5. n \in Nat /\ \A i \in 1..n : ss[i] \in Seq(A) BY DEF n
<1>6. Holds(0, <<>>) OBVIOUS
<1>7. ASSUME NEW m \in 0..(n - 1), Holds(m, g[m]) PROVE Holds(m + 1, g[m + 1])
  <2> DEFINE a == g[m]
             b == ss[m + 1]
             c == g[m + 1]
  <2>1. m + 1 \in 1..n /\ \A i \in 1..(m + 1) : i = m + 1 \/ i \in 1..m BY <1>5
  <2>2. a \in Seq(A) /\ b \in Seq(A) /\ c = a \o b BY <1>4, <1>5, <1>7, <2>1
  <2>3. /\ \A h \in 1..Len(a) : \E i \in 1..m : \E j \in 1..Len(ss[i]) : a[h] = ss[i][j]
        /\ \A i \in 1..m : \A j \in 1..Len(ss[i]) : \E h \in 1..Len(a) : a[h] = ss[i][j]
    BY <1>7
  <2> HIDE DEF a, c
  <2>4. /\ c \in Seq(A) /\ Len(c) = Len(a) + Len(b)
        /\ Len(a) \in Nat /\ Len(b) \in Nat
        /\ \A h \in 1..Len(a) : c[h] = a[h]
        /\ \A h \in (Len(a) + 1)..(Len(a) + Len(b)) : c[h] = b[h - Len(a)]
    <3> HIDE DEF b
    <3> QED BY <2>2, Concatenated
  <2>5. ASSUME NEW h \in 1..Len(c)
        PROVE  \E i \in 1..(m + 1) : \E j \in 1..Len(ss[i]) : c[h] = ss[i][j]
    <3>1. CASE h \in 1..Len(a)
      <4>1. c[h] = a[h] BY <2>4, <3>1
      <4>2. PICK i \in 1..m : \E j \in 1..Len(ss[i]) : a[h] = ss[i][j] BY <2>3, <3>1
      <4>3. i \in 1..(m + 1) OBVIOUS
      <4> QED BY <4>1, <4>2, <4>3
    <3>2. CASE h \notin 1..Len(a) BY <2>4, <3>2
    <3> QED BY <3>1, <3>2
  <2>6. ASSUME NEW i \in 1..(m + 1), NEW j \in 1..Len(ss[i])
        PROVE  \E h \in 1..Len(c) : c[h] = ss[i][j]
    <3>1. CASE i = m + 1
      <4>0. j \in 1..Len(b) /\ ss[i][j] = b[j] BY <3>1
      <4> HIDE DEF b
      <4>1. j + Len(a) \in (Len(a) + 1)..(Len(a) + Len(b)) /\ (j + Len(a)) - Len(a) = j
            /\ j + Len(a) \in 1..Len(c) BY <2>4, <4>0
      <4>2. c[j + Len(a)] = b[j] BY <2>4, <4>1
      <4> QED BY <4>0, <4>1, <4>2
    <3>2. CASE i \in 1..m BY <2>3, <2>4, <3>2
    <3> QED BY <2>1, <3>1, <3>2
  <2> QED BY <2>4, <2>5, <2>6 DEF c
<1>8. \A m \in 0..n : Holds(m, g[m])
  <2> DEFINE T == {m \in 0..n : Holds(m, g[m])}
  <2>1. 0 \in T
    <3>1. 0 \in 0..n BY <1>5
    <3> HIDE DEF Holds
    <3> QED BY <1>4, <1>6, <3>1
  <2>2. \A m \in 0..(n - 1) : m \in T => m + 1 \in T
    <3> SUFFICES ASSUME NEW m \in 0..(n - 1), Holds(m, g[m]) PROVE m + 1 \in T OBVIOUS
    <3>1. m + 1 \in 0..n BY <1>5
    <3>2. Holds(m + 1, g[m + 1]) BY <1>7
    <3> HIDE DEF Holds
    <3> QED BY <3>1, <3>2
  <2>3. \A m \in 0..n : m \in T
    <3> HIDE DEF T
    <3> QED BY <1>5, <2>1, <2>2, Climb
  <2> HIDE DEF Holds
  <2> QED BY <2>3
<1>9. Holds(n, g[n])
  <2>1. n \in 0..n BY <1>5
  <2> HIDE DEF Holds
  <2> QED BY <1>8, <2>1
<1>10. Flatten(ss) = g[n] BY <1>1, <1>2
<1> QED BY <1>9, <1>10 DEF n, FlatOf

(* _run_beam *)
\* The fields of a layer say nothing about what has been observed.
LEMMA ReasonFrame ==
  ASSUME NEW e, NEW x, NEW y, Core(e, x), y.reason \in HardReasons \cup {"none"},
         Only(x, y, {"pc", "plan", "observed", "reason"})
  PROVE  Core(e, y)
<1>1. /\ y.nodes = x.nodes /\ y.replays = x.replays /\ y.hits = x.hits /\ y.dups = x.dups
      /\ y.ordinal = x.ordinal /\ y.completed = x.completed
      /\ y.termination = x.termination /\ y.routes = x.routes /\ y.failures = x.failures
      /\ y.obs = x.obs /\ y.candidates = x.candidates /\ y.cache = x.cache /\ y.seen = x.seen
      /\ y.depth = x.depth /\ y.prefetched = x.prefetched /\ DOMAIN y = Fields
  BY DEF Only, Fields
<1>2. Typed(y) BY <1>1 DEF Core, Typed
<1>3. Cached(e, y) /\ Counted(e, y) /\ Recorded(e, y)
  BY <1>1 DEF Core, Cached, Counted, Recorded
<1> QED BY <1>2, <1>3 DEF Core

\* The fields of a beam run between two steps.
LEMMA BeamFields ==
  ASSUME NEW e \in Experiments, NEW x, RunInv(e, x), x.pc \in {"beam", "beam_layer", "beam_commit"}
  PROVE  /\ Core(e, x) /\ DOMAIN x = Fields /\ e.mode = "beam" /\ x.tree = NoCandidates
         /\ x.completed = 0 /\ x.ordinal >= 1 /\ x.nodes \in Nat /\ x.replays \in Nat
         /\ Room(e, x, 0)
<1>1. Core(e, x) /\ DOMAIN x = Fields /\ e.mode = "beam"
      /\ x.completed \in Nat /\ x.ordinal \in Nat /\ x.nodes \in Nat /\ x.replays \in Nat
  BY ModeOf DEF RunInv, Core, Typed
<1>2. x.tree = NoCandidates BY <1>1 DEF RunInv, StagesOf
<1>3. x.completed = 0 /\ x.completed < x.ordinal BY <1>2 DEF RunInv, Visited
<1> QED BY <1>1, <1>2, <1>3 DEF RunInv, Limited

\* A run whose root fails ends with nothing observed.
LEMMA RaisedRoot ==
  ASSUME NEW e \in Experiments, NEW x, NEW y, RunInv(e, x), x.pc \in {"beam", "mcts"},
         Only(x, y, {"pc"}), y.pc = "raised"
  PROVE  RunInv(e, y)
<1>1. y.termination = x.termination /\ DOMAIN y = Fields BY DEF Only, Fields
<1>2. x.termination \in Reasons BY DEF RunInv, Core, Typed
<1>3. Only(x, y, {"pc", "termination", "updates"}) BY DEF Only
<1> QED BY <1>1, <1>2, <1>3, StopKeeps

\* The root of a beam is replayed and becomes its first layer, or the run is raised.
LEMMA BeamRoots ==
  ASSUME exp \in Experiments, NEW x, RunInv(exp, x), x.pc = "beam", Room(exp, x, 1)
  PROVE  LET y == ReplayPrefix(x, <<>>)
             z == [y EXCEPT !.pc = "beam_layer", !.current = <<(<<>>)>>]
         IN  RunInv(exp, IF y.pc = "raised" THEN y ELSE [z EXCEPT !.pending = <<>>])
<1> DEFINE y == ReplayPrefix(x, <<>>)
           z == [y EXCEPT !.pc = "beam_layer", !.current = <<(<<>>)>>]
           u == [z EXCEPT !.pending = <<>>]
<1>1. /\ Core(exp, x) /\ DOMAIN x = Fields /\ exp.mode = "beam" /\ x.tree = NoCandidates
      /\ x.completed = 0 /\ x.ordinal >= 1 /\ x.nodes \in Nat /\ x.replays \in Nat
  BY BeamFields
<1>2. x.cache = {} BY DEF RunInv, StagesOf
<1>3. Planned(exp, x.cache, <<>>) BY DEF Planned
<1>4. /\ Core(exp, y)
      /\ \/ Only(x, y, {"pc"}) /\ y.pc = "raised"
         \/ Replayed(exp, x, y, <<>>) BY <1>1, <1>3, ReplayKeeps
<1> HIDE DEF y
<1>5. DOMAIN y = Fields /\ y.obs.ok \in BOOLEAN /\ y.nodes \in Nat /\ y.replays \in Nat
  BY <1>4 DEF Core, Typed, Observation
<1>6. CASE Only(x, y, {"pc"}) /\ y.pc = "raised" BY <1>6, RaisedRoot DEF y
<1>7. CASE Replayed(exp, x, y, <<>>)
  <2>1. y.pc = x.pc /\ y.tree = x.tree /\ y.completed = x.completed /\ y.ordinal = x.ordinal
    BY <1>7 DEF Replayed, Only, Fields, ReplayFields, CommitFields, FailureFields
  <2>2. y.obs.ok /\ y.cache = {<<>>} BY <1>2, <1>5, <1>7 DEF Replayed
  <2>3. Room(exp, y, 0) BY <1>7, <1>1, <1>5, RoomAfter DEF Replayed
  <2>4. Only(y, u, {"pc", "current", "pending"}) /\ u.pc = "beam_layer" /\ u.current = <<(<<>>)>>
        /\ u.pending = <<>>
    <3>1. Only(y, z, {"pc", "current"}) /\ z.pc = "beam_layer" /\ z.current = <<(<<>>)>>
          /\ DOMAIN z = Fields BY <1>5 DEF Only, Fields
    <3> HIDE DEF z
    <3> QED BY <3>1 DEF Only, Fields
  <2> HIDE DEF u
  <2>5. Core(exp, u) BY <1>4, <2>4, CoreFrame DEF Only
  <2>6. u.cache = y.cache /\ u.tree = y.tree /\ u.completed = y.completed /\ u.ordinal = y.ordinal
        /\ u.nodes = y.nodes /\ u.replays = y.replays BY <2>4 DEF Only, Fields
  <2>7. Limited(exp, u) BY <2>3, <2>6, <2>4 DEF Room, Limited
  <2>8. StagesOf(exp, u) BY <1>1, <2>1, <2>4, <2>6 DEF StagesOf, Stages
  <2>9. Stacked(exp, u) BY <2>4 DEF Stacked
  <2>10. u.current \in Seq(Seq(Nat)) /\ u.current # <<>> /\ Len(u.current) = 1
         /\ u.current[1] = <<>>
    <3> DEFINE c == <<(<<>>)>>
    <3>1. <<>> \in Seq(Nat) OBVIOUS
    <3>2. c \in Seq(Seq(Nat)) /\ Len(c) = 1 /\ c[1] = <<>> /\ c # <<>> BY <3>1
    <3> QED BY <2>4, <3>2
  <2>11. Layered(exp, u) BY <2>10, <2>2, <2>6, <2>4 DEF Layered
  <2>12. CoverageKept(exp, u) BY <1>1, <2>2, <2>6, <2>10, <2>4 DEF CoverageKept
  <2>13. RunInv(exp, u)
    BY <1>1, <2>1, <2>5, <2>6, <2>7, <2>8, <2>9, <2>11, <2>12, Treeless
  <2>14. y.pc # "raised" BY <2>1
  <2> QED BY <2>13, <2>14 DEF u, z, y
<1> QED BY <1>4, <1>6, <1>7

\* The children of a layer are those of its prefixes that are not at the depth limit.
LEMMA LayerOf ==
  ASSUME exp \in Experiments, NEW x, x.current \in Seq(Seq(Nat)),
         \A i \in 1..Len(x.current) : Good(exp, x.current[i])
  PROVE  LET all == LayerChildren(x) IN
         /\ all \in Seq(Seq(Nat)) /\ Len(all) \in Nat
         /\ \A h \in 1..Len(all) : \E i \in 1..Len(x.current) :
              /\ ~DepthLimit(exp, x.current[i])
              /\ \E b \in Branch(exp, x.current[i]) : all[h] = Append(x.current[i], b)
         /\ \A i \in 1..Len(x.current) : ~DepthLimit(exp, x.current[i]) =>
              \A b \in Branch(exp, x.current[i]) :
                \E h \in 1..Len(all) : all[h] = Append(x.current[i], b)
<1> DEFINE n == Len(x.current)
           part(i) == IF AtDepthLimit(x.current[i]) THEN <<>> ELSE Children(x.current[i])
           ss == [i \in 1..n |-> part(i)]
           all == LayerChildren(x)
<1>1. n \in Nat OBVIOUS
<1>2. all = Flatten(ss) BY DEF LayerChildren
<1>3. \A p : AtDepthLimit(p) <=> DepthLimit(exp, p)
  BY DEF AtDepthLimit, AtLimit, DepthLimit
<1>4. ASSUME NEW i \in 1..n
      PROVE  /\ part(i) \in Seq(Seq(Nat))
             /\ \A j \in 1..Len(part(i)) :
                  /\ ~DepthLimit(exp, x.current[i]) /\ j \in Branch(exp, x.current[i])
                  /\ part(i)[j] = Append(x.current[i], j)
             /\ ~DepthLimit(exp, x.current[i]) =>
                  \A b \in Branch(exp, x.current[i]) :
                    b \in 1..Len(part(i)) /\ part(i)[b] = Append(x.current[i], b)
  <2>1. CASE AtDepthLimit(x.current[i])
    <3>1. part(i) = <<>> BY <2>1
    <3>2. <<>> \in Seq(Seq(Nat)) /\ 1..Len(<<>>) = {} OBVIOUS
    <3> HIDE DEF part
    <3> QED BY <1>3, <2>1, <3>1, <3>2
  <2>2. CASE ~AtDepthLimit(x.current[i])
    <3>1. part(i) = Children(x.current[i]) BY <2>2
    <3> HIDE DEF part
    <3>2. Good(exp, x.current[i]) OBVIOUS
    <3> QED BY <1>3, <2>2, <3>1, <3>2, ChildrenOf
  <2> QED BY <2>1, <2>2
<1> HIDE DEF part
<1>5. Len(ss) = n /\ \A i \in 1..n : ss[i] = part(i) BY <1>1
<1> HIDE DEF ss, all
<1>6. /\ all \in Seq(Seq(Nat)) /\ Len(all) \in Nat
      /\ \A h \in 1..Len(all) : \E i \in 1..Len(ss) : \E j \in 1..Len(ss[i]) : all[h] = ss[i][j]
      /\ \A i \in 1..Len(ss) : \A j \in 1..Len(ss[i]) : \E h \in 1..Len(all) : all[h] = ss[i][j]
  <2>1. PICK A : A = Seq(Nat) OBVIOUS
  <2>2. Len(ss) \in Nat /\ \A i \in 1..Len(ss) : ss[i] \in Seq(A)
    BY <1>1, <1>4, <1>5, <2>1
  <2>3. FlatOf(A, ss, Flatten(ss)) BY <2>2, FlattenElements
  <2> QED BY <1>2, <2>1, <2>3 DEF FlatOf
<1>7. ASSUME NEW h \in 1..Len(all)
      PROVE  \E i \in 1..n : /\ ~DepthLimit(exp, x.current[i])
                             /\ \E b \in Branch(exp, x.current[i]) : all[h] = Append(x.current[i], b)
  <2>1. PICK i \in 1..n : \E j \in 1..Len(ss[i]) : all[h] = ss[i][j] BY <1>5, <1>6
  <2>2. PICK j \in 1..Len(ss[i]) : all[h] = ss[i][j] BY <2>1
  <2>3. ss[i] = part(i) BY <1>5
  <2>4. ~DepthLimit(exp, x.current[i]) /\ j \in Branch(exp, x.current[i])
        /\ part(i)[j] = Append(x.current[i], j) BY <1>4, <2>2, <2>3
  <2> QED BY <2>2, <2>3, <2>4
<1>8. ASSUME NEW i \in 1..n, ~DepthLimit(exp, x.current[i]), NEW b \in Branch(exp, x.current[i])
      PROVE  \E h \in 1..Len(all) : all[h] = Append(x.current[i], b)
  <2>1. ss[i] = part(i) /\ i \in 1..Len(ss) BY <1>5
  <2>2. b \in 1..Len(part(i)) /\ part(i)[b] = Append(x.current[i], b) BY <1>4, <1>8
  <2>3. b \in 1..Len(ss[i]) /\ ss[i][b] = Append(x.current[i], b) BY <2>1, <2>2
  <2>4. PICK h \in 1..Len(all) : all[h] = ss[i][b] BY <1>6, <2>1, <2>3
  <2> QED BY <2>3, <2>4
<1> QED BY <1>6, <1>7, <1>8 DEF all, n

\* A layer is cut to what the budget leaves, and a layer with no reason is whole.
LEMMA CutOf ==
  ASSUME exp \in Experiments, NEW x, x.nodes \in Nat, x.replays \in Nat, Room(exp, x, 0),
         Len(LayerChildren(x)) \in Nat, NEW cut \in PlannedCuts(x)
  PROVE  /\ cut.count \in 0..Len(LayerChildren(x)) /\ Room(exp, x, cut.count)
         /\ cut.reason \in HardReasons \cup {"none"}
         /\ cut.reason = "none" => cut.count = Len(LayerChildren(x))
<1> DEFINE n == Len(LayerChildren(x))
           fit == Slots(x, n)
           r == HardBudgetReason(x, FALSE)
           why == IF fit = n THEN "none" ELSE IF r # "none" THEN r
                  ELSE IF AtLimit(exp.max_nodes, x.nodes + fit) THEN "max_nodes" ELSE "max_replays"
<1>1. fit \in 0..n /\ Room(exp, x, fit) BY SlotsFit
<1>2. r \in HardReasons \cup {"none"} BY BudgetReason
<1>3. why \in HardReasons \cup {"none"} /\ (why = "none" => fit = n)
  BY <1>2 DEF HardReasons
<1>4. \/ cut = [count |-> fit, reason |-> why]
      \/ \E m \in 0..Smaller(fit, n - 1) : cut = [count |-> m, reason |-> "max_seconds"]
  BY DEF PlannedCuts
<1> HIDE DEF fit, why, n
<1>5. n \in Nat BY DEF n
<1>6. CASE cut = [count |-> fit, reason |-> why] BY <1>1, <1>3, <1>6 DEF n
<1>7. ASSUME NEW m \in 0..Smaller(fit, n - 1), cut = [count |-> m, reason |-> "max_seconds"]
      PROVE  /\ cut.count \in 0..n /\ Room(exp, x, cut.count)
             /\ cut.reason \in HardReasons \cup {"none"} /\ cut.reason # "none"
  BY <1>1, <1>5, <1>7, RoomLess DEF Smaller, HardReasons
<1> QED BY <1>4, <1>6, <1>7 DEF n

\* Planning a layer keeps the invariant.
LEMMA PlanLayerKeeps ==
  ASSUME exp \in Experiments, NEW x, RunInv(exp, x), x.pc = "beam_layer", NEW cut \in PlannedCuts(x)
  PROVE  LET plan == SubSeq(LayerChildren(x), 1, cut.count)
             c == EnsureCandidates(x, {plan[i] : i \in 1..Len(plan)})
         IN  RunInv(exp, [c EXCEPT !.pc = "beam_commit", !.plan = plan, !.reason = cut.reason,
                                   !.observed = <<>>])
<1> DEFINE all == LayerChildren(x)
           m == cut.count
           plan == SubSeq(all, 1, m)
           ps == {plan[i] : i \in 1..Len(plan)}
           c == EnsureCandidates(x, ps)
           u == [c EXCEPT !.pc = "beam_commit", !.plan = plan, !.reason = cut.reason,
                          !.observed = <<>>]
<1>1. /\ Core(exp, x) /\ DOMAIN x = Fields /\ exp.mode = "beam" /\ x.tree = NoCandidates
      /\ x.completed = 0 /\ x.ordinal >= 1 /\ x.nodes \in Nat /\ x.replays \in Nat
      /\ Room(exp, x, 0) BY BeamFields
<1>2. /\ x.current \in Seq(Seq(Nat)) /\ x.current # <<>> /\ <<>> \in x.cache
      /\ \A i \in 1..Len(x.current) :
            x.current[i] \in x.cache /\ Len(x.current[i]) = Len(x.current[1])
  BY DEF RunInv, Layered
<1>3. \A p \in x.cache : Good(exp, p) BY <1>1 DEF Core, Cached
<1>4. /\ all \in Seq(Seq(Nat)) /\ Len(all) \in Nat
      /\ \A h \in 1..Len(all) : ChildOf(exp, x.current, all[h])
      /\ \A i \in 1..Len(x.current) : ~DepthLimit(exp, x.current[i]) =>
              \A b \in Branch(exp, x.current[i]) :
                \E h \in 1..Len(all) : all[h] = Append(x.current[i], b)
  BY <1>2, <1>3, LayerOf DEF ChildOf
<1>5. /\ m \in 0..Len(all) /\ Room(exp, x, m)
      /\ cut.reason \in HardReasons \cup {"none"}
      /\ cut.reason = "none" => m = Len(all) BY <1>1, <1>4, CutOf
<1> HIDE DEF all, m
<1>6. plan \in Seq(Seq(Nat)) /\ Len(plan) = m /\ \A i \in 1..m : plan[i] = all[i]
  BY <1>4, <1>5, Shortened
<1>7. \A j \in 1..m : j \in 1..Len(all) BY <1>4, <1>5
<1> HIDE DEF plan
<1>8. IsFiniteSet(ps)
  <2>1. Len(plan) \in Nat BY <1>4, <1>5, <1>6
  <2> QED BY <2>1, FiniteValues
<1>9. /\ Core(exp, c) /\ Only(x, c, {"candidates"}) /\ Wider(x.candidates, c.candidates)
      /\ ps \subseteq DOMAIN c.candidates \cup {<<>>} BY <1>1, <1>8, EnsureKeeps
<1> HIDE DEF c
<1>10. /\ Only(c, u, {"pc", "plan", "reason", "observed"}) /\ u.pc = "beam_commit" /\ u.plan = plan
       /\ u.reason = cut.reason /\ u.observed = <<>> BY <1>9 DEF Only, Fields
<1> HIDE DEF u
<1>11. Core(exp, u) BY <1>10, <1>5, <1>9, ReasonFrame DEF Only
<1>12. /\ u.cache = x.cache /\ u.tree = x.tree /\ u.completed = x.completed /\ u.ordinal = x.ordinal
       /\ u.nodes = x.nodes /\ u.replays = x.replays /\ u.current = x.current
       /\ u.termination = x.termination /\ u.candidates = c.candidates
  BY <1>9, <1>10 DEF Only, Fields
<1>13. Limited(exp, u) BY <1>1, <1>5, <1>12, <1>6, <1>10 DEF Room, Limited
<1>14. StagesOf(exp, u) BY <1>1, <1>10, <1>12 DEF StagesOf, Stages
<1>15. Stacked(exp, u) BY <1>10 DEF Stacked
<1>16. \A j \in 1..m : ChildOf(exp, x.current, plan[j]) /\ plan[j] \in DOMAIN c.candidates
  <2> SUFFICES ASSUME NEW j \in 1..m PROVE ChildOf(exp, x.current, plan[j]) /\ plan[j] \in DOMAIN c.candidates
    OBVIOUS
  <2>1. ChildOf(exp, x.current, plan[j]) BY <1>4, <1>6, <1>7
  <2>2. PICK i \in 1..Len(x.current) : \E b \in Branch(exp, x.current[i]) : plan[j] = Append(x.current[i], b)
    BY <2>1 DEF ChildOf
  <2>3. PICK b \in Branch(exp, x.current[i]) : plan[j] = Append(x.current[i], b)
    BY <2>2
  <2>4. Good(exp, x.current[i]) BY <1>2, <1>3
  <2>5. x.current[i] \in Seq(Nat) /\ b \in Nat BY <2>4, GoodEnds, BranchState
  <2>6. plan[j] # <<>> BY <2>3, <2>5, NoPrefix
  <2>7. plan[j] \in ps BY <1>6
  <2> QED BY <1>9, <2>1, <2>6, <2>7
<1>17. Layered(exp, u) BY <1>5, <1>6, <1>10, <1>12, <1>16, <1>2 DEF Layered
<1>18. CoverageKept(exp, u)
  <2> SUFFICES ASSUME u.termination = "exhausted", u.reason = "none",
                      ~PrunedWithin(u, Len(u.current[1])), ~DepthLimit(exp, u.current[1]),
                      NEW p \in u.cache
               PROVE  Settled(exp, u, StateAt(exp, p)) BY <1>1, <1>10 DEF CoverageKept
  <2>1. m = Len(all) BY <1>5, <1>10
  <2>2. ~PrunedWithin(x, Len(x.current[1])) BY <1>9, <1>12 DEF PrunedWithin, Wider
  <2>3. \/ Settled(exp, x, StateAt(exp, p))
        \/ \E i \in 1..Len(x.current) : StateAt(exp, x.current[i]) = StateAt(exp, p)
    BY <1>12, <2>2 DEF RunInv, CoverageKept
  <2>4. CASE Settled(exp, x, StateAt(exp, p))
    BY <1>9, <1>12, <2>4, SettledStays DEF Wider
  <2>5. CASE \E i \in 1..Len(x.current) : StateAt(exp, x.current[i]) = StateAt(exp, p)
    <3>1. PICK i \in 1..Len(x.current) : StateAt(exp, x.current[i]) = StateAt(exp, p)
      BY <2>5
    <3>2. ~DepthLimit(exp, x.current[i]) BY <1>2, <1>12 DEF DepthLimit
    <3>3. ASSUME NEW b \in Branch(exp, x.current[i])
          PROVE  Append(x.current[i], b) \in DOMAIN u.candidates
      <4>1. PICK h \in 1..Len(all) : all[h] = Append(x.current[i], b) BY <1>4, <3>2
      <4>2. h \in 1..m /\ plan[h] = Append(x.current[i], b) BY <1>6, <2>1, <4>1
      <4> QED BY <1>12, <1>16, <4>2
    <3>4. x.current[i] \in u.cache BY <1>2, <1>12
    <3> QED BY <3>1, <3>3, <3>4 DEF Settled
  <2> QED BY <2>3, <2>4, <2>5
<1> QED
  <2>1. RunInv(exp, u)
    BY <1>1, <1>11, <1>12, <1>13, <1>14, <1>15, <1>17, <1>18, Treeless
  <2> QED BY <2>1 DEF u, c, plan, all, m

\* One more child of the layer is replayed.
LEMMA BeamCommitKeeps ==
  ASSUME exp \in Experiments, NEW x, RunInv(exp, x), x.pc = "beam_commit",
         Len(x.observed) + 1 <= Len(x.plan)
  PROVE  LET y == ReplayPrefix(x, x.plan[Len(x.observed) + 1])
         IN  RunInv(exp, [y EXCEPT !.observed = Append(@, y.obs)])
<1> DEFINE n == Len(x.observed) + 1
           m == Len(x.plan)
           q == x.plan[n]
           y == ReplayPrefix(x, q)
           seen == Append(y.observed, y.obs)
           u == [y EXCEPT !.observed = seen]
<1>1. /\ Core(exp, x) /\ DOMAIN x = Fields /\ exp.mode = "beam" /\ x.tree = NoCandidates
      /\ x.completed = 0 /\ x.ordinal >= 1 /\ x.nodes \in Nat /\ x.replays \in Nat
  BY BeamFields
<1>2. /\ x.current \in Seq(Seq(Nat)) /\ x.current # <<>> /\ <<>> \in x.cache
      /\ \A i \in 1..Len(x.current) :
            x.current[i] \in x.cache /\ Len(x.current[i]) = Len(x.current[1])
      /\ x.plan \in Seq(Seq(Nat)) /\ x.observed \in Seq(Observation)
      /\ \A j \in 1..m :
            x.plan[j] \in DOMAIN x.candidates /\ ChildOf(exp, x.current, x.plan[j])
      /\ \A j \in 1..Len(x.observed) :
            /\ x.observed[j].prefix = x.plan[j]
            /\ x.observed[j].ok => x.plan[j] \in x.cache BY DEF RunInv, Layered
<1>3. n \in Nat /\ m \in Nat /\ n \in 1..m /\ Len(x.observed) = n - 1 /\ n >= 1
      /\ Len(x.observed) \in Nat BY <1>2
<1> HIDE DEF n, m
<1>4. \A p \in x.cache : Good(exp, p) BY <1>1 DEF Core, Cached
<1>5. PICK i \in 1..Len(x.current) : \E b \in Branch(exp, x.current[i]) : q = Append(x.current[i], b)
  BY <1>2, <1>3 DEF ChildOf
<1>6. PICK b \in Branch(exp, x.current[i]) : q = Append(x.current[i], b) BY <1>5
<1>7. Planned(exp, x.cache, q) BY <1>2, <1>6 DEF Planned
<1>8. x.current[i] \in Seq(Nat) /\ b \in Nat /\ q # <<>>
  BY <1>2, <1>4, <1>6, GoodEnds, BranchState, NoPrefix
<1> HIDE DEF q
<1>9. Core(exp, y) /\ Replayed(exp, x, y, q) BY <1>1, <1>7, <1>8, ReplayKeeps
<1> HIDE DEF y
<1>10. DOMAIN y = Fields /\ y.obs \in Observation /\ y.nodes \in Nat /\ y.replays \in Nat
       /\ y.obs.ok \in BOOLEAN /\ y.obs.dup \in BOOLEAN
  BY <1>9 DEF Core, Typed, Observation
<1>11. Only(y, u, {"observed"}) /\ u.observed = seen BY <1>10 DEF Only, Fields
<1>12. /\ y.observed = x.observed /\ y.pc = x.pc /\ y.tree = x.tree /\ y.completed = x.completed
       /\ y.ordinal = x.ordinal /\ y.plan = x.plan /\ y.current = x.current /\ y.reason = x.reason
  BY <1>9 DEF Replayed, Only, Fields, ReplayFields, CommitFields, FailureFields
<1>13. /\ seen \in Seq(Observation) /\ Len(seen) = n
       /\ seen[n] = y.obs /\ \A j \in 1..(n - 1) : seen[j] = x.observed[j]
  BY <1>2, <1>3, <1>10, <1>12
<1> HIDE DEF seen, u
<1>14. Core(exp, u) BY <1>11, <1>9, CoreFrame DEF Only
<1>15. /\ u.pc = "beam_commit" /\ u.tree = NoCandidates /\ u.completed = 0 /\ u.ordinal >= 1
       /\ u.plan = x.plan /\ u.current = x.current /\ u.reason = x.reason
       /\ u.cache = y.cache /\ u.candidates = y.candidates /\ u.termination = y.termination
       /\ u.nodes = y.nodes /\ u.replays = y.replays /\ u.obs = y.obs
  BY <1>11, <1>1, <1>12 DEF Only, Fields
<1>16. Limited(exp, u)
  <2>1. Room(exp, x, m - (n - 1)) /\ m - (n - 1) = (m - n) + 1 /\ m - n \in Nat
    BY <1>3 DEF RunInv, Limited, m
  <2>2. u.nodes = x.nodes + 1 /\ u.replays <= x.replays + exp.replay_count
    BY <1>9, <1>15 DEF Replayed
  <2>7. exp.mode = "beam" BY ModeOf DEF RunInv
  <2>3. Room(exp, u, m - n) BY <1>1, <1>10, <1>15, <2>1, <2>2, <2>7, RoomAfter
  <2>4. u.nodes \in Nat /\ u.replays \in Nat BY <1>10, <1>15
  <2>5. Room(exp, u, 0) BY <2>1, <2>3, <2>4, RoomLess
  <2>6. Len(u.plan) - Len(u.observed) = m - n BY <1>11, <1>13, <1>15 DEF m
  <2> QED BY <1>15, <2>3, <2>5, <2>6 DEF Limited
<1>17. StagesOf(exp, u) BY <1>1, <1>15 DEF StagesOf, Stages
<1>18. Stacked(exp, u) BY <1>15 DEF Stacked
<1>19. x.cache \subseteq y.cache /\ DOMAIN x.candidates \subseteq DOMAIN y.candidates
       /\ y.cache \subseteq x.cache \cup {q}
       /\ (y.obs.ok => q \in y.cache) /\ y.obs.prefix = q /\ (~y.obs.ok => y.cache = x.cache)
  BY <1>9 DEF Replayed
<1>20. \A j \in 1..n : j = n \/ j \in 1..(n - 1) BY <1>3
<1>21. ASSUME NEW j \in 1..n
       PROVE  seen[j].prefix = x.plan[j] /\ (seen[j].ok => x.plan[j] \in y.cache)
  BY <1>13, <1>19, <1>2, <1>3, <1>20 DEF q
<1>22. Layered(exp, u)
  <2>1. u.observed \in Seq(Observation) /\ Len(u.observed) = n /\ Len(u.observed) <= Len(u.plan)
    BY <1>3, <1>11, <1>13, <1>15 DEF m
  <2>2. \A j \in 1..Len(u.plan) :
            u.plan[j] \in DOMAIN u.candidates /\ ChildOf(exp, u.current, u.plan[j])
    BY <1>2, <1>15, <1>19 DEF m
  <2>3. \A j \in 1..Len(u.observed) :
            /\ u.observed[j].prefix = u.plan[j]
            /\ u.observed[j].ok => u.plan[j] \in u.cache BY <1>11, <1>15, <1>21, <2>1
  <2>4. /\ u.current \in Seq(Seq(Nat)) /\ u.current # <<>> /\ <<>> \in u.cache
        /\ \A h \in 1..Len(u.current) :
             u.current[h] \in u.cache /\ Len(u.current[h]) = Len(u.current[1])
        /\ u.plan \in Seq(Seq(Nat)) BY <1>2, <1>15, <1>19
  <2> QED BY <2>1, <2>2, <2>3, <2>4 DEF Layered
<1>23. CoverageKept(exp, u)
  <2> SUFFICES ASSUME u.termination = "exhausted", u.reason = "none",
                      ~PrunedWithin(u, Len(u.current[1])), ~DepthLimit(exp, u.current[1]),
                      NEW p \in u.cache
               PROVE  \/ Settled(exp, u, StateAt(exp, p))
                      \/ \E j \in 1..Len(u.observed) :
                           /\ u.observed[j].ok /\ ~u.observed[j].dup
                           /\ StateAt(exp, u.plan[j]) = StateAt(exp, p)
    BY <1>1, <1>15 DEF CoverageKept
  <2>1. x.termination = "exhausted" BY <1>9, <1>15 DEF Replayed
  <2>2. ~PrunedWithin(x, Len(x.current[1]))
    <3> SUFFICES ASSUME NEW r \in DOMAIN x.candidates, x.candidates[r].status = "pruned",
                        Len(r) <= Len(x.current[1])
                 PROVE  FALSE BY DEF PrunedWithin
    <3>1. Len(q) = Len(x.current[1]) + 1 /\ Len(x.current[1]) \in Nat
      <4>1. Len(q) = Len(x.current[i]) + 1 /\ Len(x.current[i]) \in Nat BY <1>6, <1>8
      <4> QED BY <1>2, <4>1
    <3>2. r # q BY <3>1
    <3>3. y.candidates[r] = x.candidates[r] BY <1>9, <3>2 DEF Replayed
    <3>4. r \in DOMAIN u.candidates /\ u.candidates[r].status = "pruned" /\ Len(r) <= Len(u.current[1])
      BY <1>15, <1>19, <3>3
    <3> QED BY <3>4 DEF PrunedWithin
  <2>3. \A r \in x.cache :
          \/ Settled(exp, x, StateAt(exp, r))
          \/ \E j \in 1..Len(x.observed) :
               /\ x.observed[j].ok /\ ~x.observed[j].dup
               /\ StateAt(exp, x.plan[j]) = StateAt(exp, r)
    BY <1>15, <2>1, <2>2 DEF RunInv, CoverageKept
  <2>4. ASSUME NEW r \in x.cache, StateAt(exp, r) = StateAt(exp, p)
        PROVE  \/ Settled(exp, u, StateAt(exp, p))
               \/ \E j \in 1..Len(u.observed) :
                    /\ u.observed[j].ok /\ ~u.observed[j].dup
                    /\ StateAt(exp, u.plan[j]) = StateAt(exp, p)
    <3>1. CASE Settled(exp, x, StateAt(exp, r))
      BY <1>15, <1>19, <2>4, <3>1, SettledStays
    <3>2. CASE \E j \in 1..Len(x.observed) :
               /\ x.observed[j].ok /\ ~x.observed[j].dup
               /\ StateAt(exp, x.plan[j]) = StateAt(exp, r)
      BY <1>3, <1>11, <1>13, <1>15, <2>4, <3>2
    <3> QED BY <2>3, <3>1, <3>2
  <2>5. CASE p \in x.cache BY <2>4, <2>5
  <2>6. CASE p \notin x.cache
    <3>1. p = q /\ y.obs.ok BY <1>10, <1>15, <1>19, <2>6
    <3>2. CASE y.obs.dup BY <1>9, <2>4, <3>1, <3>2 DEF Replayed
    <3>3. CASE ~y.obs.dup BY <1>3, <1>11, <1>13, <1>15, <3>1, <3>3 DEF q
    <3> QED BY <3>2, <3>3
  <2> QED BY <2>5, <2>6
<1> QED
  <2>1. RunInv(exp, u)
    BY <1>1, <1>14, <1>15, <1>16, <1>17, <1>18, <1>22, <1>23, Treeless
  <2> QED BY <2>1 DEF u, seen, y, q, n

(* _run_beam: the end of a layer. *)
\* The shape of a layer whose children have been replayed.
LayerShape(e, x) ==
  /\ \A j \in 1..Len(x.plan) :
       /\ x.plan[j] \in DOMAIN x.candidates
       /\ x.plan[j] \in Seq(Nat) /\ Len(x.plan[j]) = Len(x.current[1]) + 1
       /\ ~DepthLimit(e, x.current[1])
  /\ Len(x.plan) \in Nat /\ Len(x.current[1]) \in Nat
  /\ \A j \in 1..Len(x.plan) :
       /\ x.observed[j].prefix = x.plan[j]
       /\ x.observed[j].ok => x.plan[j] \in x.cache

\* The facts about a whole observed layer that its end relies on.
LEMMA LayerShaped ==
  ASSUME NEW e \in Experiments, NEW x, RunInv(e, x), x.pc = "beam_commit",
         Len(x.observed) = Len(x.plan)
  PROVE  LayerShape(e, x)
<1>1. /\ x.current \in Seq(Seq(Nat)) /\ x.current # <<>>
      /\ \A i \in 1..Len(x.current) :
            x.current[i] \in x.cache /\ Len(x.current[i]) = Len(x.current[1])
      /\ x.plan \in Seq(Seq(Nat))
      /\ \A j \in 1..Len(x.plan) :
            x.plan[j] \in DOMAIN x.candidates /\ ChildOf(e, x.current, x.plan[j])
      /\ \A j \in 1..Len(x.plan) :
            /\ x.observed[j].prefix = x.plan[j]
            /\ x.observed[j].ok => x.plan[j] \in x.cache BY DEF RunInv, Layered
<1>2. \A p \in x.cache : Good(e, p) BY DEF RunInv, Core, Cached
<1>3. Len(x.plan) \in Nat /\ Len(x.current[1]) \in Nat /\ Len(x.current) >= 1 BY <1>1
<1>4. ASSUME NEW j \in 1..Len(x.plan)
      PROVE  /\ x.plan[j] \in Seq(Nat) /\ Len(x.plan[j]) = Len(x.current[1]) + 1
             /\ ~DepthLimit(e, x.current[1])
  <2>1. PICK i \in 1..Len(x.current) :
          /\ ~DepthLimit(e, x.current[i])
          /\ \E b \in Branch(e, x.current[i]) : x.plan[j] = Append(x.current[i], b)
    BY <1>1 DEF ChildOf
  <2>2. PICK b \in Branch(e, x.current[i]) : x.plan[j] = Append(x.current[i], b)
    BY <2>1
  <2>3. Good(e, x.current[i]) BY <1>1, <1>2
  <2>4. x.current[i] \in Seq(Nat) /\ b \in Nat BY <2>3, GoodEnds, BranchState
  <2>5. x.plan[j] \in Seq(Nat) /\ Len(x.plan[j]) = Len(x.current[i]) + 1 BY <2>2, <2>4
  <2>6. Len(x.current[i]) = Len(x.current[1]) BY <1>1
  <2> QED BY <2>1, <2>5, <2>6 DEF DepthLimit
<1> QED BY <1>1, <1>3, <1>4 DEF LayerShape

\* The children a layer may select from.
LEMMA ExpandableOf ==
  ASSUME exp \in Experiments, NEW x, LayerShape(exp, x), Len(x.observed) = Len(x.plan)
  PROVE  LET E == Expandable(x) IN
         /\ IsFiniteSet(E)
         /\ \A p \in E : /\ p \in x.cache /\ p \in DOMAIN x.candidates
                         /\ p \in Seq(Nat) /\ Len(p) = Len(x.current[1]) + 1
                         /\ ~DepthLimit(exp, p)
         /\ x.termination # "goal_reached" =>
              \A j \in 1..Len(x.plan) :
                x.observed[j].ok /\ ~x.observed[j].dup =>
                  \/ x.plan[j] \in E \/ Actions(x.plan[j]) = <<>> \/ DepthLimit(exp, x.plan[j])
         /\ x.termination # "goal_reached" =>
              \A j \in 1..Len(x.plan) :
                x.observed[j].ok /\ DepthLimit(exp, x.plan[j]) => DepthLimited(x)
<1> DEFINE E == Expandable(x)
           n == Len(x.plan)
           T == {x.plan[j] : j \in 1..n}
           I == Inspected(x)
<1>0. \A p : AtDepthLimit(p) <=> DepthLimit(exp, p)
  BY DEF AtDepthLimit, AtLimit, DepthLimit
<1>1. n \in Nat /\ \A j \in 1..n : /\ x.observed[j].prefix = x.plan[j]
                                   /\ x.observed[j].ok => x.plan[j] \in x.cache
                                   /\ x.plan[j] \in DOMAIN x.candidates
                                   /\ x.plan[j] \in Seq(Nat)
                                   /\ Len(x.plan[j]) = Len(x.current[1]) + 1
  BY DEF LayerShape
<1>2. \A o \in I : \E j \in 1..n : o = x.observed[j] BY DEF Inspected
<1>3. x.termination # "goal_reached" => \A j \in 1..n : x.observed[j] \in I
  BY DEF Inspected
<1> HIDE DEF I
<1>4. E = {o.prefix : o \in {c \in I : /\ c.ok /\ ~c.dup
                                       /\ Actions(c.prefix) # <<>> /\ ~AtDepthLimit(c.prefix)}}
  BY DEF Expandable, I
<1> HIDE DEF E
<1>5. ASSUME NEW p \in E
      PROVE  \E j \in 1..n : p = x.plan[j] /\ x.observed[j].ok /\ ~DepthLimit(exp, p)
  BY <1>4, <1>2, <1>0, <1>1
<1>6. IsFiniteSet(E)
  <2>1. IsFiniteSet(T) BY <1>1, FiniteValues
  <2>2. E \subseteq T BY <1>5
  <2> HIDE DEF T
  <2> QED BY <2>1, <2>2, FS_Subset
<1>7. \A p \in E : /\ p \in x.cache /\ p \in DOMAIN x.candidates
                   /\ p \in Seq(Nat) /\ Len(p) = Len(x.current[1]) + 1
                   /\ ~DepthLimit(exp, p) BY <1>1, <1>5
<1>8. ASSUME x.termination # "goal_reached", NEW j \in 1..n, x.observed[j].ok, ~x.observed[j].dup
      PROVE  x.plan[j] \in E \/ Actions(x.plan[j]) = <<>> \/ DepthLimit(exp, x.plan[j])
  BY <1>1, <1>3, <1>8, <1>0, <1>4
<1>9. ASSUME x.termination # "goal_reached", NEW j \in 1..n, x.observed[j].ok,
             DepthLimit(exp, x.plan[j])
      PROVE  DepthLimited(x) BY <1>0, <1>1, <1>3, <1>9 DEF DepthLimited, I
<1> QED BY <1>6, <1>7, <1>8, <1>9 DEF E, n

\* The children left out are marked pruned, and the layer is logged.
LEMMA PrunedKeeps ==
  ASSUME exp \in Experiments, NEW x, RunInv(exp, x), x.pc = "beam_commit", NEW ps, NEW u
  PROVE  LET y == Log(MarkPruned(x, ps), u) IN
         /\ RunInv(exp, y) /\ Only(x, y, {"candidates", "updates"})
         /\ DOMAIN y.candidates = DOMAIN x.candidates
         /\ \A p \in DOMAIN x.candidates :
              p \in ps \/ x.candidates[p].status = "pruned" => y.candidates[p].status = "pruned"
<1> DEFINE f == x.candidates
           g == [p \in DOMAIN f |-> IF p \in ps THEN [f[p] EXCEPT !.status = "pruned"] ELSE f[p]]
           z == [x EXCEPT !.candidates = g]
           y == Log(z, u)
<1>1. MarkPruned(x, ps) = z BY DEF MarkPruned
<1>2. /\ Core(exp, x) /\ DOMAIN x = Fields /\ exp.mode = "beam" /\ x.tree = NoCandidates
      /\ x.completed = 0 /\ x.ordinal >= 1 BY BeamFields
<1>3. IsFiniteSet(DOMAIN f) /\ \A q \in DOMAIN f : f[q] \in Candidate
  BY <1>2 DEF Core, Typed
<1>4. /\ DOMAIN g = DOMAIN f
      /\ \A q \in DOMAIN f : q \in ps => g[q] = [f[q] EXCEPT !.status = "pruned"]
      /\ \A q \in DOMAIN f : q \notin ps => g[q] = f[q] OBVIOUS
<1>5. \A q \in DOMAIN f : [f[q] EXCEPT !.status = "pruned"] \in Candidate
        /\ [f[q] EXCEPT !.status = "pruned"].status = "pruned"
  BY <1>3 DEF Candidate, Statuses
<1> HIDE DEF g
<1>6. /\ \A q \in DOMAIN g : g[q] \in Candidate
      /\ \A q \in DOMAIN g : g[q] = f[q] \/ g[q].status = "pruned"
      /\ \A q \in DOMAIN g : q \in ps \/ f[q].status = "pruned" => g[q].status = "pruned"
  <2> SUFFICES ASSUME NEW q \in DOMAIN g
               PROVE  /\ g[q] \in Candidate /\ (g[q] = f[q] \/ g[q].status = "pruned")
                      /\ (q \in ps \/ f[q].status = "pruned" => g[q].status = "pruned")
    OBVIOUS
  <2> DEFINE v == [f[q] EXCEPT !.status = "pruned"]
  <2>1. q \in DOMAIN f /\ v \in Candidate /\ v.status = "pruned" BY <1>4, <1>5
  <2>2. (q \in ps => g[q] = v) /\ (q \notin ps => g[q] = f[q]) BY <1>4
  <2> HIDE DEF v
  <2> QED BY <1>3, <2>1, <2>2
<1>7. Only(x, z, {"candidates"}) /\ z.candidates = g BY <1>2 DEF Only, Fields
<1> HIDE DEF z
<1>8. Core(exp, z)
  <2>1. Only(x, z, {"candidates", "prefetched"}) /\ z.prefetched = x.prefetched
    BY <1>7 DEF Only, Fields
  <2>2. z.prefetched \cap x.cache = {} BY <1>2, <2>1 DEF Core, Cached
  <2>3. IsFiniteSet(DOMAIN z.candidates) BY <1>3, <1>4, <1>7
  <2>4. \A q \in DOMAIN z.candidates :
           /\ z.candidates[q] \in Candidate
           /\ \/ q \in DOMAIN x.candidates /\ z.candidates[q] = x.candidates[q]
              \/ z.candidates[q].status \in {"unexplored", "pruned"}
    BY <1>4, <1>6, <1>7
  <2> QED BY <1>2, <2>1, <2>2, <2>3, <2>4, CandidatesFrame
<1>9. DOMAIN z = Fields BY <1>7 DEF Only
<1>10. Only(z, y, {"updates"}) BY <1>9 DEF Log, Only, Fields
<1> HIDE DEF y
<1>11. Core(exp, y) BY <1>9, <1>10, <1>8, CoreFrame DEF Only
<1>12. Only(x, y, {"candidates", "updates"}) /\ y.candidates = g
  BY <1>7, <1>10 DEF Only, Fields
<1>13. /\ y.cache = x.cache /\ y.tree = x.tree /\ y.completed = x.completed /\ y.ordinal = x.ordinal
       /\ y.nodes = x.nodes /\ y.replays = x.replays /\ y.current = x.current /\ y.pc = x.pc
       /\ y.termination = x.termination /\ y.plan = x.plan /\ y.observed = x.observed
       /\ y.reason = x.reason /\ y.seen = x.seen BY <1>12 DEF Only, Fields
<1>14. Limited(exp, y) /\ StagesOf(exp, y) /\ Stacked(exp, y) /\ Layered(exp, y)
  <2>1. Limited(exp, y) BY <1>13, RoomFrame DEF RunInv, Limited
  <2>2. StagesOf(exp, y) /\ Stacked(exp, y) BY <1>13 DEF RunInv, StagesOf, Stacked
  <2>3. DOMAIN y.candidates = DOMAIN x.candidates BY <1>4, <1>12
  <2>4. Layered(exp, y) BY <1>13, <2>3 DEF RunInv, Layered
  <2> QED BY <2>1, <2>2, <2>4
<1>15. CoverageKept(exp, y)
  <2> SUFFICES ASSUME y.termination = "exhausted", y.reason = "none",
                      ~PrunedWithin(y, Len(y.current[1])), ~DepthLimit(exp, y.current[1]),
                      NEW p \in y.cache
               PROVE  \/ Settled(exp, y, StateAt(exp, p))
                      \/ \E j \in 1..Len(y.observed) :
                           /\ y.observed[j].ok /\ ~y.observed[j].dup
                           /\ StateAt(exp, y.plan[j]) = StateAt(exp, p)
    BY <1>2, <1>13 DEF CoverageKept
  <2>1. ~PrunedWithin(x, Len(x.current[1]))
    BY <1>4, <1>6, <1>12, <1>13 DEF PrunedWithin
  <2>2. \/ Settled(exp, x, StateAt(exp, p))
        \/ \E j \in 1..Len(x.observed) :
             /\ x.observed[j].ok /\ ~x.observed[j].dup
             /\ StateAt(exp, x.plan[j]) = StateAt(exp, p)
    BY <1>13, <2>1 DEF RunInv, CoverageKept
  <2>3. DOMAIN y.candidates = DOMAIN x.candidates BY <1>4, <1>12
  <2> QED BY <1>13, <2>2, <2>3, SettledStays
<1>16. RunInv(exp, y) BY <1>2, <1>11, <1>13, <1>14, <1>15, Treeless
<1> QED BY <1>1, <1>4, <1>6, <1>12, <1>16 DEF y

\* A layer ends: the run stops, or goes on with the selected children.
LEMMA EndLayerKeeps ==
  ASSUME exp \in Experiments, NEW x, RunInv(exp, x), x.pc = "beam_commit",
         Len(x.observed) = Len(x.plan)
  PROVE  RunInv(exp, EndLayer(x))
<1> DEFINE goal == x.termination = "goal_reached"
           complete == x.reason = "none" /\ ~goal
           E == Expandable(x)
           chosen == IF complete THEN Best(E, exp.width, BeamBefore) ELSE <<>>
           ps == E \ {chosen[i] : i \in 1..Len(chosen)}
           log == [layer |-> x.plan, selected |-> chosen, complete |-> complete]
           y == Log(MarkPruned(x, ps), log)
           u == [y EXCEPT !.pc = "beam_layer", !.current = chosen]
           last == IF DepthLimited(x) THEN "max_depth" ELSE x.termination
<1>1. EndLayer(x) = IF ~complete
                    THEN Stop(y, IF goal THEN "goal_reached" ELSE x.reason)
                    ELSE IF chosen # <<>> THEN u ELSE Stop(y, last) BY DEF EndLayer
<1>2. /\ Core(exp, x) /\ DOMAIN x = Fields /\ exp.mode = "beam" /\ x.tree = NoCandidates
      /\ x.completed = 0 /\ x.ordinal >= 1 /\ x.nodes \in Nat /\ x.replays \in Nat
      /\ Room(exp, x, 0) BY BeamFields
<1>3. x.termination \in Reasons /\ x.reason \in HardReasons \cup {"none"}
      /\ \A p \in x.cache : Good(exp, p) BY <1>2 DEF Core, Typed, Cached
<1>4. LayerShape(exp, x) BY LayerShaped
<1>5. /\ IsFiniteSet(E)
      /\ \A p \in E : /\ p \in x.cache /\ p \in DOMAIN x.candidates
                      /\ p \in Seq(Nat) /\ Len(p) = Len(x.current[1]) + 1
                      /\ ~DepthLimit(exp, p)
      /\ ~goal => \A j \in 1..Len(x.plan) :
                    x.observed[j].ok /\ ~x.observed[j].dup =>
                      \/ x.plan[j] \in E \/ Actions(x.plan[j]) = <<>>
                      \/ DepthLimit(exp, x.plan[j])
      /\ ~goal => \A j \in 1..Len(x.plan) :
                    x.observed[j].ok /\ DepthLimit(exp, x.plan[j]) => DepthLimited(x)
  BY <1>4, ExpandableOf
<1> HIDE DEF E
<1>6. /\ chosen \in Seq(Seq(Nat)) /\ Len(chosen) \in Nat
      /\ \A i \in 1..Len(chosen) : chosen[i] \in E
      /\ complete /\ chosen = <<>> => E = {}
  <2>1. CASE complete
    <3>1. chosen = Best(E, exp.width, BeamBefore) BY <2>1
    <3>2. exp.width \in Nat \ {0} /\ \A p \in E : Good(exp, p)
      BY <1>3, <1>5, GraphFacts
    <3>3. \A p \in E : Len(p) = Len(x.current[1]) + 1 BY <1>5
    <3> HIDE DEF chosen
    <3>4. /\ chosen \in Seq(Seq(Nat)) /\ Len(chosen) \in Nat
          /\ \A i \in 1..Len(chosen) : chosen[i] \in E
          /\ E # {} => Len(chosen) >= 1 BY <1>5, <3>1, <3>2, <3>3, BestBeam
    <3>5. Len(<<>>) = 0 OBVIOUS
    <3> QED BY <3>4, <3>5
  <2>2. CASE ~complete
    <3>1. chosen = <<>> BY <2>2
    <3>2. <<>> \in Seq(Seq(Nat)) /\ Len(<<>>) = 0 OBVIOUS
    <3> HIDE DEF chosen
    <3> QED BY <2>2, <3>1, <3>2
  <2> QED BY <2>1, <2>2
<1> HIDE DEF chosen
<1>7. /\ RunInv(exp, y) /\ Only(x, y, {"candidates", "updates"})
      /\ DOMAIN y.candidates = DOMAIN x.candidates
      /\ \A p \in DOMAIN x.candidates :
           p \in ps \/ x.candidates[p].status = "pruned" => y.candidates[p].status = "pruned"
  BY PrunedKeeps
<1> HIDE DEF y, ps
<1>8. /\ DOMAIN y = Fields /\ y.cache = x.cache /\ y.termination = x.termination /\ y.pc = x.pc
      /\ y.nodes = x.nodes /\ y.replays = x.replays /\ y.tree = x.tree
      /\ y.completed = x.completed /\ y.ordinal = x.ordinal BY <1>7 DEF Only, Fields
<1>9. ASSUME NEW r, r \in Reasons, r # "exhausted"
      PROVE  RunInv(exp, Stop(y, r))
  <2>1. Only(y, Stop(y, r), {"pc", "termination", "updates"}) /\ Stop(y, r).pc = "done"
        /\ Stop(y, r).termination = r BY <1>8 DEF Stop, Only, Fields
  <2> QED BY <1>7, <1>9, <2>1, StopKeeps
<1>10. CASE ~complete
  <2> DEFINE r == IF goal THEN "goal_reached" ELSE x.reason
  <2>1. r \in Reasons /\ r # "exhausted" BY <1>3, <1>10 DEF Reasons, HardReasons
  <2> HIDE DEF r
  <2>2. RunInv(exp, Stop(y, r)) BY <1>9, <2>1
  <2> QED BY <1>1, <1>10, <2>2 DEF r
<1>11. \A j \in 1..Len(x.plan) : Actions(x.plan[j]) = <<>> /\ x.observed[j].ok
         => Settled(exp, x, StateAt(exp, x.plan[j]))
  <2> SUFFICES ASSUME NEW j \in 1..Len(x.plan), Actions(x.plan[j]) = <<>>, x.observed[j].ok
               PROVE  Settled(exp, x, StateAt(exp, x.plan[j])) OBVIOUS
  <2>1. x.plan[j] \in x.cache BY <1>4 DEF LayerShape
  <2>2. Good(exp, x.plan[j]) BY <1>3, <2>1
  <2>3. Branch(exp, x.plan[j]) = {} BY <2>2, ChildrenOf
  <2> QED BY <2>1, <2>3 DEF Settled
<1>12. CASE complete /\ chosen = <<>>
  <2>1. CASE last # "exhausted"
    <3>1. last \in Reasons BY <1>3 DEF Reasons
    <3> HIDE DEF last
    <3>2. RunInv(exp, Stop(y, last)) BY <1>9, <2>1, <3>1
    <3> QED BY <1>1, <1>12, <3>2
  <2>2. CASE last = "exhausted"
    <3>1. x.termination = "exhausted" /\ ~DepthLimited(x) /\ E = {} /\ x.reason = "none" /\ ~goal
      BY <1>6, <1>12, <2>2
    <3>2. ~DepthLimit(exp, x.current[1])
      BY <3>1 DEF DepthLimited, AtDepthLimit, AtLimit, DepthLimit
    <3>3. <<>> \in x.cache BY DEF RunInv, Layered
    <3>4. \/ PrunedWithin(x, Len(x.current[1]))
          \/ \A p \in x.cache : Settled(exp, x, StateAt(exp, p))
      <4> SUFFICES ASSUME ~PrunedWithin(x, Len(x.current[1])), NEW p \in x.cache
                   PROVE  Settled(exp, x, StateAt(exp, p)) OBVIOUS
      <4>1. \/ Settled(exp, x, StateAt(exp, p))
            \/ \E j \in 1..Len(x.observed) :
                 /\ x.observed[j].ok /\ ~x.observed[j].dup
                 /\ StateAt(exp, x.plan[j]) = StateAt(exp, p)
        BY <3>1, <3>2 DEF RunInv, CoverageKept
      <4>2. ASSUME NEW j \in 1..Len(x.plan), x.observed[j].ok, ~x.observed[j].dup
            PROVE  Settled(exp, x, StateAt(exp, x.plan[j])) BY <1>5, <1>11, <3>1, <4>2
      <4> QED BY <4>1, <4>2
    <3>5. \/ \E p \in DOMAIN y.candidates : y.candidates[p].status = "pruned"
          \/ \A p \in y.cache : Settled(exp, y, StateAt(exp, p))
      BY <1>7, <1>8, <3>4, SettledStays DEF PrunedWithin
    <3>6. Only(y, Stop(y, "exhausted"), {"pc", "termination", "updates"})
          /\ Stop(y, "exhausted").pc = "done" /\ Stop(y, "exhausted").termination = "exhausted"
      BY <1>8 DEF Stop, Only, Fields
    <3>7. "exhausted" \in Reasons BY DEF Reasons
    <3>8. RunInv(exp, Stop(y, "exhausted"))
      BY <1>7, <1>8, <3>1, <3>3, <3>5, <3>6, <3>7, StopKeeps
    <3> QED BY <1>1, <1>12, <2>2, <3>8
  <2> QED BY <2>1, <2>2
<1>13. CASE complete /\ chosen # <<>>
  <2>1. Only(y, u, {"pc", "current"}) /\ u.pc = "beam_layer" /\ u.current = chosen
    BY <1>8 DEF Only, Fields
  <2> HIDE DEF u
  <2>2. /\ u.cache = x.cache /\ u.tree = NoCandidates /\ u.completed = 0 /\ u.ordinal >= 1
        /\ u.termination = x.termination /\ u.candidates = y.candidates
        /\ u.nodes = x.nodes /\ u.replays = x.replays /\ DOMAIN u = Fields
    BY <1>2, <1>8, <2>1 DEF Only, Fields
  <2>3. Core(exp, u) BY <1>7, <2>1, <2>2, CoreFrame DEF Only, RunInv
  <2>4. Limited(exp, u) BY <1>2, <2>1, <2>2 DEF Limited, Room
  <2>5. StagesOf(exp, u) /\ Stacked(exp, u)
    BY <1>2, <2>1, <2>2 DEF StagesOf, Stages, Stacked
  <2>6. Len(chosen) >= 1 /\ chosen[1] \in E BY <1>6, <1>13
  <2>7. Len(chosen[1]) = Len(x.current[1]) + 1 /\ ~DepthLimit(exp, chosen[1])
    BY <1>5, <2>6
  <2>8. Layered(exp, u) BY <1>5, <1>6, <1>13, <2>7, <2>1, <2>2 DEF RunInv, Layered
  <2>9. CoverageKept(exp, u)
    <3> SUFFICES ASSUME u.termination = "exhausted", ~PrunedWithin(u, Len(u.current[1])),
                        NEW p \in u.cache
                 PROVE  \/ Settled(exp, u, StateAt(exp, p))
                        \/ \E i \in 1..Len(u.current) : StateAt(exp, u.current[i]) = StateAt(exp, p)
      BY <1>2, <2>1 DEF CoverageKept
    <3>1. x.termination = "exhausted" /\ x.reason = "none" /\ ~goal BY <1>13, <2>2
    <3>2. Len(x.current[1]) \in Nat /\ Len(u.current[1]) = Len(x.current[1]) + 1
      BY <1>4, <2>1, <2>7 DEF LayerShape
    <3>3. ~PrunedWithin(x, Len(x.current[1]))
      <4> SUFFICES ASSUME NEW r \in DOMAIN x.candidates, x.candidates[r].status = "pruned",
                          Len(r) <= Len(x.current[1])
                   PROVE  FALSE BY DEF PrunedWithin
      <4>1. r \in DOMAIN u.candidates /\ u.candidates[r].status = "pruned"
        BY <1>7, <2>2
      <4>2. ~(Len(r) <= Len(u.current[1])) BY <4>1 DEF PrunedWithin
      <4> QED BY <3>2, <4>2
    <3>4. ~DepthLimit(exp, x.current[1])
      BY <1>4, <2>6 DEF E, Expandable, Inspected, LayerShape
    <3>5. \/ Settled(exp, x, StateAt(exp, p))
          \/ \E j \in 1..Len(x.observed) :
               /\ x.observed[j].ok /\ ~x.observed[j].dup
               /\ StateAt(exp, x.plan[j]) = StateAt(exp, p)
      BY <2>2, <3>1, <3>3, <3>4 DEF RunInv, CoverageKept
    <3>6. DOMAIN u.candidates = DOMAIN x.candidates BY <1>7, <2>2
    <3>7. CASE Settled(exp, x, StateAt(exp, p)) BY <2>2, <3>6, <3>7, SettledStays
    <3>8. ASSUME NEW j \in 1..Len(x.plan), x.observed[j].ok, ~x.observed[j].dup,
                 StateAt(exp, x.plan[j]) = StateAt(exp, p)
          PROVE  \/ Settled(exp, u, StateAt(exp, p))
                 \/ \E i \in 1..Len(u.current) : StateAt(exp, u.current[i]) = StateAt(exp, p)
      <4>1. x.plan[j] \in DOMAIN x.candidates /\ Len(x.plan[j]) = Len(x.current[1]) + 1
        BY <1>4 DEF LayerShape
      <4>2. x.plan[j] \in E \/ Actions(x.plan[j]) = <<>> \/ DepthLimit(exp, x.plan[j])
        BY <1>5, <3>1, <3>8
      <4>3. ~DepthLimit(exp, x.plan[j]) BY <2>7, <4>1 DEF DepthLimit
      <4>4. CASE Actions(x.plan[j]) = <<>>
        BY <1>11, <2>2, <3>8, <3>6, <4>4, SettledStays
      <4>5. CASE x.plan[j] \in E
        <5>1. CASE x.plan[j] \in ps BY <1>7, <2>2, <3>2, <4>1, <5>1 DEF PrunedWithin
        <5>2. CASE x.plan[j] \notin ps BY <2>1, <3>8, <4>5, <5>2 DEF ps
        <5> QED BY <5>1, <5>2
      <4> QED BY <4>2, <4>3, <4>4, <4>5
    <3> QED BY <3>5, <3>7, <3>8
  <2>10. RunInv(exp, u) BY <1>2, <2>2, <2>3, <2>4, <2>5, <2>8, <2>9, Treeless
  <2> QED BY <1>1, <1>13, <2>10
<1> QED BY <1>10, <1>12, <1>13

(* The search tree of _run_mcts. *)
\* The nodes of a search tree and their untried actions.
Tree(e, C, f) ==
  /\ DOMAIN f \subseteq C
  /\ \A p \in DOMAIN f :
       /\ f[p] \in TreeNodes
       /\ Planned(e, DOMAIN f, p)
       /\ Untried(e, DOMAIN f, p, f[p].untried)

\* The children of a node, and the counts of every node against theirs.
KidsOf(f, p) == {q \in DOMAIN f : Len(q) = Len(p) + 1 /\ SubSeq(q, 1, Len(p)) = p}

Tally(f) ==
  \A p \in DOMAIN f :
    /\ f[p].visits >= Cardinality(Visits(f, KidsOf(f, p)))
    /\ f[p].value <= 3 * f[p].visits

\* Grown, in terms of the tree alone.
LEMMA GrownTree ==
  ASSUME NEW e, NEW x
  PROVE  Grown(e, x) <=>
           /\ Tree(e, x.cache, x.tree)
           /\ x.pc \in {"simulate", "select", "rollout"} => <<>> \in DOMAIN x.tree
           /\ x.pc = "rollout" => x.node \in DOMAIN x.tree /\ x.obs.prefix \in x.cache
BY DEF Grown, Tree

\* Visited, in terms of the tree alone.
LEMMA VisitedTree ==
  ASSUME NEW x
  PROVE  Visited(x) <=>
           /\ x.completed < x.ordinal
           /\ x.tree # NoCandidates => <<>> \in DOMAIN x.tree /\ x.tree[<<>>].visits = x.completed
           /\ x.tree = NoCandidates => x.completed = 0
           /\ Tally(x.tree)
<1>1. \A p : TreeChildren(x, p) = KidsOf(x.tree, p) BY DEF TreeChildren, KidsOf
<1> QED BY <1>1 DEF Visited, Tally, SumVisits

\* Two trees whose nodes have the same visits and values count the same.
LEMMA TallyStays ==
  ASSUME NEW f, NEW g, DOMAIN f = DOMAIN g, Tally(f),
         \A p \in DOMAIN f : g[p].visits = f[p].visits /\ g[p].value = f[p].value
  PROVE  Tally(g)
<1> SUFFICES ASSUME NEW p \in DOMAIN g
             PROVE  /\ g[p].visits >= Cardinality(Visits(g, KidsOf(g, p)))
                    /\ g[p].value <= 3 * g[p].visits BY DEF Tally
<1>1. KidsOf(g, p) = KidsOf(f, p) /\ KidsOf(f, p) \subseteq DOMAIN f BY DEF KidsOf
<1>2. \A q \in KidsOf(f, p) : {<<q, n>> : n \in 1..g[q].visits} = {<<q, n>> : n \in 1..f[q].visits}
  BY <1>1
<1>3. Visits(g, KidsOf(g, p)) = Visits(f, KidsOf(f, p)) BY <1>1, <1>2 DEF Visits
<1> QED BY <1>3 DEF Tally

\* A child is one longer than its parent.
LEMMA AppendLength ==
  ASSUME NEW a \in Seq(Nat), NEW i \in Nat
  PROVE  Len(Append(a, i)) = Len(a) + 1 /\ Len(a) \in Nat
OBVIOUS

\* A child determines its parent and its action.
LEMMA AppendEnds ==
  ASSUME NEW p \in Seq(Nat), NEW q \in Seq(Nat), NEW b \in Nat, NEW c \in Nat,
         Append(p, b) = Append(q, c)
  PROVE  p = q /\ b = c
<1>1. Len(p) \in Nat /\ Len(q) \in Nat /\ Len(Append(p, b)) = Len(p) + 1
      /\ Len(Append(q, c)) = Len(q) + 1 OBVIOUS
<1>2. Len(p) = Len(q) BY <1>1
<1>3. Append(p, b)[Len(p) + 1] = b /\ Append(q, c)[Len(q) + 1] = c OBVIOUS
<1>4. b = c BY <1>2, <1>3
<1>5. PICK r : r = Append(p, b) /\ r = Append(q, c) OBVIOUS
<1>6. \A i \in 1..Len(p) : r[i] = p[i]
  <2>1. r = Append(p, b) BY <1>5
  <2> QED BY ONLY <2>1, p \in Seq(Nat), b \in Nat
<1>7. \A i \in 1..Len(q) : r[i] = q[i]
  <2>1. r = Append(q, c) BY <1>5
  <2> QED BY ONLY <2>1, q \in Seq(Nat), c \in Nat
<1>8. \A i \in 1..Len(p) : p[i] = q[i] BY <1>2, <1>6, <1>7
<1>9. p = [i \in 1..Len(p) |-> p[i]] /\ q = [i \in 1..Len(q) |-> q[i]] OBVIOUS
<1> QED BY <1>2, <1>4, <1>8, <1>9

\* The prefix of a prefix.
LEMMA PrefixOfPrefix ==
  ASSUME NEW s \in Seq(Nat), NEW j \in 0..Len(s), NEW i \in 0..j
  PROVE  SubSeq(SubSeq(s, 1, j), 1, i) = SubSeq(s, 1, i)
<1>1. j \in Nat /\ i \in Nat /\ Len(s) \in Nat /\ i \in 0..Len(s) OBVIOUS
<1>2. PICK r : r = SubSeq(s, 1, j) OBVIOUS
<1>3. r \in Seq(Nat) /\ Len(r) = j /\ \A h \in 1..j : r[h] = s[h] BY <1>2, Shortened
<1>4. PICK a, b : a = SubSeq(r, 1, i) /\ b = SubSeq(s, 1, i) OBVIOUS
<1>5. a \in Seq(Nat) /\ Len(a) = i /\ \A h \in 1..i : a[h] = r[h]
  BY <1>3, <1>4, Shortened
<1>6. b \in Seq(Nat) /\ Len(b) = i /\ \A h \in 1..i : b[h] = s[h]
  BY <1>1, <1>4, Shortened
<1>7. \A h \in 1..i : h \in 1..j BY <1>1
<1>8. \A h \in 1..i : a[h] = b[h] BY <1>3, <1>5, <1>6, <1>7
<1>9. a = [h \in 1..i |-> a[h]] /\ b = [h \in 1..i |-> b[h]] BY <1>5, <1>6
<1>10. a = b BY <1>8, <1>9
<1> QED BY <1>2, <1>4, <1>10

\* The parent is the child without its last action.
LEMMA AppendPrefix ==
  ASSUME NEW a \in Seq(Nat), NEW i \in Nat
  PROVE  SubSeq(Append(a, i), 1, Len(a)) = a
<1>1. PICK r : r = Append(a, i) OBVIOUS
<1>2. Len(a) \in Nat /\ r \in Seq(Nat) /\ Len(r) = Len(a) + 1 /\ \A h \in 1..Len(a) : r[h] = a[h]
  BY <1>1
<1>3. PICK b : b = SubSeq(r, 1, Len(a)) OBVIOUS
<1>4. b \in Seq(Nat) /\ Len(b) = Len(a) /\ \A h \in 1..Len(a) : b[h] = r[h]
  BY <1>2, <1>3, Shortened
<1>5. a = [h \in 1..Len(a) |-> a[h]] /\ b = [h \in 1..Len(a) |-> b[h]] BY <1>4
<1>6. a = b BY <1>2, <1>4, <1>5
<1> QED BY <1>1, <1>3, <1>6

\* q is neither in the tree nor an untried child of one of its nodes.
Apart(f, q) ==
  /\ q \notin DOMAIN f
  /\ \A p \in DOMAIN f : \A i \in 1..Len(f[p].untried) : Append(p, f[p].untried[i]) # q

\* The visits are the same.
SameVisits(f, g) == \A p \in DOMAIN f : g[p].visits = f[p].visits

\* An untried action is popped.
LEMMA TreePops ==
  ASSUME NEW e, NEW C, NEW f, Tree(e, C, f), Tally(f), NEW n \in DOMAIN f, f[n].untried # <<>>,
         \A p \in DOMAIN f : p \in Seq(Nat)
  PROVE  LET g == [f EXCEPT ![n].untried = Tail(@)]
             q == Append(n, f[n].untried[1]) IN
         /\ Tree(e, C, g) /\ Tally(g) /\ DOMAIN g = DOMAIN f
         /\ SameVisits(f, g) /\ Apart(g, q)
<1> DEFINE s == f[n].untried
           g == [f EXCEPT ![n].untried = Tail(@)]
           q == Append(n, s[1])
<1>1. f[n] \in TreeNodes /\ s \in Seq(Nat) /\ s # <<>> BY DEF Tree, TreeNodes
<1>2. /\ Len(s) \in Nat \ {0} /\ 1 \in 1..Len(s)
      /\ Tail(s) \in Seq(Nat) /\ Len(Tail(s)) = Len(s) - 1
      /\ \A i \in 1..(Len(s) - 1) : Tail(s)[i] = s[i + 1] /\ i + 1 \in 1..Len(s)
  BY <1>1
<1>3. /\ g = [f EXCEPT ![n] = [f[n] EXCEPT !.untried = Tail(s)]]
      /\ DOMAIN g = DOMAIN f OBVIOUS
<1>4. /\ [f[n] EXCEPT !.untried = Tail(s)] \in TreeNodes
      /\ [f[n] EXCEPT !.untried = Tail(s)].untried = Tail(s)
      /\ [f[n] EXCEPT !.untried = Tail(s)].visits = f[n].visits
      /\ [f[n] EXCEPT !.untried = Tail(s)].value = f[n].value
  BY <1>1, <1>2 DEF TreeNodes
<1>5. /\ g[n] \in TreeNodes /\ g[n].untried = Tail(s)
      /\ g[n].visits = f[n].visits /\ g[n].value = f[n].value
      /\ \A p \in DOMAIN f : p # n => g[p] = f[p] BY <1>3, <1>4
<1>6. /\ s[1] \in Branch(e, n) /\ q \notin DOMAIN f
      /\ Untried(e, DOMAIN f, n, Tail(s))
      /\ \A i \in 1..Len(Tail(s)) : Tail(s)[i] # s[1]
  <2>1. Untried(e, DOMAIN f, n, s) BY DEF Tree
  <2> HIDE DEF s
  <2>2. /\ \A i \in 1..Len(Tail(s)) : i + 1 \in 1..Len(s) /\ i + 1 # 1 /\ Tail(s)[i] = s[i + 1]
        /\ \A i, j \in 1..Len(Tail(s)) : i + 1 = j + 1 => i = j BY <1>2
  <2>3. Untried(e, DOMAIN f, n, Tail(s)) /\ \A i \in 1..Len(Tail(s)) : Tail(s)[i] # s[1]
    BY <1>2, <2>1, <2>2 DEF Untried
  <2> QED BY <1>2, <2>1, <2>3 DEF Untried
<1> HIDE DEF g, s, q
<1>7. Tree(e, C, g)
  <2>1. DOMAIN g \subseteq C BY <1>3 DEF Tree
  <2>2. ASSUME NEW p \in DOMAIN g
        PROVE  /\ g[p] \in TreeNodes
               /\ Planned(e, DOMAIN g, p)
               /\ Untried(e, DOMAIN g, p, g[p].untried)
    <3>1. Planned(e, DOMAIN g, p) BY <1>3 DEF Tree
    <3>2. CASE p = n BY <1>3, <1>5, <1>6, <3>1, <3>2
    <3>3. CASE p # n BY <1>3, <1>5, <3>3, <3>1 DEF Tree
    <3> QED BY <3>2, <3>3
  <2> QED BY <2>1, <2>2 DEF Tree
<1>8. Tally(g)
  <2>1. \A p \in DOMAIN f : g[p].visits = f[p].visits /\ g[p].value = f[p].value
    BY <1>5
  <2> QED BY <1>3, <2>1, TallyStays
<1>9. ASSUME NEW p \in DOMAIN g, NEW i \in 1..Len(g[p].untried)
      PROVE  Append(p, g[p].untried[i]) # q
  <2>1. p \in Seq(Nat) /\ n \in Seq(Nat) /\ g[p] \in TreeNodes /\ s[1] \in Nat
    <3>1. g[p] \in TreeNodes BY <1>7 DEF Tree
    <3> QED BY <1>1, <1>2, <1>3, <3>1
  <2>2. g[p].untried[i] \in Nat BY <2>1 DEF TreeNodes
  <2>3. Append(p, g[p].untried[i]) = Append(n, s[1]) => p = n /\ g[p].untried[i] = s[1]
    <3>1. \A a \in Seq(Nat), c \in Seq(Nat), x \in Nat, y \in Nat :
            Append(a, x) = Append(c, y) => a = c /\ x = y BY ONLY AppendEnds
    <3> QED BY ONLY <2>1, <2>2, <3>1
  <2>4. p = n => g[p].untried[i] # s[1] BY <1>5, <1>6
  <2> QED BY <2>3, <2>4 DEF q
<1>10. SameVisits(f, g) BY <1>5 DEF SameVisits
<1>11. Apart(g, q) BY <1>3, <1>6, <1>9 DEF Apart
<1> QED BY <1>3, <1>7, <1>8, <1>10, <1>11 DEF g, q, s

\* Nodes are kept as they are.
NodesKept(f, g) == \A p \in DOMAIN f : g[p] = f[p]

\* A node is added under its parent: it has no visits and no children yet.
LEMMA TreeAdds ==
  ASSUME NEW e \in Experiments, NEW C, NEW g, Tree(e, C, g), Tally(g), \A p \in C : Good(e, p),
         NEW q \in C, Apart(g, q), Planned(e, DOMAIN g, q),
         NEW t \in TreeNodes, t.visits = 0, t.value = 0, Untried(e, {}, q, t.untried)
  PROVE  LET h == Put(g, q, t) IN
         /\ Tree(e, C, h) /\ Tally(h) /\ DOMAIN h = DOMAIN g \cup {q}
         /\ NodesKept(g, h)
<1> DEFINE h == Put(g, q, t)
<1>0. /\ q \notin DOMAIN g
      /\ \A p \in DOMAIN g : \A i \in 1..Len(g[p].untried) : Append(p, g[p].untried[i]) # q
  BY DEF Apart
<1>1. DOMAIN h = DOMAIN g \cup {q} /\ h[q] = t /\ \A p \in DOMAIN g : h[p] = g[p]
  BY <1>0 DEF Put
<1> HIDE DEF h
<1>2. \A p \in C : p \in Seq(Nat) /\ Len(p) \in Nat BY GoodEnds
<1>3. DOMAIN g \subseteq C BY DEF Tree
<1>4. ASSUME NEW b \in Branch(e, q) PROVE Append(q, b) \notin DOMAIN h
  <2>1. q \in Seq(Nat) /\ b \in Nat /\ Append(q, b) \in Seq(Nat) BY <1>2, BranchState
  <2>2. Len(Append(q, b)) = Len(q) + 1 /\ Append(q, b) # <<>> BY <2>1, NoPrefix
  <2>3. Append(q, b) # q BY <1>2, <2>2
  <2>4. ASSUME Append(q, b) \in DOMAIN g PROVE FALSE
    <3>1. Planned(e, DOMAIN g, Append(q, b)) BY <2>4 DEF Tree
    <3>2. PICK a \in DOMAIN g : \E i \in Branch(e, a) : Append(q, b) = Append(a, i)
      BY <2>2, <3>1 DEF Planned
    <3>3. PICK i \in Branch(e, a) : Append(q, b) = Append(a, i) BY <3>2
    <3>4. Good(e, a) BY <1>3
    <3>5. a \in Seq(Nat) /\ i \in Nat BY <3>4, GoodEnds, BranchState
    <3>6. q = a BY <2>1, <3>3, <3>5, AppendEnds
    <3> QED BY <1>0, <3>6
  <2> QED BY <1>1, <2>3, <2>4
<1>5. Tree(e, C, h)
  <2>1. ASSUME NEW p \in DOMAIN h
        PROVE  h[p] \in TreeNodes /\ Planned(e, DOMAIN h, p)
               /\ Untried(e, DOMAIN h, p, h[p].untried)
    <3>1. CASE p = q BY <1>1, <1>4, <3>1, PlannedStays DEF Untried
    <3>2. CASE p # q
      <4>1. p \in DOMAIN g /\ h[p] = g[p] BY <1>1, <3>2
      <4>2. g[p] \in TreeNodes /\ Planned(e, DOMAIN g, p) /\ Untried(e, DOMAIN g, p, g[p].untried)
        BY <4>1 DEF Tree
      <4>3. Planned(e, DOMAIN h, p) BY <1>1, <4>2, PlannedStays
      <4>4. \A i \in 1..Len(g[p].untried) : Append(p, g[p].untried[i]) \notin DOMAIN h
        BY <1>0, <1>1, <4>1, <4>2 DEF Untried
      <4>5. Untried(e, DOMAIN h, p, g[p].untried) BY <4>2, <4>4 DEF Untried
      <4> QED BY <4>1, <4>2, <4>3, <4>5
    <3> QED BY <3>1, <3>2
  <2>2. DOMAIN h \subseteq C BY <1>1, <1>3
  <2> QED BY <2>1, <2>2 DEF Tree
<1>6. Tally(h)
  <2> SUFFICES ASSUME NEW p \in DOMAIN h
               PROVE  /\ h[p].visits >= Cardinality(Visits(h, KidsOf(h, p)))
                      /\ h[p].value <= 3 * h[p].visits BY DEF Tally
  <2>1. CASE p = q
    <3>0. q \in Seq(Nat) /\ Len(q) \in Nat /\ Len(q) + 1 # Len(q) /\ Len(q) + 1 # 0
      BY <1>2
    <3>1. KidsOf(h, q) = {}
      <4> SUFFICES ASSUME NEW r \in DOMAIN h, Len(r) = Len(q) + 1, SubSeq(r, 1, Len(q)) = q
                   PROVE  FALSE BY DEF KidsOf
      <4>1. r \in DOMAIN g BY <1>1, <3>0
      <4>2. Planned(e, DOMAIN g, r) /\ r # <<>> BY <3>0, <4>1 DEF Tree
      <4>3. PICK a \in DOMAIN g : \E i \in Branch(e, a) : r = Append(a, i)
        BY <4>2 DEF Planned
      <4>4. PICK i \in Branch(e, a) : r = Append(a, i) BY <4>3
      <4>5. Good(e, a) BY <1>3
      <4>6. a \in Seq(Nat) /\ i \in Nat BY <4>5, GoodEnds, BranchState
      <4>7. Len(a) = Len(q)
        <5>1. PICK m : m = Len(a) OBVIOUS
        <5>2. m \in Nat /\ Len(r) = m + 1 BY <4>4, <4>6, <5>1, AppendLength
        <5>3. PICK l : l = Len(q) OBVIOUS
        <5>4. l \in Nat /\ Len(r) = l + 1 BY <3>0, <5>3
        <5>5. m + 1 = l + 1 BY <5>2, <5>4
        <5>6. m \in Nat /\ l \in Nat BY <5>2, <5>4
        <5>7. m = l BY ONLY <5>5, <5>6
        <5> QED BY <5>1, <5>3, <5>7
      <4>8. SubSeq(Append(a, i), 1, Len(a)) = a BY <4>6, AppendPrefix
      <4> QED BY <1>0, <4>4, <4>7, <4>8
    <3>2. Visits(h, {}) = {} /\ Cardinality({}) = 0 BY FS_EmptySet DEF Visits
    <3>3. Cardinality(Visits(h, KidsOf(h, p))) = 0 BY <2>1, <3>1, <3>2
    <3>4. h[p].visits = 0 /\ h[p].value = 0 BY <1>1, <2>1
    <3> QED BY <3>3, <3>4
  <2>2. CASE p # q
    <3>1. p \in DOMAIN g /\ h[p] = g[p] BY <1>1, <2>2
    <3>2. KidsOf(g, p) \subseteq KidsOf(h, p) /\ KidsOf(h, p) \subseteq KidsOf(g, p) \cup {q}
          /\ KidsOf(g, p) \subseteq DOMAIN g BY <1>1 DEF KidsOf
    <3>3. \A r \in KidsOf(g, p) : {<<r, m>> : m \in 1..h[r].visits} = {<<r, m>> : m \in 1..g[r].visits}
      BY <1>1, <3>2
    <3>4. {<<q, m>> : m \in 1..h[q].visits} = {} BY <1>1
    <3>5. Visits(h, KidsOf(h, p)) = Visits(g, KidsOf(g, p))
      BY <3>2, <3>3, <3>4 DEF Visits
    <3> QED BY <3>1, <3>5 DEF Tally
  <2> QED BY <2>1, <2>2
<1>7. NodesKept(g, h) BY <1>1 DEF NodesKept
<1> QED BY <1>1, <1>5, <1>6, <1>7 DEF h

\* The image of a finite set is finite.
LEMMA FiniteImage ==
  ASSUME NEW S, IsFiniteSet(S), NEW f
  PROVE  IsFiniteSet({f[s] : s \in S})
<1> DEFINE T == {f[s] : s \in S}
           g == [s \in S |-> f[s]]
<1>1. g \in Surjection(S, T) BY DEF Surjection
<1> HIDE DEF g
<1> HIDE DEF T
<1>2. IsFiniteSet(T) BY <1>1, FS_Surjection
<1> QED BY <1>2 DEF T

\* The visits of finitely many nodes are finitely many.
LEMMA VisitsFinite ==
  ASSUME NEW S, IsFiniteSet(S), NEW f, \A p \in S : f[p].visits \in Nat
  PROVE  IsFiniteSet(Visits(f, S)) /\ Cardinality(Visits(f, S)) \in Nat
<1> DEFINE of == [p \in S |-> {<<p, m>> : m \in 1..f[p].visits}]
           SS == {of[p] : p \in S}
<1>1. Visits(f, S) = UNION SS BY DEF Visits
<1>2. IsFiniteSet(SS)
  <2> HIDE DEF of
  <2> QED BY FiniteImage
<1>3. ASSUME NEW p \in S PROVE IsFiniteSet(of[p])
  <2> DEFINE n == f[p].visits
             counted == [m \in 1..n |-> <<p, m>>]
             T == {counted[m] : m \in 1..n}
  <2>1. n \in Nat OBVIOUS
  <2>2. of[p] = T OBVIOUS
  <2>3. IsFiniteSet(T)
    <3> HIDE DEF n, counted
    <3> QED BY <2>1, FiniteValues
  <2> QED BY <2>2, <2>3
<1>4. \A T \in SS : IsFiniteSet(T) BY <1>3
<1>5. IsFiniteSet(UNION SS)
  <2> HIDE DEF SS
  <2> QED BY <1>2, <1>4, FS_UNION
<1>6. IsFiniteSet(Visits(f, S)) BY <1>1, <1>5
<1> QED BY <1>6, FS_CardinalityType

\* One member at most has one more visit.
OneMore(S, f, h, c) ==
  \A p \in S : \/ h[p].visits = f[p].visits
               \/ p = c /\ h[p].visits = f[p].visits + 1

\* One more visit of one child at most is one more visit of the children.
LEMMA OneMoreVisit ==
  ASSUME NEW S, IsFiniteSet(S), NEW f, \A p \in S : f[p].visits \in Nat, NEW h, NEW c,
         OneMore(S, f, h, c)
  PROVE  Cardinality(Visits(h, S)) <= Cardinality(Visits(f, S)) + 1
<1> DEFINE A == Visits(f, S)
           B == Visits(h, S)
           n == f[c].visits
           one == <<c, n + 1>>
<1>1. IsFiniteSet(A) /\ Cardinality(A) \in Nat BY VisitsFinite
<1>2. ASSUME NEW v \in B PROVE v \in A \cup {one}
  <2>1. PICK p \in S : \E m \in 1..h[p].visits : v = <<p, m>> BY DEF Visits
  <2>2. PICK m \in 1..h[p].visits : v = <<p, m>> BY <2>1
  <2>3. CASE m \in 1..f[p].visits BY <2>2, <2>3 DEF Visits
  <2>4. CASE m \notin 1..f[p].visits BY <2>4, <2>2 DEF OneMore
  <2> QED BY <2>3, <2>4
<1> HIDE DEF A, B, one
<1>3. IsFiniteSet(A \cup {one})
      /\ Cardinality(A \cup {one}) = IF one \in A THEN Cardinality(A) ELSE Cardinality(A) + 1
  BY <1>1, FS_AddElement
<1>4. Cardinality(B) <= Cardinality(A \cup {one}) BY <1>2, <1>3, FS_Subset
<1>5. IsFiniteSet(B) /\ Cardinality(B) \in Nat
  BY <1>2, <1>3, FS_Subset, FS_CardinalityType
<1> QED BY <1>1, <1>3, <1>4, <1>5 DEF A, B

\* The nodes of a path are prefixes of one another, so a node has one child on it at most.
LEMMA PathKids ==
  ASSUME NEW n \in Seq(Nat), NEW p, NEW q, Len(p) \in Nat, Len(q) = Len(p) + 1,
         SubSeq(q, 1, Len(p)) = p, q \in PathTo(n)
  PROVE  p \in PathTo(n) /\ q = SubSeq(n, 1, Len(p) + 1)
<1>1. PICK j \in 0..Len(n) : q = SubSeq(n, 1, j) BY DEF PathTo
<1>2. j \in Nat /\ Len(n) \in Nat OBVIOUS
<1>3. Len(q) = j BY <1>1, Shortened
<1>4. j = Len(p) + 1 /\ Len(p) \in 0..j /\ Len(p) \in 0..Len(n) BY <1>2, <1>3
<1>5. SubSeq(q, 1, Len(p)) = SubSeq(n, 1, Len(p)) BY <1>1, <1>4, PrefixOfPrefix
<1>6. p = SubSeq(n, 1, Len(p)) BY <1>5
<1> QED BY <1>1, <1>4, <1>6 DEF PathTo

\* A rewarded node has one more visit and the reward more value.
LEMMA CountedNode ==
  ASSUME NEW t \in TreeNodes, NEW r \in Int
  PROVE  LET u == [t EXCEPT !.visits = @ + 1, !.value = @ + r] IN
         /\ u \in TreeNodes /\ u.untried = t.untried
         /\ u.visits = t.visits + 1 /\ u.value = t.value + r
         /\ t.visits \in Nat /\ t.value \in Int
<1>1. /\ t = [untried |-> t.untried, visits |-> t.visits, value |-> t.value, dup |-> t.dup]
      /\ t.untried \in Seq(Nat) /\ t.visits \in Nat /\ t.value \in Int /\ t.dup \in BOOLEAN
  BY DEF TreeNodes
<1> DEFINE u == [t EXCEPT !.visits = t.visits + 1, !.value = t.value + r]
<1>2. DOMAIN t = {"untried", "visits", "value", "dup"} BY <1>1
<1>3. u.visits = t.visits + 1 BY <1>2
<1>4. u.value = t.value + r BY <1>2
<1>5. u.untried = t.untried /\ u.dup = t.dup BY <1>2
<1>6. t.visits + 1 \in Nat /\ t.value + r \in Int BY <1>1
<1> DEFINE a == [t EXCEPT !.visits = t.visits + 1]
<1>7. a \in TreeNodes BY <1>6 DEF TreeNodes
<1>8. u \in TreeNodes
  <2>1. u = [a EXCEPT !.value = t.value + r] BY <1>2
  <2> HIDE DEF a, u
  <2> QED BY <1>6, <1>7, <2>1 DEF TreeNodes
<1> QED BY <1>1, <1>3, <1>4, <1>5, <1>8 DEF u

\* A reward is counted on every node of the path.
LEMMA TreeCounts ==
  ASSUME NEW e, NEW C, NEW f, Tree(e, C, f), Tally(f), IsFiniteSet(C), \A p \in C : p \in Seq(Nat),
         NEW n \in Seq(Nat), NEW r \in Int, r <= 3
  PROVE  LET h == [p \in DOMAIN f |->
                     IF p \in PathTo(n)
                     THEN Rewarded(f[p], r) ELSE f[p]] IN
         /\ Tree(e, C, h) /\ Tally(h) /\ DOMAIN h = DOMAIN f
         /\ <<>> \in DOMAIN f => h[<<>>].visits = f[<<>>].visits + 1
<1> DEFINE h == [p \in DOMAIN f |->
                   IF p \in PathTo(n)
                   THEN Rewarded(f[p], r) ELSE f[p]]
<1>1. \A p \in DOMAIN f : f[p] \in TreeNodes /\ p \in Seq(Nat) BY DEF Tree
<1>3. /\ DOMAIN h = DOMAIN f
      /\ \A p \in DOMAIN f : p \in PathTo(n) => h[p] = Rewarded(f[p], r)
      /\ \A p \in DOMAIN f : p \notin PathTo(n) => h[p] = f[p] OBVIOUS
<1> HIDE DEF h
<1>4. ASSUME NEW p \in DOMAIN f
      PROVE  /\ h[p] \in TreeNodes /\ h[p].untried = f[p].untried
             /\ p \in PathTo(n) => h[p].visits = f[p].visits + 1 /\ h[p].value = f[p].value + r
             /\ p \notin PathTo(n) => h[p].visits = f[p].visits /\ h[p].value = f[p].value
             /\ f[p].visits \in Nat /\ f[p].value \in Int
  <2>1. PICK t \in TreeNodes : t = f[p] BY <1>1
  <2>2. CASE p \in PathTo(n)
    <3>1. h[p] = [t EXCEPT !.visits = @ + 1, !.value = @ + r]
      BY <1>3, <2>1, <2>2 DEF Rewarded
    <3> DEFINE u == [t EXCEPT !.visits = t.visits + 1, !.value = t.value + r]
    <3>2. /\ u \in TreeNodes /\ u.untried = t.untried
          /\ u.visits = t.visits + 1 /\ u.value = t.value + r
          /\ t.visits \in Nat /\ t.value \in Int BY CountedNode
    <3>3. h[p] = u BY <3>1
    <3> HIDE DEF u
    <3> QED BY <2>1, <2>2, <3>2, <3>3
  <2>3. CASE p \notin PathTo(n) BY <1>3, <2>1, <2>3 DEF TreeNodes
  <2> QED BY <2>2, <2>3
<1>5. Tree(e, C, h) BY <1>3, <1>4 DEF Tree
<1>6. Tally(h)
  <2> SUFFICES ASSUME NEW p \in DOMAIN f
               PROVE  /\ h[p].visits >= Cardinality(Visits(h, KidsOf(h, p)))
                      /\ h[p].value <= 3 * h[p].visits BY <1>3 DEF Tally
  <2> DEFINE K == KidsOf(f, p)
  <2>1. KidsOf(h, p) = K BY <1>3 DEF KidsOf
  <2>2. K \subseteq DOMAIN f /\ \A q \in K : Len(q) = Len(p) + 1 /\ SubSeq(q, 1, Len(p)) = p
    BY DEF KidsOf
  <2>3. IsFiniteSet(K)
    <3>1. K \subseteq C BY <2>2 DEF Tree
    <3> HIDE DEF K
    <3> QED BY <3>1, FS_Subset
  <2>4. /\ f[p].visits >= Cardinality(Visits(f, K)) /\ f[p].value <= 3 * f[p].visits
    BY DEF Tally
  <2> HIDE DEF K
  <2>5. Len(p) \in Nat BY <1>1
  <2>6. \A q \in K : q \in PathTo(n) => p \in PathTo(n) /\ q = SubSeq(n, 1, Len(p) + 1)
    BY <2>2, <2>5, PathKids
  <2>7. /\ \A q \in K : f[q].visits \in Nat
        /\ Cardinality(Visits(f, K)) \in Nat BY <1>4, <2>2, <2>3, VisitsFinite
  <2>8. CASE p \in PathTo(n)
    <3> DEFINE c == SubSeq(n, 1, Len(p) + 1)
    <3>1. OneMore(K, f, h, c) BY <1>4, <2>2, <2>6 DEF OneMore
    <3> HIDE DEF c
    <3>2. Cardinality(Visits(h, K)) <= Cardinality(Visits(f, K)) + 1
      BY <2>3, <2>7, <3>1, OneMoreVisit
    <3>3. Cardinality(Visits(h, K)) \in Nat
      <4>1. \A q \in K : h[q].visits \in Nat
        BY <1>4, <2>2, <2>7, <3>1, SMTT(30) DEF OneMore
      <4> QED BY <2>3, <4>1, VisitsFinite
    <3>4. h[p].visits = f[p].visits + 1 /\ h[p].value = f[p].value + r
          /\ f[p].visits \in Nat /\ f[p].value \in Int BY <1>4, <2>8
    <3>5. h[p].visits >= Cardinality(Visits(h, K)) BY <2>4, <2>7, <3>2, <3>3, <3>4
    <3>6. h[p].value <= 3 * h[p].visits BY <2>4, <3>4
    <3> QED BY <2>1, <3>5, <3>6
  <2>9. CASE p \notin PathTo(n)
    <3>1. \A q \in K : h[q].visits = f[q].visits BY <1>4, <2>2, <2>6, <2>9
    <3>2. \A q \in K : {<<q, m>> : m \in 1..h[q].visits} = {<<q, m>> : m \in 1..f[q].visits}
      BY <3>1
    <3>3. Visits(h, K) = Visits(f, K) BY <3>2 DEF Visits
    <3>4. h[p].visits = f[p].visits /\ h[p].value = f[p].value BY <1>4, <2>9
    <3> QED BY <2>1, <2>4, <3>3, <3>4
  <2> QED BY <2>8, <2>9
<1>7. <<>> \in PathTo(n) BY DEF PathTo
<1> QED BY <1>3, <1>4, <1>5, <1>6, <1>7 DEF h

(* _run_mcts *)
\* The fields of a simulation say nothing about what has been observed.
LEMMA TreeFrame ==
  ASSUME NEW e, NEW x, NEW y, Core(e, x), y.ordinal \in Nat, y.completed \in Nat,
         y.obs \in Observation,
         Only(x, y, {"pc", "updates", "pending", "tree", "node", "ordinal", "completed", "obs"})
  PROVE  Core(e, y)
<1>1. /\ y.nodes = x.nodes /\ y.replays = x.replays /\ y.hits = x.hits /\ y.dups = x.dups
      /\ y.reason = x.reason
      /\ y.termination = x.termination /\ y.routes = x.routes /\ y.failures = x.failures
      /\ y.candidates = x.candidates /\ y.cache = x.cache /\ y.seen = x.seen
      /\ y.depth = x.depth /\ y.prefetched = x.prefetched /\ DOMAIN y = Fields
  BY DEF Only, Fields
<1>2. Typed(y) BY <1>1 DEF Core, Typed
<1>3. Cached(e, y) /\ Counted(e, y) /\ Recorded(e, y)
  BY <1>1 DEF Core, Cached, Counted, Recorded
<1> QED BY <1>2, <1>3 DEF Core

\* What makes a tree search correct between two steps.
LEMMA MctsState ==
  ASSUME NEW e \in Experiments, NEW z, Core(e, z), e.mode = "mcts",
         z.pc \in {"simulate", "select", "rollout", "done"}, Room(e, z, 0),
         z.pc = "select" => Room(e, z, 1), Grown(e, z), Visited(z)
  PROVE  RunInv(e, z)
<1>1. Limited(e, z) /\ Stacked(e, z) /\ Layered(e, z) BY DEF Limited, Stacked, Layered
<1>2. StagesOf(e, z) /\ CoverageKept(e, z) BY DEF StagesOf, Stages, CoverageKept
<1> QED BY <1>1, <1>2 DEF RunInv

\* The fields of a tree search between two steps.
LEMMA MctsFields ==
  ASSUME NEW e \in Experiments, NEW x, RunInv(e, x), x.pc \in {"mcts", "simulate", "select", "rollout"}
  PROVE  /\ Core(e, x) /\ DOMAIN x = Fields /\ e.mode = "mcts"
         /\ x.nodes \in Nat /\ x.replays \in Nat /\ x.ordinal \in Nat /\ x.completed \in Nat
         /\ x.obs \in Observation /\ x.obs.ok \in BOOLEAN /\ x.termination \in Reasons
         /\ x.completed < x.ordinal /\ Room(e, x, 0)
         /\ IsFiniteSet(x.cache) /\ \A p \in x.cache : Good(e, p)
         /\ Tree(e, x.cache, x.tree) /\ Tally(x.tree)
         /\ x.pc # "mcts" => /\ <<>> \in DOMAIN x.tree /\ x.tree # NoCandidates
                             /\ x.tree[<<>>].visits = x.completed
         /\ x.pc = "mcts" => x.cache = {} /\ x.tree = NoCandidates /\ x.completed = 0
<1>1. e.mode = "mcts" BY ModeOf DEF RunInv
<1>2. /\ Core(e, x) /\ DOMAIN x = Fields
      /\ x.nodes \in Nat /\ x.replays \in Nat /\ x.ordinal \in Nat /\ x.completed \in Nat
      /\ x.obs \in Observation /\ x.obs.ok \in BOOLEAN /\ x.termination \in Reasons
  BY DEF RunInv, Core, Typed, Observation
<1>3. IsFiniteSet(x.cache) /\ \A p \in x.cache : Good(e, p) BY <1>2 DEF Core, Cached
<1>4. Tree(e, x.cache, x.tree) /\ (x.pc # "mcts" => <<>> \in DOMAIN x.tree)
  BY GrownTree DEF RunInv
<1>5. /\ x.completed < x.ordinal /\ Tally(x.tree)
      /\ x.tree # NoCandidates => x.tree[<<>>].visits = x.completed
      /\ x.tree = NoCandidates => x.completed = 0 BY VisitedTree DEF RunInv
<1>6. x.pc = "mcts" => x.cache = {} /\ x.tree = NoCandidates BY DEF RunInv, StagesOf
<1>7. x.pc # "mcts" => x.tree # NoCandidates BY <1>4 DEF NoCandidates
<1> QED BY <1>1, <1>2, <1>3, <1>4, <1>5, <1>6, <1>7 DEF RunInv, Limited

\* A new node has every action untried and no visits.
LEMMA FreshNode ==
  ASSUME exp \in Experiments, NEW y, y.obs \in Observation, Good(exp, y.obs.prefix)
  PROVE  /\ TreeNode(y) \in TreeNodes /\ TreeNode(y).visits = 0 /\ TreeNode(y).value = 0
         /\ Untried(exp, {}, y.obs.prefix, TreeNode(y).untried)
<1> DEFINE p == y.obs.prefix
<1>1. /\ Branch(exp, p) = 1..Len(Children(p)) /\ Len(Actions(p)) = Len(Children(p))
      /\ Actions(p) \in Seq(Nat) /\ \A i \in 1..Len(Actions(p)) : Actions(p)[i] = i
  BY ChildrenOf
<1>2. y.obs.dup \in BOOLEAN BY DEF Observation
<1>3. Untried(exp, {}, p, Actions(p)) BY <1>1 DEF Untried
<1> QED BY <1>1, <1>2, <1>3 DEF TreeNode, TreeNodes

\* A tree within the cache stays within a larger one.
LEMMA TreeWiden ==
  ASSUME NEW e, NEW C, NEW D, NEW f, Tree(e, C, f), C \subseteq D
  PROVE  Tree(e, D, f)
BY DEF Tree

\* A hard stop leaves the tree as it is.
LEMMA HardStopKeeps ==
  ASSUME NEW e \in Experiments, NEW x, RunInv(e, x), NEW r \in Reasons, r # "exhausted"
  PROVE  RunInv(e, HardStop(x, r)) /\ RunInv(e, Stop(x, r))
<1> DEFINE y == HardStop(x, r)
           z == Stop(x, r)
<1>1. DOMAIN x = Fields BY DEF RunInv, Core, Typed
<1>2. Only(x, y, {"pc", "termination", "updates"}) /\ y.pc = "done" /\ y.termination = r
  BY <1>1 DEF HardStop, Stop, Log, Only, Fields
<1>3. Only(x, z, {"pc", "termination", "updates"}) /\ z.pc = "done" /\ z.termination = r
  BY <1>1 DEF Stop, Only, Fields
<1> HIDE DEF y, z
<1>4. RunInv(e, y) BY <1>2, StopKeeps
<1>5. RunInv(e, z) BY <1>3, StopKeeps
<1> QED BY <1>4, <1>5 DEF y, z

\* A discarded simulation is logged and not counted.
LEMMA DiscardKeeps ==
  ASSUME NEW e \in Experiments, NEW y, Core(e, y), e.mode = "mcts", Room(e, y, 0),
         Tree(e, y.cache, y.tree), Tally(y.tree), <<>> \in DOMAIN y.tree,
         y.tree[<<>>].visits = y.completed, y.completed < y.ordinal, NEW status
  PROVE  RunInv(e, Discard(y, status))
<1> DEFINE u == Discard(y, status)
<1>1. DOMAIN y = Fields /\ y.ordinal \in Nat /\ y.completed \in Nat /\ y.obs \in Observation
  BY DEF Core, Typed
<1>2. Only(y, u, {"pc", "updates", "ordinal"}) /\ u.pc = "simulate" /\ u.ordinal = y.ordinal + 1
  BY <1>1 DEF Discard, Log, Only, Fields
<1> HIDE DEF u
<1>3. /\ u.completed = y.completed /\ u.tree = y.tree /\ u.cache = y.cache /\ u.obs = y.obs
      /\ u.nodes = y.nodes /\ u.replays = y.replays BY <1>2 DEF Only, Fields
<1>4. Core(e, u) BY <1>2, <1>1, <1>3, TreeFrame DEF Only
<1>5. Room(e, u, 0) BY <1>3 DEF Room
<1>6. Grown(e, u) BY <1>2, <1>3, GrownTree
<1>7. Visited(u) BY <1>1, <1>2, <1>3, VisitedTree DEF NoCandidates
<1>8. RunInv(e, u) BY <1>2, <1>4, <1>5, <1>6, <1>7, MctsState
<1> QED BY <1>8 DEF u

\* The root of the tree is replayed and added, or the run is raised.
LEMMA MctsRoots ==
  ASSUME exp \in Experiments, NEW x, RunInv(exp, x), x.pc = "mcts", Room(exp, x, 1)
  PROVE  LET y == ReplayPrefix(x, <<>>)
             z == [y EXCEPT !.pc = "simulate", !.tree = Put(@, <<>>, TreeNode(y))]
         IN  RunInv(exp, IF y.pc = "raised" THEN y ELSE [z EXCEPT !.pending = <<>>])
<1> DEFINE y == ReplayPrefix(x, <<>>)
           t == TreeNode(y)
           f == Put(y.tree, <<>>, t)
           z == [y EXCEPT !.pc = "simulate", !.tree = f]
           u == [z EXCEPT !.pending = <<>>]
<1>1. /\ Core(exp, x) /\ DOMAIN x = Fields /\ exp.mode = "mcts" /\ x.tree = NoCandidates
      /\ x.completed = 0 /\ x.ordinal \in Nat /\ x.completed < x.ordinal
      /\ x.nodes \in Nat /\ x.replays \in Nat /\ x.cache = {} BY MctsFields
<1>2. Planned(exp, x.cache, <<>>) BY DEF Planned
<1>3. /\ Core(exp, y)
      /\ \/ Only(x, y, {"pc"}) /\ y.pc = "raised"
         \/ Replayed(exp, x, y, <<>>) BY <1>1, <1>2, ReplayKeeps
<1> HIDE DEF y
<1>4. DOMAIN y = Fields /\ y.obs.ok \in BOOLEAN /\ y.obs \in Observation
      /\ y.nodes \in Nat /\ y.replays \in Nat BY <1>3 DEF Core, Typed, Observation
<1>5. CASE Only(x, y, {"pc"}) /\ y.pc = "raised" BY <1>5, RaisedRoot DEF y
<1>6. CASE Replayed(exp, x, y, <<>>)
  <2>1. y.pc = x.pc /\ y.tree = NoCandidates /\ y.completed = 0 /\ y.ordinal = x.ordinal
    <3>1. y.pc = x.pc /\ y.tree = x.tree /\ y.completed = x.completed /\ y.ordinal = x.ordinal
      BY <1>6 DEF Replayed, Only, Fields, ReplayFields, CommitFields, FailureFields
    <3> QED BY <1>1, <3>1
  <2>2. y.obs.ok /\ y.cache = {<<>>} /\ y.obs.prefix = <<>>
    BY <1>1, <1>4, <1>6 DEF Replayed
  <2>3. Room(exp, y, 0) BY <1>6, <1>1, <1>4, RoomAfter DEF Replayed
  <2>4. Good(exp, <<>>) /\ \A p \in y.cache : Good(exp, p)
    BY <1>3, <2>2 DEF Core, Cached
  <2>5. /\ t \in TreeNodes /\ t.visits = 0 /\ t.value = 0 /\ Untried(exp, {}, <<>>, t.untried)
    BY <1>4, <2>2, <2>4, FreshNode
  <2> HIDE DEF t
  <2>6. /\ Tree(exp, y.cache, f) /\ Tally(f) /\ DOMAIN f = {<<>>} /\ f[<<>>] = t
    <3> DEFINE g == NoCandidates
    <3>1. DOMAIN g = {} BY DEF NoCandidates
    <3>2. Tree(exp, y.cache, g) /\ Tally(g) BY <3>1 DEF Tree, Tally
    <3>3. Planned(exp, DOMAIN g, <<>>) /\ Apart(g, <<>>) BY <3>1 DEF Planned, Apart
    <3>4. f = Put(g, <<>>, t) /\ <<>> \in y.cache BY <2>1, <2>2
    <3> HIDE DEF f, g
    <3>5. Tree(exp, y.cache, f) /\ Tally(f)
      BY <2>4, <2>5, <3>1, <3>2, <3>3, <3>4, TreeAdds
    <3>6. DOMAIN f = {<<>>} /\ f[<<>>] = t BY <3>1, <3>4 DEF Put
    <3> QED BY <3>5, <3>6
  <2> HIDE DEF f
  <2>7. Only(y, u, {"pc", "tree", "pending"}) /\ u.pc = "simulate" /\ u.tree = f
    <3>1. Only(y, z, {"pc", "tree"}) /\ z.pc = "simulate" /\ z.tree = f /\ DOMAIN z = Fields
      BY <1>4 DEF Only, Fields
    <3> HIDE DEF z
    <3> QED BY <3>1 DEF Only, Fields
  <2> HIDE DEF u
  <2>8. /\ u.completed = 0 /\ u.ordinal = x.ordinal /\ u.cache = y.cache /\ u.obs = y.obs
        /\ u.nodes = y.nodes /\ u.replays = y.replays BY <2>7, <2>1 DEF Only, Fields
  <2>9. Core(exp, u) BY <1>1, <1>4, <1>3, <2>7, <2>8, TreeFrame DEF Only
  <2>10. Room(exp, u, 0) BY <2>3, <2>8 DEF Room
  <2>11. Grown(exp, u) BY <2>6, <2>7, <2>8, GrownTree
  <2>12. Visited(u) BY <1>1, <2>6, <2>7, <2>5, <2>8, VisitedTree DEF NoCandidates
  <2>13. RunInv(exp, u) BY <1>1, <2>7, <2>9, <2>10, <2>11, <2>12, MctsState
  <2>14. y.pc # "raised" BY <2>1
  <2> QED BY <2>13, <2>14 DEF u, z, f, t, y
<1> QED BY <1>3, <1>5, <1>6

\* A step of the walk changes nothing but where the simulation stands.
LEMMA WalkKeeps ==
  ASSUME NEW e \in Experiments, NEW x, RunInv(e, x), x.pc \in {"simulate", "select"}, NEW y,
         Only(x, y, {"pc", "node"}), y.pc = "select", x.pc = "select" \/ Room(e, x, 1)
  PROVE  RunInv(e, y)
<1>1. /\ Core(e, x) /\ e.mode = "mcts" /\ x.ordinal \in Nat /\ x.completed \in Nat
      /\ x.obs \in Observation /\ x.completed < x.ordinal /\ Room(e, x, 0)
      /\ Tree(e, x.cache, x.tree) /\ Tally(x.tree)
      /\ <<>> \in DOMAIN x.tree /\ x.tree # NoCandidates /\ x.tree[<<>>].visits = x.completed
  BY MctsFields
<1>2. /\ y.completed = x.completed /\ y.ordinal = x.ordinal /\ y.tree = x.tree
      /\ y.cache = x.cache /\ y.obs = x.obs /\ y.nodes = x.nodes /\ y.replays = x.replays
  BY DEF Only, Fields
<1>3. Core(e, y) BY <1>1, <1>2, TreeFrame DEF Only
<1>4. Room(e, x, 1) BY DEF RunInv, Limited
<1>5. Room(e, y, 0) /\ Room(e, y, 1) BY <1>1, <1>2, <1>4 DEF Room
<1>6. Grown(e, y) BY <1>1, <1>2, GrownTree
<1>7. Visited(y) BY <1>1, <1>2, VisitedTree
<1> QED BY <1>1, <1>3, <1>5, <1>6, <1>7, MctsState

\* The walk ends on a node of the tree, whose observation ends the rollout's prefix.
LEMMA WalkedKeeps ==
  ASSUME NEW e \in Experiments, NEW x, RunInv(e, x), x.pc = "select", x.node \in DOMAIN x.tree
  PROVE  RunInv(e, [x EXCEPT !.pc = "rollout",
                             !.obs = [prefix |-> x.node, ok |-> TRUE,
                                      dup |-> x.tree[x.node].dup]])
<1> DEFINE o == [prefix |-> x.node, ok |-> TRUE, dup |-> x.tree[x.node].dup]
           y == [x EXCEPT !.pc = "rollout", !.obs = o]
<1>1. /\ Core(e, x) /\ e.mode = "mcts" /\ x.ordinal \in Nat /\ x.completed \in Nat
      /\ x.obs \in Observation /\ x.completed < x.ordinal /\ Room(e, x, 0)
      /\ Tree(e, x.cache, x.tree) /\ Tally(x.tree) /\ DOMAIN x = Fields
      /\ <<>> \in DOMAIN x.tree /\ x.tree # NoCandidates /\ x.tree[<<>>].visits = x.completed
      /\ \A p \in x.cache : Good(e, p) BY MctsFields
<1>2. x.node \in x.cache /\ x.tree[x.node] \in TreeNodes BY <1>1 DEF Tree
<1>3. o \in Observation /\ o.prefix = x.node
  BY <1>1, <1>2, GoodEnds DEF TreeNodes, Observation
<1> HIDE DEF o
<1>4. Only(x, y, {"pc", "obs"}) /\ y.pc = "rollout" /\ y.obs = o
  BY <1>1 DEF Only, Fields
<1> HIDE DEF y
<1>5. /\ y.completed = x.completed /\ y.ordinal = x.ordinal /\ y.tree = x.tree
      /\ y.cache = x.cache /\ y.node = x.node /\ y.nodes = x.nodes /\ y.replays = x.replays
  BY <1>4 DEF Only, Fields
<1>6. Core(e, y) BY <1>4, <1>1, <1>3, <1>5, TreeFrame DEF Only
<1>7. Room(e, y, 0) BY <1>1, <1>5 DEF Room
<1>8. Grown(e, y) BY <1>1, <1>2, <1>3, <1>4, <1>5, GrownTree
<1>9. Visited(y) BY <1>1, <1>5, VisitedTree
<1>10. RunInv(e, y) BY <1>1, <1>4, <1>6, <1>7, <1>8, <1>9, MctsState
<1> QED BY <1>10 DEF y, o

\* The untried siblings are recorded as candidates before a simulation is cut short.
LEMMA AheadKeeps ==
  ASSUME exp \in Experiments, NEW x, RunInv(exp, x), x.pc = "select", NEW k \in Nat,
         NEW s, Len(s) \in Nat
  PROVE  LET y == Prefetch(k, x, s) IN
         /\ RunInv(exp, y) /\ Only(x, y, {"candidates", "prefetched"})
<1> DEFINE y == Prefetch(k, x, s)
<1>1. /\ Core(exp, x) /\ exp.mode = "mcts" /\ x.ordinal \in Nat /\ x.completed \in Nat
      /\ x.obs \in Observation /\ x.completed < x.ordinal /\ Room(exp, x, 0)
      /\ Tree(exp, x.cache, x.tree) /\ Tally(x.tree)
      /\ <<>> \in DOMAIN x.tree /\ x.tree # NoCandidates /\ x.tree[<<>>].visits = x.completed
  BY MctsFields
<1>2. Core(exp, y) /\ Only(x, y, {"candidates", "prefetched"}) BY <1>1, PrefetchKeeps
<1> HIDE DEF y
<1>3. /\ y.completed = x.completed /\ y.ordinal = x.ordinal /\ y.tree = x.tree /\ y.pc = x.pc
      /\ y.cache = x.cache /\ y.obs = x.obs /\ y.nodes = x.nodes /\ y.replays = x.replays
  BY <1>2 DEF Only, Fields
<1>4. Room(exp, x, 1) BY DEF RunInv, Limited
<1>5. Room(exp, y, 0) /\ Room(exp, y, 1) BY <1>1, <1>3, <1>4 DEF Room
<1>6. Grown(exp, y) BY <1>1, <1>3, GrownTree
<1>7. Visited(y) BY <1>1, <1>3, VisitedTree
<1>8. RunInv(exp, y) BY <1>1, <1>2, <1>3, <1>5, <1>6, <1>7, MctsState
<1> QED BY <1>2, <1>8 DEF y

\* An expansion adds a node, discards the simulation or stops the run.
LEMMA MctsExpands ==
  ASSUME exp \in Experiments, NEW x, RunInv(exp, x), x.pc = "select", x.node \in DOMAIN x.tree,
         x.tree[x.node].untried # <<>>, NEW k \in Nat
  PROVE  LET untried == x.tree[x.node].untried
             ahead == [i \in 1..Len(untried) |-> Append(x.node, untried[i])]
             popped == [Prefetch(k, x, ahead) EXCEPT !.tree[x.node].untried = Tail(@)]
             y == ReplayPrefix(popped, ahead[1])
         IN  /\ RunInv(exp, HardStop(Prefetch(k, x, ahead), "max_seconds"))
             /\ RunInv(exp, IF ~y.obs.ok THEN Discard(y, "path_failure")
                            ELSE [y EXCEPT !.pc = "rollout", !.node = ahead[1],
                                           !.tree = Put(@, ahead[1], TreeNode(y))])
<1> DEFINE n == x.node
           untried == x.tree[n].untried
           ahead == [i \in 1..Len(untried) |-> Append(n, untried[i])]
           w == Prefetch(k, x, ahead)
           popped == [w EXCEPT !.tree[n].untried = Tail(@)]
           q == ahead[1]
           y == ReplayPrefix(popped, q)
           t == TreeNode(y)
           f == Put(y.tree, q, t)
           u == [y EXCEPT !.pc = "rollout", !.node = q, !.tree = f]
<1>1. /\ Core(exp, x) /\ exp.mode = "mcts" /\ x.ordinal \in Nat /\ x.completed \in Nat
      /\ x.obs \in Observation /\ x.completed < x.ordinal /\ Room(exp, x, 0)
      /\ x.nodes \in Nat /\ x.replays \in Nat
      /\ Tree(exp, x.cache, x.tree) /\ Tally(x.tree)
      /\ <<>> \in DOMAIN x.tree /\ x.tree # NoCandidates /\ x.tree[<<>>].visits = x.completed
      /\ \A p \in x.cache : Good(exp, p) BY MctsFields
<1>2. \A p \in DOMAIN x.tree : p \in x.cache /\ p \in Seq(Nat)
  BY <1>1, GoodEnds DEF Tree
<1>3. /\ untried \in Seq(Nat) /\ untried # <<>> /\ Len(untried) \in Nat /\ 1 \in 1..Len(untried)
      /\ untried[1] \in Branch(exp, n) /\ untried[1] \in Nat
  <2>1. x.tree[n] \in TreeNodes /\ Untried(exp, DOMAIN x.tree, n, untried)
    BY <1>1 DEF Tree
  <2>2. untried \in Seq(Nat) /\ untried # <<>> BY <2>1 DEF TreeNodes
  <2> HIDE DEF untried
  <2>3. Len(untried) \in Nat /\ 1 \in 1..Len(untried) /\ untried[1] \in Nat BY <2>2
  <2> QED BY <2>1, <2>2, <2>3 DEF Untried
<1> HIDE DEF untried
<1>4. Len(ahead) = Len(untried) /\ Len(ahead) \in Nat /\ q = Append(n, untried[1])
  BY <1>3
<1>5. RunInv(exp, w) /\ Only(x, w, {"candidates", "prefetched"})
  <2> HIDE DEF ahead
  <2> QED BY <1>4, AheadKeeps
<1> HIDE DEF w
<1>6. RunInv(exp, HardStop(w, "max_seconds"))
  BY <1>5, HardStopKeeps DEF Reasons, HardReasons
<1>7. /\ w.completed = x.completed /\ w.ordinal = x.ordinal /\ w.tree = x.tree /\ w.pc = x.pc
      /\ w.cache = x.cache /\ w.obs = x.obs /\ w.nodes = x.nodes /\ w.replays = x.replays
      /\ DOMAIN w = Fields BY <1>5 DEF Only, Fields
<1> DEFINE g == [x.tree EXCEPT ![n].untried = Tail(@)]
<1>8. /\ Tree(exp, x.cache, g) /\ Tally(g) /\ DOMAIN g = DOMAIN x.tree
      /\ SameVisits(x.tree, g) /\ Apart(g, q)
  <2>1. PICK c, C : c = x.tree /\ C = x.cache OBVIOUS
  <2>2. Tree(exp, C, c) /\ Tally(c) /\ n \in DOMAIN c /\ c[n].untried # <<>>
        /\ \A p \in DOMAIN c : p \in Seq(Nat) BY <1>1, <1>2, <2>1
  <2> DEFINE d == [c EXCEPT ![n].untried = Tail(@)]
             r == Append(n, c[n].untried[1])
  <2>3. Tree(exp, C, d) /\ Tally(d) /\ DOMAIN d = DOMAIN c /\ SameVisits(c, d) /\ Apart(d, r)
    BY <2>2, TreePops
  <2>4. d = g /\ r = q BY <1>4, <2>1 DEF untried
  <2> HIDE DEF d, r, g, q
  <2> QED BY <2>1, <2>3, <2>4
<1>9. Only(w, popped, {"tree"}) /\ popped.tree = g BY <1>7 DEF Only, Fields
<1> HIDE DEF g, popped, untried
<1>10. q # <<>> /\ q \in Seq(Nat) /\ Planned(exp, x.cache, q)
  <2>1. n \in Seq(Nat) /\ n \in x.cache BY <1>2
  <2>2. PICK b : b = untried[1] OBVIOUS
  <2>3. b \in Nat /\ b \in Branch(exp, n) /\ q = Append(n, b) BY <1>3, <1>4, <2>2
  <2> HIDE DEF q
  <2>4. q # <<>> /\ q \in Seq(Nat) BY <2>1, <2>3, NoPrefix
  <2> QED BY <2>1, <2>3, <2>4 DEF Planned
<1> HIDE DEF ahead, q
<1>11. /\ popped.completed = x.completed /\ popped.ordinal = x.ordinal /\ popped.cache = x.cache
       /\ popped.obs = x.obs /\ popped.nodes = x.nodes /\ popped.replays = x.replays
  BY <1>9, <1>7 DEF Only, Fields
<1>12. Core(exp, popped) BY <1>9, <1>5, <1>1, <1>11, TreeFrame DEF Only, RunInv
<1>13. Core(exp, y) /\ Replayed(exp, popped, y, q) BY <1>10, <1>11, <1>12, ReplayKeeps
<1> HIDE DEF y
<1>14. /\ y.tree = g /\ y.completed = x.completed /\ y.ordinal = x.ordinal /\ x.cache \subseteq y.cache
       /\ y.nodes = x.nodes + 1 /\ y.replays <= x.replays + exp.replay_count
       /\ y.obs.prefix = q /\ (y.obs.ok => q \in y.cache)
  <2>1. y.tree = popped.tree /\ y.completed = popped.completed /\ y.ordinal = popped.ordinal
    BY <1>13 DEF Replayed, Only, Fields, ReplayFields, CommitFields, FailureFields
  <2>2. /\ popped.cache \subseteq y.cache /\ y.nodes = popped.nodes + 1
        /\ y.replays <= popped.replays + exp.replay_count
        /\ y.obs.prefix = q /\ (y.obs.ok => q \in y.cache) BY <1>13 DEF Replayed
  <2> QED BY <1>9, <1>11, <2>1, <2>2
<1>15. /\ DOMAIN y = Fields /\ y.nodes \in Nat /\ y.replays \in Nat /\ y.obs \in Observation
       /\ \A p \in y.cache : Good(exp, p) BY <1>13 DEF Core, Typed, Cached
<1>16. Room(exp, y, 0) BY <1>1, <1>14, <1>15, RoomAfter DEF RunInv, Limited
<1>17. Tree(exp, y.cache, g) /\ Tally(g) /\ <<>> \in DOMAIN g /\ g[<<>>].visits = x.completed
  BY <1>1, <1>8, <1>14, TreeWiden DEF SameVisits
<1>18. RunInv(exp, Discard(y, "path_failure"))
  BY <1>1, <1>13, <1>14, <1>16, <1>17, DiscardKeeps
<1>19. ASSUME y.obs.ok PROVE RunInv(exp, u)
  <2>1. q \in y.cache /\ Good(exp, q) BY <1>14, <1>15, <1>19
  <2>2. t \in TreeNodes /\ t.visits = 0 /\ t.value = 0 /\ Untried(exp, {}, q, t.untried)
    BY <1>14, <1>15, <2>1, FreshNode
  <2> HIDE DEF t
  <2>3. Planned(exp, DOMAIN g, q) BY <1>8, <1>3, <1>4 DEF Planned
  <2>4. f = Put(g, q, t) BY <1>14
  <2> HIDE DEF f
  <2>5. /\ Tree(exp, y.cache, f) /\ Tally(f) /\ DOMAIN f = DOMAIN g \cup {q}
        /\ NodesKept(g, f)
    <3>1. PICK C : C = y.cache OBVIOUS
    <3>2. Tree(exp, C, g) /\ Tally(g) /\ Apart(g, q) /\ q \in C /\ \A p \in C : Good(exp, p)
      BY <1>8, <1>15, <1>17, <2>1, <3>1
    <3>3. /\ Tree(exp, C, f) /\ Tally(f) /\ DOMAIN f = DOMAIN g \cup {q}
          /\ NodesKept(g, f)
      <4> DEFINE h == Put(g, q, t)
      <4>1. Tree(exp, C, h) /\ Tally(h) /\ DOMAIN h = DOMAIN g \cup {q} /\ NodesKept(g, h)
        <5> HIDE DEF f
        <5> QED BY <2>2, <2>3, <3>2, TreeAdds, ZenonT(60)
      <4> QED BY <2>4, <4>1
    <3> QED BY <3>1, <3>3
  <2>6. Only(y, u, {"pc", "node", "tree"}) /\ u.pc = "rollout" /\ u.node = q /\ u.tree = f
    BY <1>15 DEF Only, Fields
  <2> HIDE DEF u
  <2>7. /\ u.completed = x.completed /\ u.ordinal = x.ordinal /\ u.cache = y.cache
        /\ u.obs = y.obs /\ u.nodes = y.nodes /\ u.replays = y.replays
    BY <1>14, <2>6 DEF Only, Fields
  <2>8. Core(exp, u) BY <1>1, <1>13, <1>15, <2>6, <2>7, TreeFrame DEF Only
  <2>9. Room(exp, u, 0) BY <1>16, <2>7 DEF Room
  <2>10. Grown(exp, u) BY <1>17, <1>14, <2>5, <2>1, <2>6, <2>7, GrownTree
  <2>11. Visited(u)
    BY <1>17, <1>1, <2>5, <2>6, <2>7, VisitedTree DEF NodesKept, NoCandidates
  <2> QED BY <1>1, <2>6, <2>8, <2>9, <2>10, <2>11, MctsState
<1> QED BY <1>6, <1>18, <1>19 DEF u, f, t, y, q, popped, w, ahead, untried

\* The rollout goes one replay deeper, or the simulation is discarded.
LEMMA MctsRolls ==
  ASSUME exp \in Experiments, NEW x, RunInv(exp, x), x.pc = "rollout",
         ~Boundary(x.obs.prefix, x.obs.dup), Room(exp, x, 1)
  PROVE  LET p == Append(x.obs.prefix, RolloutAction(x.obs.prefix))
             y == ReplayPrefix(x, p)
         IN  RunInv(exp, IF ~y.obs.ok THEN Discard(y, "path_failure") ELSE y)
<1> DEFINE o == x.obs.prefix
           a == RolloutAction(o)
           p == Append(o, a)
           y == ReplayPrefix(x, p)
<1>1. /\ Core(exp, x) /\ exp.mode = "mcts" /\ x.ordinal \in Nat /\ x.completed \in Nat
      /\ x.completed < x.ordinal /\ x.nodes \in Nat /\ x.replays \in Nat
      /\ Tree(exp, x.cache, x.tree) /\ Tally(x.tree)
      /\ <<>> \in DOMAIN x.tree /\ x.tree # NoCandidates /\ x.tree[<<>>].visits = x.completed
      /\ \A q \in x.cache : Good(exp, q) BY MctsFields
<1>2. x.node \in DOMAIN x.tree /\ o \in x.cache BY DEF RunInv, Grown
<1>3. Good(exp, o) /\ o \in Seq(Nat) BY <1>1, <1>2, GoodEnds
<1>4. Actions(o) # <<>> BY DEF Boundary
<1> HIDE DEF o
<1>5. a \in Branch(exp, o) /\ a \in Nat
  <2>1. Branch(exp, o) = 1..Len(Actions(o)) /\ Actions(o) \in Seq(Nat)
    BY <1>3, ChildrenOf
  <2>2. PICK s : s = Actions(o) OBVIOUS
  <2>3. s \in Seq(Nat) /\ s # <<>> /\ Branch(exp, o) = 1..Len(s) BY <1>4, <2>1, <2>2
  <2>4. Len(s) \in Nat /\ Len(s) \in 1..Len(s) /\ 1 \in 1..Len(s) BY <2>3
  <2>5. a = Len(s) \/ a = 1 BY <2>2 DEF RolloutAction
  <2> QED BY <2>3, <2>4, <2>5
<1> HIDE DEF a
<1>6. p # <<>> /\ Planned(exp, x.cache, p) BY <1>2, <1>3, <1>5, NoPrefix DEF Planned
<1> HIDE DEF p
<1>7. Core(exp, y) /\ Replayed(exp, x, y, p) BY <1>1, <1>6, ReplayKeeps
<1> HIDE DEF y
<1>8. /\ y.tree = x.tree /\ y.completed = x.completed /\ y.ordinal = x.ordinal
      /\ y.node = x.node /\ y.pc = x.pc
  BY <1>7 DEF Replayed, Only, Fields, ReplayFields, CommitFields, FailureFields
<1>9. /\ x.cache \subseteq y.cache /\ y.nodes = x.nodes + 1
      /\ y.replays <= x.replays + exp.replay_count
      /\ y.obs.prefix = p /\ (y.obs.ok => p \in y.cache) BY <1>7 DEF Replayed
<1>10. y.nodes \in Nat /\ y.replays \in Nat BY <1>7 DEF Core, Typed
<1>11. Room(exp, y, 0) BY <1>1, <1>9, <1>10, RoomAfter
<1>12. Tree(exp, y.cache, y.tree) BY <1>1, <1>8, <1>9, TreeWiden
<1>13. RunInv(exp, Discard(y, "path_failure"))
  BY <1>1, <1>7, <1>8, <1>11, <1>12, DiscardKeeps
<1>14. ASSUME y.obs.ok PROVE RunInv(exp, y)
  <2>1. Grown(exp, y) BY <1>1, <1>2, <1>8, <1>9, <1>12, <1>14, GrownTree
  <2>2. Visited(y) BY <1>1, <1>8, VisitedTree
  <2> QED BY <1>1, <1>7, <1>8, <1>11, <2>1, <2>2, MctsState
<1> QED BY <1>13, <1>14 DEF y, p, a, o

\* A completed simulation is counted on every node of its path.
LEMMA MctsCounts ==
  ASSUME exp \in Experiments, NEW x, RunInv(exp, x), x.pc = "rollout"
  PROVE  LET y == [Log(Backpropagate(x), Simulation(x, "complete")) EXCEPT
                     !.completed = @ + 1, !.ordinal = @ + 1]
         IN  RunInv(exp, [y EXCEPT !.pc = IF x.termination = "goal_reached" THEN "done"
                                          ELSE "simulate"])
<1> DEFINE b == Backpropagate(x)
           l == Log(b, Simulation(x, "complete"))
           y == [l EXCEPT !.completed = @ + 1, !.ordinal = @ + 1]
           pc == IF x.termination = "goal_reached" THEN "done" ELSE "simulate"
           u == [y EXCEPT !.pc = pc]
           r == Reward(x.obs.prefix)
           f == [p \in DOMAIN x.tree |->
                   IF p \in PathTo(x.node)
                   THEN Rewarded(x.tree[p], r) ELSE x.tree[p]]
<1>1. /\ Core(exp, x) /\ exp.mode = "mcts" /\ x.ordinal \in Nat /\ x.completed \in Nat
      /\ x.completed < x.ordinal /\ Room(exp, x, 0) /\ x.obs \in Observation
      /\ Tree(exp, x.cache, x.tree) /\ Tally(x.tree) /\ DOMAIN x = Fields
      /\ <<>> \in DOMAIN x.tree /\ x.tree # NoCandidates /\ x.tree[<<>>].visits = x.completed
      /\ IsFiniteSet(x.cache) /\ \A q \in x.cache : Good(exp, q) BY MctsFields
<1>2. x.node \in DOMAIN x.tree /\ x.obs.prefix \in x.cache BY DEF RunInv, Grown
<1>3. x.node \in Seq(Nat) /\ \A q \in x.cache : q \in Seq(Nat)
  BY <1>1, <1>2, GoodEnds DEF Tree
<1>4. r \in Int /\ r <= 3
  <2>1. Good(exp, x.obs.prefix) BY <1>1, <1>2
  <2>2. Score(x.obs.prefix) \in Int BY <2>1, PeakExists
  <2> DEFINE bonus == IF Success(x.obs.prefix) THEN 2 ELSE 0
             small == Smaller(Score(x.obs.prefix), 1)
  <2>3. r = bonus + small BY DEF Reward
  <2>4. small \in Int /\ small <= 1 BY <2>2 DEF Smaller
  <2>5. bonus \in 0..2 OBVIOUS
  <2> HIDE DEF bonus, small, r
  <2> QED BY <2>3, <2>4, <2>5
<1> HIDE DEF r
<1>5. /\ Tree(exp, x.cache, f) /\ Tally(f) /\ DOMAIN f = DOMAIN x.tree
      /\ f[<<>>].visits = x.tree[<<>>].visits + 1
  <2>1. PICK c, C : c = x.tree /\ C = x.cache OBVIOUS
  <2> DEFINE h == [p \in DOMAIN c |->
                     IF p \in PathTo(x.node)
                     THEN Rewarded(c[p], r) ELSE c[p]]
  <2>2. Tree(exp, C, c) /\ Tally(c) /\ IsFiniteSet(C) /\ \A p \in C : p \in Seq(Nat)
    BY <1>1, <1>3, <2>1
  <2>3. /\ Tree(exp, C, h) /\ Tally(h) /\ DOMAIN h = DOMAIN c
        /\ <<>> \in DOMAIN c => h[<<>>].visits = c[<<>>].visits + 1
    BY <1>3, <1>4, <2>2, TreeCounts
  <2>4. h = f BY <2>1
  <2> HIDE DEF h, f
  <2> QED BY <1>1, <2>1, <2>3, <2>4
<1>6. b = [x EXCEPT !.tree = f] BY Zenon DEF Backpropagate, r
<1> HIDE DEF f, b
<1>7. Only(x, b, {"tree"}) /\ b.tree = f BY <1>1, <1>6 DEF Only, Fields
<1>8. Only(x, l, {"tree", "updates"}) /\ l.tree = f
  <2>1. DOMAIN b = Fields BY <1>7 DEF Only
  <2>2. Only(b, l, {"updates"}) BY <2>1 DEF Log, Only, Fields
  <2> HIDE DEF l
  <2> QED BY <1>7, <2>2 DEF Only, Fields
<1> HIDE DEF l
<1>9. l.completed = x.completed /\ l.ordinal = x.ordinal /\ DOMAIN l = Fields
  BY <1>8 DEF Only, Fields
<1>10. /\ Only(l, y, {"completed", "ordinal"})
       /\ y.completed = x.completed + 1 /\ y.ordinal = x.ordinal + 1
  BY <1>9 DEF Only, Fields
<1> HIDE DEF y
<1>11. /\ Only(y, u, {"pc"}) /\ u.pc = pc
  <2>1. DOMAIN y = Fields BY <1>10 DEF Only
  <2> HIDE DEF pc
  <2> QED BY <2>1 DEF Only, Fields
<1>12. pc \in {"done", "simulate"} OBVIOUS
<1> HIDE DEF u, pc
<1>13. Only(x, u, {"pc", "updates", "tree", "ordinal", "completed"})
  BY <1>8, <1>10, <1>11 DEF Only
<1>14. u.tree = f /\ u.completed = x.completed + 1 /\ u.ordinal = x.ordinal + 1
  BY <1>11, <1>10, <1>8 DEF Only, Fields
<1>15. /\ u.cache = x.cache /\ u.obs = x.obs /\ u.nodes = x.nodes /\ u.replays = x.replays
  BY <1>13 DEF Only, Fields
<1>16. Core(exp, u) BY <1>13, <1>1, <1>14, <1>15, TreeFrame DEF Only
<1>17. Room(exp, u, 0) BY <1>1, <1>15 DEF Room
<1>18. Grown(exp, u) BY <1>1, <1>5, <1>11, <1>12, <1>14, <1>15, GrownTree
<1>19. Visited(u) BY <1>1, <1>5, <1>14, VisitedTree DEF NoCandidates
<1>20. RunInv(exp, u) BY <1>1, <1>11, <1>12, <1>16, <1>17, <1>18, <1>19, MctsState
<1> QED BY <1>20 DEF u, pc, y, l, b

(* The steps *)
\* What a step of one pool does: it leaves that run correct and the others alone.
Moves(k) == \E z : rt' = [rt EXCEPT ![k] = z] /\ RunInv(exp, z)

\* A pool is a natural number, and so is every use of it as a pool size.
LEMMA PoolNat == \A k \in Pools : k \in Nat
BY PoolsAssumption

\* The reason a hard budget gives: none with room for one more replay, or a hard reason.
LEMMA HardReason ==
  ASSUME exp \in Experiments, NEW x, RunInv(exp, x), NEW late \in Late
  PROVE  /\ HardBudgetReason(x, late) = "none" => Room(exp, x, 1)
         /\ HardBudgetReason(x, late) # "none" =>
              HardBudgetReason(x, late) \in Reasons /\ HardBudgetReason(x, late) # "exhausted"
<1>1. x.nodes \in Nat /\ x.replays \in Nat BY DEF RunInv, Core, Typed
<1>2. late \in BOOLEAN BY LateBoolean
<1>3. HardBudgetReason(x, late) \in HardReasons \cup {"none"}
  BY <1>1, <1>2, BudgetReason
<1> QED BY <1>1, <1>2, <1>3, BudgetReason DEF HardReasons, Reasons

\* A run that ends without changing its termination keeps the invariant when what it
\* knows of its coverage is a verdict already.
LEMMA EndKeeps ==
  ASSUME NEW e \in Experiments, NEW x, RunInv(e, x),
         (x.pc = "depth_first" /\ x.pending = <<>>) \/ x.pc = "simulate"
  PROVE  RunInv(e, [x EXCEPT !.pc = "done"])
<1> DEFINE y == [x EXCEPT !.pc = "done"]
<1>1. DOMAIN x = Fields /\ x.termination \in Reasons BY DEF RunInv, Core, Typed
<1>2. Only(x, y, {"pc", "termination", "updates"}) /\ y.pc = "done"
      /\ y.termination = x.termination BY <1>1 DEF Only, Fields
<1>3. x.pc = "simulate" => e.mode = "mcts" BY ModeOf DEF RunInv
<1>4. ASSUME x.termination = "exhausted", e.mode # "mcts"
      PROVE  <<>> \in x.cache /\ \A p \in x.cache : Settled(e, x, StateAt(e, p))
  <2>1. x.pc = "depth_first" /\ x.pending = <<>> /\ e.mode = "depth_first"
    BY <1>3, <1>4, ModeOf DEF RunInv
  <2>2. <<>> \in x.cache BY <2>1 DEF RunInv, Stacked
  <2> QED BY <1>4, <2>1, <2>2 DEF RunInv, CoverageKept
<1> HIDE DEF y
<1>5. RunInv(e, y) BY <1>1, <1>2, <1>4, StopKeeps
<1> QED BY <1>5 DEF y

\* A run starts correct.
LEMMA InitialRun ==
  ASSUME NEW e \in Experiments
  PROVE  RunInv(e, [InitialRuntime(e.mode) EXCEPT !.pending = <<(<<>>)>>])
<1> DEFINE x == [InitialRuntime(e.mode) EXCEPT !.pending = <<(<<>>)>>]
<1>0. /\ e.mode \in Modes /\ e.replay_count \in Nat \ {0}
      /\ e.max_nodes \in Nat \cup {NoLimit} /\ e.max_replays \in Nat \cup {NoLimit}
  BY GraphFacts
<1>1. /\ DOMAIN x = Fields /\ x.pc = e.mode /\ x.cache = {} /\ x.prefetched = {} /\ x.seen = {}
      /\ x.candidates = NoCandidates /\ x.routes = <<>> /\ x.failures = <<>>
      /\ x.nodes = 0 /\ x.replays = 0 /\ x.hits = 0 /\ x.dups = 0 /\ x.depth = 0
      /\ x.termination = "exhausted" /\ x.pending = <<(<<>>)>> /\ x.reason = "none"
      /\ x.obs = [prefix |-> <<>>, ok |-> FALSE, dup |-> FALSE]
      /\ x.tree = NoCandidates /\ x.ordinal = 1 /\ x.completed = 0
  BY DEF InitialRuntime, Fields
<1> HIDE DEF x
<1>2. DOMAIN NoCandidates = {} BY DEF NoCandidates
<1>3. IsFiniteSet({}) /\ Cardinality({}) = 0 BY FS_EmptySet
<1>4. Typed(x) BY <1>1, <1>2, <1>3 DEF Observation, Reasons, Typed
<1>5. Cached(e, x) /\ Recorded(e, x) BY <1>1, <1>2, <1>3 DEF Cached, Recorded
<1>6. Counted(e, x) BY <1>1, <1>0, <1>3 DEF Counted
<1>7. Limited(e, x)
  <2>1. x.pc \notin {"select", "beam_commit"} BY <1>0, <1>1 DEF Modes
  <2>2. Room(e, x, 0) BY <1>0, <1>1 DEF Room
  <2> QED BY <2>1, <2>2 DEF Limited
<1>8. StagesOf(e, x) BY <1>0, <1>1 DEF StagesOf, Stages, Modes
<1>9. Stacked(e, x) BY <1>1 DEF Stacked, Planned
<1>10. Layered(e, x) BY <1>0, <1>1 DEF Layered, Modes
<1>11. Grown(e, x) BY <1>0, <1>1, <1>2 DEF Grown, Modes
<1>12. Visited(x) BY <1>0, <1>1, <1>2 DEF Visited, Modes
<1>13. CoverageKept(e, x) BY <1>0, <1>1 DEF CoverageKept, Modes
<1>14. RunInv(e, x)
  BY <1>4, <1>5, <1>6, <1>7, <1>8, <1>9, <1>10, <1>11, <1>12, <1>13 DEF RunInv, Core
<1> QED BY <1>14 DEF x

\* Every run of every pool starts correct.
LEMMA SearchInit == Init => SearchInv
<1> SUFFICES ASSUME Init PROVE SearchInv OBVIOUS
<1>1. exp \in Experiments /\ DOMAIN rt = Pools BY DEF Init
<1>2. \A k \in Pools : rt[k] = [InitialRuntime(exp.mode) EXCEPT !.pending = <<(<<>>)>>]
  BY DEF Init
<1>3. RunInv(exp, [InitialRuntime(exp.mode) EXCEPT !.pending = <<(<<>>)>>])
  BY <1>1, InitialRun
<1> QED BY <1>1, <1>2, <1>3 DEF SearchInv

\* Every step of _run_depth_first leaves its run correct.
LEMMA DepthFirstMoves ==
  ASSUME SearchInv, NEW k \in Pools, DepthFirstVisit(k) \/ DepthFirstBudget(k) \/ DepthFirstEnd(k)
  PROVE  Moves(k)
<1>1. exp \in Experiments /\ RunInv(exp, rt[k]) /\ k \in Nat BY PoolNat DEF SearchInv
<1>2. CASE DepthFirstVisit(k)
  <2> DEFINE x == rt[k]
             p == x.pending[Len(x.pending)]
             y == ReplayPrefix([x EXCEPT !.pending = SubSeq(@, 1, Len(@) - 1)], p)
             z == DepthFirstAfter(k, y, p)
  <2>1. x.pc = "depth_first" /\ x.pending # <<>> BY <1>2 DEF DepthFirstVisit
  <2>2. PICK late \in Late : HardBudgetReason(x, late) = "none"
    BY <1>2 DEF DepthFirstVisit
  <2>3. rt' = [rt EXCEPT ![k] = z] BY <1>2 DEF DepthFirstVisit
  <2>4. Room(exp, x, 1) BY <1>1, <2>2, HardReason
  <2>5. RunInv(exp, z) BY <1>1, <2>1, <2>4, DepthFirstVisits
  <2> HIDE DEF z
  <2> QED BY <2>3, <2>5 DEF Moves
<1>3. CASE DepthFirstBudget(k)
  <2>1. PICK late \in Late : /\ HardBudgetReason(rt[k], late) # "none"
                             /\ rt' = [rt EXCEPT ![k] = Stop(@, HardBudgetReason(@, late))]
    BY <1>3 DEF DepthFirstBudget
  <2> DEFINE r == HardBudgetReason(rt[k], late)
  <2>2. r \in Reasons /\ r # "exhausted" BY <1>1, <2>1, HardReason
  <2>3. rt' = [rt EXCEPT ![k] = Stop(rt[k], r)] BY <2>1
  <2> HIDE DEF r
  <2>4. RunInv(exp, Stop(rt[k], r)) BY <1>1, <2>2, HardStopKeeps
  <2> QED BY <2>3, <2>4 DEF Moves
<1>4. CASE DepthFirstEnd(k)
  <2> DEFINE z == [rt[k] EXCEPT !.pc = "done"]
  <2>1. rt[k].pc = "depth_first" /\ rt[k].pending = <<>> /\ rt' = [rt EXCEPT ![k] = z]
    BY <1>4 DEF DepthFirstEnd
  <2>2. RunInv(exp, z) BY <1>1, <2>1, EndKeeps
  <2> QED BY <2>1, <2>2 DEF Moves
<1> QED BY <1>2, <1>3, <1>4

\* Every step of _run_beam leaves its run correct.
LEMMA BeamMoves ==
  ASSUME SearchInv, NEW k \in Pools,
         BeamRoot(k) \/ PlanLayer(k) \/ BeamCommit(k) \/ BeamSelect(k) \/ RootBudget(k)
  PROVE  Moves(k)
<1>1. exp \in Experiments /\ RunInv(exp, rt[k]) /\ k \in Nat BY PoolNat DEF SearchInv
<1>2. CASE BeamRoot(k)
  <2> DEFINE x == rt[k]
             y == ReplayPrefix(x, <<>>)
             z == [y EXCEPT !.pc = "beam_layer", !.current = <<(<<>>)>>]
             t == IF y.pc = "raised" THEN y ELSE [z EXCEPT !.pending = <<>>]
  <2>1. x.pc = "beam" /\ \E late \in Late : HardBudgetReason(x, late) = "none"
    BY <1>2 DEF BeamRoot
  <2>2. Room(exp, x, 1) BY <1>1, <2>1, HardReason
  <2>3. rt' = [rt EXCEPT ![k] = t] BY <1>2 DEF BeamRoot, Root
  <2>4. RunInv(exp, t) BY <1>1, <2>1, <2>2, BeamRoots
  <2> HIDE DEF t
  <2> QED BY <2>3, <2>4 DEF Moves
<1>3. CASE PlanLayer(k)
  <2> DEFINE x == rt[k]
             plan(cut) == SubSeq(LayerChildren(x), 1, cut.count)
             z(cut) == [EnsureCandidates(x, {plan(cut)[i] : i \in 1..Len(plan(cut))}) EXCEPT
                          !.pc = "beam_commit", !.plan = plan(cut), !.reason = cut.reason,
                          !.observed = <<>>]
  <2>1. x.pc = "beam_layer" BY <1>3 DEF PlanLayer
  <2>2. PICK cut \in PlannedCuts(x) : rt' = [rt EXCEPT ![k] = z(cut)]
    BY <1>3 DEF PlanLayer
  <2>3. RunInv(exp, z(cut)) BY <1>1, <2>1, PlanLayerKeeps
  <2> HIDE DEF z
  <2> QED BY <2>2, <2>3 DEF Moves
<1>4. CASE BeamCommit(k)
  <2> DEFINE x == rt[k]
             y == ReplayPrefix(x, x.plan[Len(x.observed) + 1])
             z == [y EXCEPT !.observed = Append(@, y.obs)]
  <2>1. /\ x.pc = "beam_commit" /\ Len(x.observed) + 1 <= Len(x.plan)
        /\ rt' = [rt EXCEPT ![k] = z] BY <1>4 DEF BeamCommit
  <2>2. RunInv(exp, z) BY <1>1, <2>1, BeamCommitKeeps
  <2> HIDE DEF z
  <2> QED BY <2>1, <2>2 DEF Moves
<1>5. CASE BeamSelect(k) BY <1>5, <1>1, EndLayerKeeps DEF BeamSelect, Moves
<1>6. CASE RootBudget(k)
  <2>1. PICK late \in Late : /\ HardBudgetReason(rt[k], late) # "none"
                             /\ rt' = [rt EXCEPT ![k] = Stop(@, HardBudgetReason(@, late))]
    BY <1>6 DEF RootBudget
  <2> DEFINE r == HardBudgetReason(rt[k], late)
  <2>2. r \in Reasons /\ r # "exhausted" BY <1>1, <2>1, HardReason
  <2>3. rt' = [rt EXCEPT ![k] = Stop(rt[k], r)] BY <2>1
  <2> HIDE DEF r
  <2>4. RunInv(exp, Stop(rt[k], r)) BY <1>1, <2>2, HardStopKeeps
  <2> QED BY <2>3, <2>4 DEF Moves
<1> QED BY <1>2, <1>3, <1>4, <1>5, <1>6

\* Every step of _run_mcts leaves its run correct.
LEMMA MctsMoves ==
  ASSUME SearchInv, NEW k \in Pools,
         \/ MctsRoot(k) \/ MctsBegin(k) \/ MctsBudget(k) \/ MctsEnd(k) \/ MctsSelect(k)
         \/ MctsExpand(k) \/ MctsWalked(k) \/ MctsRollout(k) \/ MctsBackpropagate(k)
  PROVE  Moves(k)
<1>1. exp \in Experiments /\ RunInv(exp, rt[k]) /\ k \in Nat BY PoolNat DEF SearchInv
<1>a. DOMAIN rt[k] = Fields BY <1>1 DEF RunInv, Core, Typed
<1>b. rt[k].pc = "select" => Room(exp, rt[k], 1) BY <1>1 DEF RunInv, Limited
<1>2. CASE MctsRoot(k)
  <2> DEFINE x == rt[k]
             y == ReplayPrefix(x, <<>>)
             z == [y EXCEPT !.pc = "simulate", !.tree = Put(@, <<>>, TreeNode(y))]
             t == IF y.pc = "raised" THEN y ELSE [z EXCEPT !.pending = <<>>]
  <2>1. x.pc = "mcts" /\ \E late \in Late : HardBudgetReason(x, late) = "none"
    BY <1>2 DEF MctsRoot
  <2>2. Room(exp, x, 1) BY <1>1, <2>1, HardReason
  <2>3. rt' = [rt EXCEPT ![k] = t] BY <1>2 DEF MctsRoot, Root
  <2>4. RunInv(exp, t) BY <1>1, <2>1, <2>2, MctsRoots
  <2> HIDE DEF t
  <2> QED BY <2>3, <2>4 DEF Moves
<1>3. CASE MctsBegin(k)
  <2> DEFINE x == rt[k]
             z == [x EXCEPT !.pc = "select", !.node = <<>>]
  <2>1. x.pc = "simulate" /\ \E late \in Late : HardBudgetReason(x, late) = "none"
    BY <1>3 DEF MctsBegin
  <2>2. Room(exp, x, 1) BY <1>1, <2>1, HardReason
  <2>3. rt' = [rt EXCEPT ![k] = z] BY <1>3 DEF MctsBegin
  <2>4. Only(x, z, {"pc", "node"}) /\ z.pc = "select" BY <1>a DEF Only, Fields
  <2> HIDE DEF z
  <2>5. RunInv(exp, z) BY <1>1, <2>1, <2>2, <2>4, WalkKeeps
  <2> QED BY <2>3, <2>5 DEF Moves
<1>4. CASE MctsBudget(k)
  <2>1. PICK late \in Late : /\ HardBudgetReason(rt[k], late) # "none"
                             /\ rt' = [rt EXCEPT ![k] = HardStop(@, HardBudgetReason(@, late))]
    BY <1>4 DEF MctsBudget
  <2> DEFINE r == HardBudgetReason(rt[k], late)
  <2>2. r \in Reasons /\ r # "exhausted" BY <1>1, <2>1, HardReason
  <2>3. rt' = [rt EXCEPT ![k] = HardStop(rt[k], r)] BY <2>1
  <2> HIDE DEF r
  <2>4. RunInv(exp, HardStop(rt[k], r)) BY <1>1, <2>2, HardStopKeeps
  <2> QED BY <2>3, <2>4 DEF Moves
<1>5. CASE MctsEnd(k)
  <2> DEFINE z == [rt[k] EXCEPT !.pc = "done"]
  <2>1. rt[k].pc = "simulate" /\ rt' = [rt EXCEPT ![k] = z] BY <1>5 DEF MctsEnd
  <2>2. RunInv(exp, z) BY <1>1, <2>1, EndKeeps
  <2> QED BY <2>1, <2>2 DEF Moves
<1>6. CASE MctsSelect(k)
  <2> DEFINE x == rt[k]
             q == Best(TreeChildren(x, x.node), 1, LAMBDA a, b : UctBefore(x, a, b))[1]
             z == [x EXCEPT !.node = q]
  <2>1. x.pc = "select" /\ rt' = [rt EXCEPT ![k] = z]
    BY <1>6, Zenon DEF MctsSelect, Interior, OnTree
  <2> HIDE DEF q
  <2>2. Only(x, z, {"pc", "node"}) /\ z.pc = "select" BY <1>a, <2>1 DEF Only, Fields
  <2> HIDE DEF z
  <2>3. RunInv(exp, z) BY <1>1, <2>1, <2>2, WalkKeeps
  <2> QED BY <2>1, <2>3 DEF Moves
<1>7. CASE MctsExpand(k)
  <2> DEFINE x == rt[k]
             untried == x.tree[x.node].untried
             ahead == [i \in 1..Len(untried) |-> Append(x.node, untried[i])]
             popped == [Prefetch(k, x, ahead) EXCEPT !.tree[x.node].untried = Tail(@)]
             y == ReplayPrefix(popped, ahead[1])
             h == HardStop(Prefetch(k, x, ahead), "max_seconds")
             z == IF ~y.obs.ok THEN Discard(y, "path_failure")
                  ELSE [y EXCEPT !.pc = "rollout", !.node = ahead[1],
                                 !.tree = Put(@, ahead[1], TreeNode(y))]
  <2>1. x.pc = "select" /\ x.node \in DOMAIN x.tree /\ untried # <<>>
    BY <1>7 DEF MctsExpand, Interior, OnTree, NodeOf
  <2>2. PICK late \in Late : rt' = [rt EXCEPT ![k] = IF late THEN h ELSE z]
    BY <1>7 DEF MctsExpand, NodeOf
  <2>3. RunInv(exp, h) /\ RunInv(exp, z) BY <1>1, <2>1, MctsExpands
  <2> HIDE DEF h, z
  <2> QED BY <2>2, <2>3 DEF Moves
<1>8. CASE MctsWalked(k)
  <2> DEFINE x == rt[k]
             z == [x EXCEPT !.pc = "rollout",
                            !.obs = [prefix |-> x.node, ok |-> TRUE,
                                     dup |-> x.tree[x.node].dup]]
  <2>1. x.pc = "select" /\ x.node \in DOMAIN x.tree /\ rt' = [rt EXCEPT ![k] = z]
    BY <1>8 DEF MctsWalked, OnTree, NodeOf
  <2>2. RunInv(exp, z) BY <1>1, <2>1, WalkedKeeps
  <2> HIDE DEF z
  <2> QED BY <2>1, <2>2 DEF Moves
<1>9. CASE MctsRollout(k)
  <2> DEFINE x == rt[k]
             p == Append(x.obs.prefix, RolloutAction(x.obs.prefix))
             y == ReplayPrefix(x, p)
             z == IF ~y.obs.ok THEN Discard(y, "path_failure") ELSE y
             r(late) == HardBudgetReason(x, late)
  <2>1. x.pc = "rollout" /\ ~Boundary(x.obs.prefix, x.obs.dup) BY <1>9 DEF MctsRollout
  <2>2. PICK late \in Late :
          rt' = [rt EXCEPT ![k] = IF r(late) # "none" THEN HardStop(x, r(late)) ELSE z]
    BY <1>9 DEF MctsRollout
  <2>3. r(late) = "none" => RunInv(exp, z) BY <1>1, <2>1, HardReason, MctsRolls
  <2>4. r(late) # "none" => RunInv(exp, HardStop(x, r(late)))
    BY <1>1, HardReason, HardStopKeeps
  <2> HIDE DEF z, r
  <2> QED BY <2>2, <2>3, <2>4 DEF Moves
<1>10. CASE MctsBackpropagate(k)
  <2> DEFINE x == rt[k]
             y == [Log(Backpropagate(x), Simulation(x, "complete")) EXCEPT
                     !.completed = @ + 1, !.ordinal = @ + 1]
             z == [y EXCEPT !.pc = IF x.termination = "goal_reached" THEN "done"
                                   ELSE "simulate"]
  <2>1. x.pc = "rollout" /\ rt' = [rt EXCEPT ![k] = z] BY <1>10 DEF MctsBackpropagate
  <2>2. RunInv(exp, z) BY <1>1, <2>1, MctsCounts
  <2> HIDE DEF z
  <2> QED BY <2>1, <2>2 DEF Moves
<1> QED BY <1>2, <1>3, <1>4, <1>5, <1>6, <1>7, <1>8, <1>9, <1>10

\* Every step keeps every run correct.
LEMMA SearchNext == SearchInv /\ [Next]_vars => SearchInv'
<1> SUFFICES ASSUME SearchInv, [Next]_vars PROVE SearchInv' OBVIOUS
<1>1. CASE Next
  <2>1. PICK k \in Pools : Step(k) /\ exp' = exp BY <1>1 DEF Next
  <2>2. Moves(k) BY <2>1, DepthFirstMoves, BeamMoves, MctsMoves DEF Step
  <2>3. PICK z : rt' = [rt EXCEPT ![k] = z] /\ RunInv(exp, z) BY <2>2 DEF Moves
  <2>4. DOMAIN rt = Pools /\ \A j \in Pools : RunInv(exp, rt[j]) BY DEF SearchInv
  <2>5. DOMAIN rt' = Pools /\ rt'[k] = z /\ \A j \in Pools \ {k} : rt'[j] = rt[j]
    BY <2>3, <2>4
  <2>6. \A j \in Pools : RunInv(exp, rt'[j]) BY <2>3, <2>4, <2>5
  <2> QED BY <2>1, <2>5, <2>6 DEF SearchInv
<1>2. CASE UNCHANGED vars BY <1>2 DEF vars, SearchInv
<1> QED BY <1>1, <1>2

(* What the invariant says of a run *)
\* The types of a run's fields.
LEMMA RunTyped ==
  ASSUME NEW e \in Experiments, NEW x, RunInv(e, x)
  PROVE  /\ x.nodes \in Nat /\ x.replays \in Nat /\ x.hits \in Nat
         /\ x.dups \in Nat /\ x.depth \in Nat /\ x.termination \in Reasons
         /\ \A p \in DOMAIN x.candidates :
              x.candidates[p].status \in {"unexplored", "explored", "failed", "pruned"}
         /\ x.prefetched \cap x.cache = {} /\ DOMAIN x.tree \subseteq x.cache
<1>1. Typed(x) /\ Cached(e, x) /\ Grown(e, x) BY DEF RunInv, Core
<1>2. \A p \in DOMAIN x.candidates : x.candidates[p].status \in Statuses
  BY <1>1 DEF Typed, Candidate
<1> QED BY <1>1, <1>2 DEF Typed, Cached, Grown, Statuses

\* SearchTypeOK is the typed part of the invariant.
LEMMA TypesHold == SearchInv => SearchTypeOK
BY RunTyped DEF SearchInv, SearchTypeOK

\* BudgetRespected is the counted and the limited part of the invariant.
LEMMA BudgetsHold == SearchInv => BudgetRespected
<1> SUFFICES ASSUME SearchInv, NEW k \in Pools
             PROVE  LET x == rt[k] IN
                    /\ exp.max_nodes # NoLimit => x.nodes <= exp.max_nodes
                    /\ exp.max_replays # NoLimit =>
                         /\ exp.mode = "beam" => x.replays <= exp.max_replays * exp.replay_count
                         /\ exp.mode # "beam" => x.replays < exp.max_replays + exp.replay_count
                    /\ x.nodes = Cardinality(x.cache) + x.hits + Len(x.failures)
                    /\ x.replays = exp.replay_count * Cardinality(x.cache) + Len(x.failures)
  BY DEF BudgetRespected
<1> DEFINE x == rt[k]
<1>1. Room(exp, x, 0) /\ Counted(exp, x) /\ x.nodes \in Nat /\ x.replays \in Nat
  BY RunTyped DEF SearchInv, RunInv, Limited, Core
<1> HIDE DEF x
<1>2. x.nodes + 0 = x.nodes /\ x.replays + exp.replay_count * 0 = x.replays
  <2>1. PICK c \in Nat : c = exp.replay_count BY GraphFacts DEF SearchInv
  <2> QED BY <1>1, <2>1
<1>3. /\ exp.max_nodes # NoLimit => x.nodes <= exp.max_nodes
      /\ exp.max_replays # NoLimit =>
           /\ exp.mode = "beam" => x.replays <= exp.max_replays * exp.replay_count
           /\ exp.mode # "beam" => x.replays < exp.max_replays + exp.replay_count
  BY <1>1, <1>2 DEF Room
<1> QED BY <1>1, <1>3 DEF Counted, x

\* MctsStatistics is the visited part of the invariant.
LEMMA StatisticsHold == SearchInv => MctsStatistics
<1> SUFFICES ASSUME SearchInv, NEW k \in Pools, rt[k].tree # NoCandidates
             PROVE  /\ rt[k].tree[<<>>].visits = rt[k].completed
                    /\ \A p \in DOMAIN rt[k].tree :
                         /\ rt[k].tree[p].visits >= SumVisits(rt[k], TreeChildren(rt[k], p))
                         /\ rt[k].tree[p].value <= 3 * rt[k].tree[p].visits
                    /\ rt[k].completed < rt[k].ordinal BY DEF MctsStatistics
<1>1. Visited(rt[k]) BY DEF SearchInv, RunInv
<1> QED BY <1>1 DEF Visited

\* An exhausted frontier leaves no candidate unexplored and none pruned.
LEMMA FrontierDone ==
  ASSUME exp \in Experiments, NEW x, RunInv(exp, x), FrontierExhausted(x)
  PROVE  /\ x.pc = "done" /\ x.termination = "exhausted" /\ exp.mode # "mcts"
         /\ \A p \in DOMAIN x.candidates : x.candidates[p].status \in {"explored", "failed"}
<1>1. /\ x.pc = "done" /\ x.termination = "exhausted" /\ exp.mode # "mcts"
      /\ CandidateCounts(x)["unexplored"] = 0 /\ CandidateCounts(x)["pruned"] = 0
  BY DEF FrontierExhausted
<1> DEFINE Of(s) == {p \in DOMAIN x.candidates : Status(x, p) = s}
<1>2. \A p \in DOMAIN x.candidates : Status(x, p) = x.candidates[p].status
  BY <1>1 DEF Status
<1>3. IsFiniteSet(DOMAIN x.candidates) BY DEF RunInv, Core, Typed
<1>4. ASSUME NEW s \in {"unexplored", "pruned"}
      PROVE  Of(s) = {}
  <2>1. IsFiniteSet(Of(s))
    <3>1. Of(s) \subseteq DOMAIN x.candidates OBVIOUS
    <3> HIDE DEF Of
    <3> QED BY <1>3, <3>1, FS_Subset
  <2>2. CandidateCounts(x)[s] = Cardinality(Of(s)) BY DEF CandidateCounts
  <2>3. Cardinality(Of(s)) = 0 BY <1>1, <2>2
  <2> HIDE DEF Of
  <2> QED BY <2>1, <2>3, FS_EmptySet
<1>5. \A p \in DOMAIN x.candidates : x.candidates[p].status \notin {"unexplored", "pruned"}
  BY <1>2, <1>4
<1> QED BY <1>1, <1>5, RunTyped

\* So every action of every state it has observed leads to a state it has observed.
LEMMA FrontierClosed ==
  ASSUME exp \in Experiments, NEW x, RunInv(exp, x), FrontierExhausted(x)
  PROVE  /\ <<>> \in x.cache
         /\ \A p \in x.cache : \A i \in Branch(exp, p) :
              exp.next[StateAt(exp, p)][i] # Fail =>
                \E q \in x.cache : q # <<>> /\ StateAt(exp, q) = exp.next[StateAt(exp, p)][i]
<1>1. /\ x.pc = "done" /\ x.termination = "exhausted" /\ exp.mode # "mcts"
      /\ \A p \in DOMAIN x.candidates : x.candidates[p].status \in {"explored", "failed"}
  BY FrontierDone
<1>2. CoverageKept(exp, x) /\ Recorded(exp, x) /\ Cached(exp, x) BY DEF RunInv, Core
<1>3. <<>> \in x.cache /\ \A p \in x.cache : Settled(exp, x, StateAt(exp, p))
  BY <1>1, <1>2 DEF CoverageKept
<1>4. ASSUME NEW p \in x.cache, NEW i \in Branch(exp, p),
             exp.next[StateAt(exp, p)][i] # Fail
      PROVE  \E q \in x.cache : q # <<>> /\ StateAt(exp, q) = exp.next[StateAt(exp, p)][i]
  <2>1. PICK r \in x.cache :
          /\ StateAt(exp, r) = StateAt(exp, p)
          /\ \A j \in Branch(exp, r) : Append(r, j) \in DOMAIN x.candidates
    BY <1>3 DEF Settled
  <2>2. Good(exp, r) /\ r \in Seq(Nat) BY <1>2, GoodEnds DEF Cached
  <2>3. i \in Branch(exp, r) BY <2>1 DEF Branch
  <2> DEFINE q == Append(r, i)
  <2>4. i \in Nat /\ StateAt(exp, q) = exp.next[StateAt(exp, p)][i]
    BY <2>1, <2>2, <2>3, BranchState
  <2>5. q # <<>> BY <2>2, <2>4, NoPrefix
  <2>6. q \in DOMAIN x.candidates BY <2>1, <2>3
  <2> HIDE DEF q
  <2>7. q \in x.cache BY <1>1, <1>2, <1>4, <2>4, <2>6 DEF Recorded
  <2> QED BY <2>4, <2>5, <2>7
<1> QED BY <1>3, <1>4

\* A successor is the state an action of a member leads to without failing.
LEMMA SuccessorOf ==
  ASSUME exp \in Experiments, NEW S, NEW s \in Successors(S)
  PROVE  s # Fail /\ \E t \in S : \E i \in 1..Len(exp.next[t]) : s = exp.next[t][i]
BY GraphFacts DEF Successors, InSequence

\* What an exhausted frontier has observed is closed under the actions of the graph.
LEMMA ReachedObserved ==
  ASSUME exp \in Experiments, NEW x, RunInv(exp, x), FrontierExhausted(x)
  PROVE  Reachable \subseteq {StateAt(exp, p) : p \in x.cache}
<1> DEFINE V == {StateAt(exp, p) : p \in x.cache}
<1>1. \A p \in x.cache : Good(exp, p) /\ StateAt(exp, p) \in DOMAIN exp.next
  BY GoodEnds DEF RunInv, Core, Cached
<1>2. V \in SUBSET DOMAIN exp.next BY <1>1
<1>3. {exp.root} \ {Fail} \subseteq V BY FrontierClosed, StateAtRoot
<1>4. Successors(V) \subseteq V
  <2> SUFFICES ASSUME NEW s \in Successors(V) PROVE s \in V OBVIOUS
  <2> HIDE DEF V
  <2>1. s # Fail /\ \E t \in V : \E i \in 1..Len(exp.next[t]) : s = exp.next[t][i]
    BY SuccessorOf
  <2> USE DEF V
  <2>2. PICK p \in x.cache : \E i \in 1..Len(exp.next[StateAt(exp, p)]) :
                               s = exp.next[StateAt(exp, p)][i] BY <2>1
  <2>3. \E i \in Branch(exp, p) : s = exp.next[StateAt(exp, p)][i] BY <2>2 DEF Branch
  <2>4. PICK i \in Branch(exp, p) : s = exp.next[StateAt(exp, p)][i] BY <2>3
  <2>5. \E q \in x.cache : q # <<>> /\ StateAt(exp, q) = exp.next[StateAt(exp, p)][i]
    BY <2>1, <2>4, FrontierClosed
  <2> QED BY <2>4, <2>5
<1> HIDE DEF V
<1>5. Reachable \subseteq V BY <1>2, <1>3, <1>4 DEF Reachable
<1> QED BY <1>5 DEF V

\* A certificate of an exhausted frontier is true.
LEMMA CoverageHolds == SearchInv => CoverageSound
<1> SUFFICES ASSUME SearchInv, NEW k \in Pools, FrontierExhausted(rt[k])
             PROVE  Reachable \subseteq {StateOf(p) : p \in rt[k].cache}
  BY DEF CoverageSound
<1>1. Reachable \subseteq {StateAt(exp, p) : p \in rt[k].cache}
  BY ReachedObserved DEF SearchInv
<1> QED BY <1>1, StateOfAt

\* A legal stop deserves no better rank than a route that ends in it.
LEMMA DeservedByRoute ==
  ASSUME exp \in Experiments, NEW p, NEW q, Good(exp, p), Good(exp, q), ~RouteBefore(q, p),
         NEW s, StateAt(exp, q) = s
  PROVE  ~FirstDifference([i \in 1..3 |-> <<Deserved(s)[i], Worth(p)[i]>>])
<1> DEFINE a == Worth(q)
           b == Worth(p)
           d == Deserved(s)
           pairs == [i \in 1..3 |-> <<d[i], b[i]>>]
<1>1. StateOf(q) = s BY StateOfAt
<1>2. Score(q) <= PeakScore(q) /\ Score(q) \in Int /\ PeakScore(q) \in Int BY PeakExists
<1>3. /\ a[1] = IF Success(q) THEN 1 ELSE 0
      /\ a[2] = PeakScore(q) /\ a[3] = Score(q) BY DEF Worth
<1>4. /\ d[1] = IF Success(q) THEN 1 ELSE 0
      /\ d[2] = Score(q) /\ d[3] = Score(q) BY <1>1 DEF Deserved, Success, Score
<1>5. a[1] \in Int /\ b[1] \in Int /\ b[2] \in Int /\ b[3] \in Int BY WorthOrder
<1>6. ~Above(a, b) BY WorthOrder DEF RouteBefore
<1>7. d[1] = a[1] /\ d[2] <= a[2] /\ d[3] = a[3] /\ a[2] \in Int /\ a[3] \in Int
      /\ d[2] \in Int /\ d[3] <= d[2]
  BY <1>2, <1>3, <1>4
<1> HIDE DEF a, b, d
<1>8. Len(pairs) = 3 /\ \A i \in 1..3 : pairs[i][1] = d[i] /\ pairs[i][2] = b[i] OBVIOUS
<1> HIDE DEF pairs
<1>9. ~FirstDifference(pairs)
  <2> SUFFICES ASSUME NEW i \in 1..3, d[i] > b[i], \A j \in 1..(i - 1) : d[j] = b[j]
               PROVE  FALSE BY <1>8 DEF FirstDifference
  <2>1. 1 \in 1..(2 - 1) /\ 1 \in 1..(3 - 1) /\ 2 \in 1..(3 - 1) OBVIOUS
  <2>2. i = 1 \/ i = 2 \/ i = 3 OBVIOUS
  <2>3. CASE i = 1 BY <1>5, <1>6, <1>7, <2>3 DEF Above
  <2>4. CASE i = 2 BY <1>5, <1>6, <1>7, <2>1, <2>4 DEF Above
  <2>5. CASE i = 3 BY <1>5, <1>6, <1>7, <2>1, <2>5 DEF Above
  <2> QED BY <2>2, <2>3, <2>4, <2>5
<1> QED BY <1>9 DEF pairs, d, b

\* With an exhausted frontier no legal stop deserves a better rank than the best route.
LEMMA BestHolds == SearchInv => ExhaustedBestIsBest
<1> SUFFICES ASSUME SearchInv, NEW k \in Pools, FrontierExhausted(rt[k]),
                    NEW s \in Successors(Reachable) \cap exp.legal
             PROVE  /\ rt[k].routes # <<>>
                    /\ ~FirstDifference(
                          [i \in 1..3 |-> <<Deserved(s)[i], Worth(BestRoute(rt[k])[1])[i]>>])
  BY DEF ExhaustedBestIsBest
<1>1. PICK x : x = rt[k] OBVIOUS
<1>2. exp \in Experiments /\ RunInv(exp, x) /\ FrontierExhausted(x)
  BY <1>1 DEF SearchInv
<1>3. Recorded(exp, x) /\ IsFiniteSet(x.cache) /\ (\A p \in x.cache : Good(exp, p))
      /\ x.routes \in Seq(Seq(Nat)) BY <1>2 DEF RunInv, Core, Cached, Typed
<1>4. s # Fail /\ \E t \in Reachable : \E i \in 1..Len(exp.next[t]) : s = exp.next[t][i]
  BY <1>2, SuccessorOf
<1>5. PICK p \in x.cache : \E i \in 1..Len(exp.next[StateAt(exp, p)]) :
                             s = exp.next[StateAt(exp, p)][i]
  BY <1>2, <1>4, ReachedObserved
<1>6. \E i \in Branch(exp, p) : s = exp.next[StateAt(exp, p)][i] /\ s # Fail
  BY <1>4, <1>5 DEF Branch
<1>7. PICK q \in x.cache : q # <<>> /\ StateAt(exp, q) = s
  BY <1>2, <1>6, FrontierClosed
<1>8. InSequence(q, x.routes) BY <1>3, <1>7 DEF Recorded
<1>9. Len(x.routes) \in Nat /\ q \in RouteSet(x) /\ x.routes # <<>>
  BY <1>8, <1>3 DEF InSequence, RouteSet
<1>10. RouteSet(x) \subseteq x.cache BY <1>3 DEF Recorded, RouteSet
<1>11. IsFiniteSet(RouteSet(x)) /\ RouteSet(x) # {} /\ \A r \in RouteSet(x) : Good(exp, r)
  BY <1>3, <1>9, <1>10, FS_Subset
<1>12. ~FirstDifference([i \in 1..3 |-> <<Deserved(s)[i], Worth(BestRoute(x)[1])[i]>>])
  <2>1. PICK S : S = RouteSet(x) OBVIOUS
  <2> DEFINE m == Best(S, 1, RouteBefore)[1]
  <2>2. m \in S /\ \A r \in S : ~RouteBefore(r, m) BY <1>2, <1>11, <2>1, BestRouteFirst
  <2>5. m = BestRoute(x)[1] BY <2>1, Zenon DEF BestRoute
  <2> HIDE DEF m
  <2>3. Good(exp, m) /\ Good(exp, q) /\ ~RouteBefore(q, m)
    BY <1>9, <1>11, <2>1, <2>2
  <2>4. ~FirstDifference([i \in 1..3 |-> <<Deserved(s)[i], Worth(m)[i]>>])
    BY <1>2, <1>7, <2>3, DeservedByRoute
  <2> QED BY <2>4, <2>5
<1> QED BY <1>1, <1>9, <1>12

\* The invariant implies what a search reports of itself.
LEMMA SearchInvCorrect == SearchInv => SearchCorrect
BY TypesHold, BudgetsHold, StatisticsHold, CoverageHolds, BestHolds DEF SearchCorrect

\* For every decision graph, strategy, replay_count and budget, and for every pool: max_nodes
\* is never passed, max_replays by less than the replays of one frontier (in a beam: of the
\* prefixes of a layer that still fitted), the counters account for the observations, the
\* tree counts completed simulations only, a certificate of an exhausted frontier is true,
\* and then no legal stop has, by success and its own score, a better rank than best_route.
THEOREM SearchSafety == Spec => []SearchCorrect
<1>1. Spec => []SearchInv BY SearchInit, SearchNext, PTL DEF Spec
<1> QED BY <1>1, SearchInvCorrect, PTL

(* The monitor of SearchGuards *)
StopReasons == {"none", "max_depth", "max_seconds", "goal_reached", "repeated_transition",
            "max_nodes", "max_replays", "stagnation", "exhausted"}

Counters ==
  [nodes : Nat, replays : Nat, best : Int, since : Nat,
   visits : [SmTransitions -> Nat], decision : StopReasons,
   decided : [nodes : Nat, best : Int]]

\* Until the first node is observed nothing has been counted.
CountersStart ==
  monitor.nodes = 0 =>
    monitor.replays = 0 /\ monitor.since = 0 /\ monitor.best = -1

MonitorInv ==
  /\ BudgetValid(budget)
  /\ monitor \in Counters
  /\ CountersStart
  /\ NothingOverlooked

\* _stop keeps a record of the counters, and a decision once made.
LEMMA DecideType ==
  ASSUME NEW m \in Counters, NEW reason \in StopReasons
  PROVE  /\ Decide(m, reason) \in Counters
         /\ m.decision # "none" => Decide(m, reason) = m
         /\ reason = "none" => Decide(m, reason) = m
         /\ m.decision = "none" /\ reason # "none"
              => Decide(m, reason).decision = reason
         /\ Decide(m, reason).nodes = m.nodes
         /\ Decide(m, reason).replays = m.replays
         /\ Decide(m, reason).best = m.best
         /\ Decide(m, reason).since = m.since
BY DEF Decide, Counters

\* observe_node says "continue" only below every limit it tests.
LEMMA ContinueMeansBelow ==
  ASSUME NEW m, NEW score, NEW success, NEW t, NEW late,
         AfterNode(m, score, success, t, late) = "none"
  PROVE  /\ ~Reached(budget.target, score)
         /\ ~Reached(budget.repeats, m.visits[t])
         /\ ~Reached(budget.nodes, m.nodes)
         /\ ~Reached(budget.replays, m.replays)
         /\ ~Reached(budget.stagnation, m.since)
BY DEF AfterNode

LEMMA MonitorInitially == SmInit => MonitorInv
<1> SUFFICES ASSUME SmInit PROVE MonitorInv OBVIOUS
<1>1. BudgetValid(budget) BY MonitorAssumption DEF SmInit
<1>2. monitor \in Counters /\ CountersStart
  BY DEF SmInit, Counters, CountersStart, StopReasons
<1>3. NothingOverlooked
  BY <1>1 DEF BudgetValid, SmInit, NothingOverlooked, Reached, Limits
<1> QED BY <1>1, <1>2, <1>3 DEF MonitorInv

LEMMA MonitorStep == MonitorInv /\ [SmNext]_smVars => MonitorInv' /\ DecisionStands
<1> SUFFICES ASSUME MonitorInv, [SmNext]_smVars
             PROVE  MonitorInv' /\ DecisionStands OBVIOUS
<1> USE DEF MonitorInv
<1>1. ASSUME NEW reason \in StopReasons, monitor' = Decide(monitor, reason), UNCHANGED budget
      PROVE  MonitorInv' /\ DecisionStands
  <2>1. monitor' = monitor \/ monitor'.decision # "none" BY <1>1, DecideType
  <2>2. BudgetValid(budget)' /\ monitor' \in Counters /\ CountersStart'
    BY <1>1, DecideType DEF BudgetValid, CountersStart
  <2>3. NothingOverlooked' BY <1>1, <2>1 DEF NothingOverlooked
  <2>4. DecisionStands BY <1>1, DecideType DEF DecisionStands
  <2> QED BY <2>2, <2>3, <2>4
<1>2. ASSUME NEW depth \in 0..2, NEW late \in BOOLEAN, SmCheck(depth, late)
      PROVE  MonitorInv' /\ DecisionStands
  BY <1>1, <1>2 DEF BeforeExpand, StopReasons, SmCheck
<1>3. CASE SmExhausted BY <1>1, <1>3 DEF StopReasons, SmExhausted
<1>4. ASSUME NEW score \in SmScores, NEW success \in BOOLEAN, NEW n \in 0..2,
             NEW t \in SmTransitions, NEW late \in BOOLEAN,
             SmObserve(score, success, n, t, late)
      PROVE  MonitorInv' /\ DecisionStands
  <2> DEFINE m == Observed(score, n, t)
             reason == AfterNode(m, score, success, t, late)
             kept == IF reason = "goal_reached"
                     THEN [m EXCEPT !.visits = monitor.visits] ELSE m
  <2>1. CASE monitor.decision # "none"
    <3>1. monitor' = monitor /\ budget' = budget BY <1>4, <2>1 DEF SmObserve
    <3> QED
      BY <3>1 DEF BudgetValid, CountersStart, NothingOverlooked, DecisionStands, Reached
  <2>2. CASE monitor.decision = "none"
    <3>1. monitor' = Decide(kept, reason) /\ budget' = budget
      BY <1>4, <2>2 DEF SmObserve
    <3>2. score \in Nat BY MonitorAssumption
    <3>3. /\ m \in Counters
          /\ m.nodes = monitor.nodes + 1
          /\ m.decision = "none"
          /\ m.best = IF score > monitor.best THEN score ELSE monitor.best
          /\ m.visits = [monitor.visits EXCEPT ![t] = @ + 1]
      BY <2>2, <3>2 DEF Counters, Observed
    <3>4. reason \in StopReasons BY DEF AfterNode, StopReasons
    <3>5. kept \in Counters /\ kept.decision = "none" /\ kept.nodes = monitor.nodes + 1
      BY <3>3 DEF Counters
    <3>6. monitor' \in Counters /\ monitor'.nodes = monitor.nodes + 1
      BY <3>1, <3>4, <3>5, DecideType
    <3>7. BudgetValid(budget)' /\ CountersStart'
      BY <3>6, <3>1 DEF Counters, CountersStart, BudgetValid
    <3>8. NothingOverlooked'
      <4>1. SUFFICES ASSUME monitor'.decision = "none" PROVE NothingOverlooked'
        BY DEF NothingOverlooked
      <4>2. reason = "none" /\ kept = m /\ monitor' = m
        BY <3>1, <3>4, <3>5, <4>1, DecideType
      <4>3. /\ ~Reached(budget.target, score)
            /\ ~Reached(budget.repeats, m.visits[t])
            /\ ~Reached(budget.nodes, m.nodes)
            /\ ~Reached(budget.replays, m.replays)
            /\ ~Reached(budget.stagnation, m.since) BY <4>2, ContinueMeansBelow
      <4>4. ~Reached(budget.target, m.best) BY <2>2, <3>3, <4>3 DEF NothingOverlooked
      <4>5. ASSUME NEW u \in SmTransitions, m.visits[u] > 0
            PROVE  ~Reached(budget.repeats, m.visits[u])
        <5>1. CASE u = t BY <4>3, <5>1
        <5>2. CASE u # t BY <2>2, <3>3, <4>5, <5>2 DEF Counters, NothingOverlooked
        <5> QED BY <5>1, <5>2
      <4>6. budget' = budget BY <3>1
      <4> HIDE DEF m
      <4> QED BY <4>2, <4>3, <4>4, <4>5, <4>6 DEF NothingOverlooked
    <3>9. DecisionStands BY <2>2 DEF DecisionStands
    <3> QED BY <3>6, <3>7, <3>8, <3>9
  <2> QED BY <2>1, <2>2
<1>5. CASE UNCHANGED smVars
  BY <1>5 DEF smVars, BudgetValid, CountersStart, NothingOverlooked, DecisionStands,
    Reached
<1> QED BY <1>2, <1>3, <1>4, <1>5 DEF SmNext

\* engine/search/termination.py: no limit is passed unnoticed and a decision
\* once made stands, for every valid budget and however long the search is.
THEOREM LimitsDecide == SmSpec => BudgetDecided
<1>1. SmSpec => []MonitorInv
  <2>1. MonitorInv /\ [SmNext]_smVars => MonitorInv' BY MonitorStep
  <2> QED BY MonitorInitially, <2>1, PTL DEF SmSpec
<1>2. MonitorInv /\ [SmNext]_smVars => [NothingOverlooked' /\ DecisionStands]_smVars
  BY MonitorStep DEF MonitorInv
<1> QED BY <1>1, <1>2, PTL DEF SmSpec, BudgetDecided

-----------------------------------------------------------------------------
(* Comparison. *)
\* The numbers of a pair: the fork and the board are steps, the scores numbers.
PairShape(p) ==
  /\ p.fork \in Nat /\ p.board \in Nat
  /\ Len(p.base) \in Nat /\ Len(p.child) \in Nat
  /\ p.scores[1] \in Int /\ p.scores[2] \in Int

\* A set of numbers with an element has a smallest one.
LEMMA MinOfSmallest ==
  ASSUME NEW S \in SUBSET Nat, S # {}
  PROVE  MinOf(S) \in S /\ \A y \in S : MinOf(S) <= y
<1> DEFINE R == {ss \in Nat \X Nat : ss[1] < ss[2]}
<1>1. IsWellFoundedOn(R, Nat) BY NatLessThanWellFounded DEF OpToRel
<1>2. \E x \in S : \A y \in S : ~ (<<y, x>> \in R)
  <2> HIDE DEF R
  <2> QED BY <1>1, WFMin
<1>3. \E x \in S : \A y \in S : x <= y
  <2>1. PICK x \in S : \A y \in S : ~ (<<y, x>> \in R) BY <1>2
  <2>2. ASSUME NEW y \in S PROVE x <= y
    <3>1. x \in Nat /\ y \in Nat OBVIOUS
    <3>2. <<y, x>> \in Nat \X Nat => ~ (y < x) BY <2>1
    <3> QED BY <3>1, <3>2
  <2> QED BY <2>2
<1> QED BY <1>3 DEF MinOf

\* A rejoin is a step of the child from the fork on.
LEMMA RejoinSteps ==
  ASSUME NEW p, PairShape(p), NEW i \in 1..Len(Rejoin(p))
  PROVE  /\ Rejoin(p)[i].child \in p.fork..Len(p.child)
         /\ Rejoin(p)[i].base \in p.fork..Len(p.base)
<1> DEFINE steps == {k \in p.fork..Len(p.child) : p.child[k].after \in After(p.base, p.fork)}
           step == MinOf(steps)
           same == {k \in p.fork..Len(p.base) : p.base[k].after = p.child[step].after}
<1>1. Rejoin(p) = IF steps = {} THEN <<>> ELSE <<[child |-> step, base |-> MinOf(same)]>>
  BY DEF Rejoin
<1>2. steps # {} /\ i = 1 /\ Rejoin(p)[1] = [child |-> step, base |-> MinOf(same)]
  BY <1>1
<1>3. steps \in SUBSET Nat BY DEF PairShape
<1>4. step \in steps BY <1>2, <1>3, MinOfSmallest
<1>5. p.child[step].after \in After(p.base, p.fork) BY <1>4
<1>6. same # {} BY <1>5 DEF After
<1>7. same \in SUBSET Nat BY DEF PairShape
<1>8. MinOf(same) \in same BY <1>6, <1>7, MinOfSmallest
<1>9. step \in p.fork..Len(p.child) /\ MinOf(same) \in p.fork..Len(p.base)
  BY <1>4, <1>8
<1> HIDE DEF same, step, steps
<1>10. Rejoin(p)[i].child = step /\ Rejoin(p)[i].base = MinOf(same) BY <1>2
<1> QED BY <1>9, <1>10

\* What a comparison reports of a pair.
LEMMA ComparisonFields ==
  ASSUME NEW p, NEW c \in {Comparison(p)[i] : i \in 1..Len(Comparison(p))}
  PROVE  /\ ScoresAgree(p)
         /\ c.status = RecoveryStatus(p) /\ c.rejoin = Rejoin(p) /\ c.delta = ScoreDelta(p)
  BY DEF Comparison

\* A pair whose comparison is reported: the two claims of the comparison.
LEMMA ComparisonHolds ==
  ASSUME PairShape(pair), comparison \in {<<>>, Comparison(pair)}
  PROVE  RejoinLeadsToBoard /\ SameBoardNoDelta
<1> SUFFICES ASSUME NEW c \in {comparison[i] : i \in 1..Len(comparison)}
    PROVE  /\ \A r \in {c.rejoin[i] : i \in 1..Len(c.rejoin)} :
                LET rest == pair.board - r.base
                IN (/\ rest >= 0 /\ Len(pair.child) >= r.child + rest
                    /\ \A k \in 0..rest : pair.child[r.child + k].after
                                            = pair.base[r.base + k].after)
                   => c.status = "original_target_reached"
           /\ BoardState(pair) = pair.base[pair.board].after => c.delta \in {<<>>, <<0>>}
  BY DEF RejoinLeadsToBoard, SameBoardNoDelta
<1>1. c \in {Comparison(pair)[i] : i \in 1..Len(Comparison(pair))} OBVIOUS
<1>2. /\ ScoresAgree(pair)
      /\ c.status = RecoveryStatus(pair) /\ c.rejoin = Rejoin(pair) /\ c.delta = ScoreDelta(pair)
  BY <1>1, ComparisonFields
<1>3. ASSUME NEW i \in 1..Len(Rejoin(pair)), NEW r, r = Rejoin(pair)[i],
             pair.board - r.base >= 0, Len(pair.child) >= r.child + (pair.board - r.base),
             \A k \in 0..(pair.board - r.base) : pair.child[r.child + k].after
                                                  = pair.base[r.base + k].after
      PROVE  c.status = "original_target_reached"
  <2>1. r.child \in pair.fork..Len(pair.child) /\ r.base \in pair.fork..Len(pair.base)
    BY <1>3, RejoinSteps
  <2> DEFINE rest == pair.board - r.base
  <2>a. pair.fork \in Nat /\ pair.board \in Nat
         /\ Len(pair.base) \in Nat /\ Len(pair.child) \in Nat BY DEF PairShape
  <2>b. \A f, b, lb, lc \in Nat : \A rc \in f..lc, rb \in f..lb :
          b - rb >= 0 /\ lc >= rc + (b - rb)
            => b - rb \in 0..(b - rb) /\ rb + (b - rb) = b /\ rc + (b - rb) \in f..lc
    OBVIOUS
  <2>2. rest \in 0..rest /\ r.base + rest = pair.board
        /\ r.child + rest \in pair.fork..Len(pair.child)
    BY <1>3, <2>1, <2>a, <2>b, Zenon
  <2>3. pair.child[r.child + rest].after = pair.base[pair.board].after BY <1>3, <2>2
  <2>4. BoardReached(pair, pair.base[pair.board].after)
    BY <2>2, <2>3 DEF BoardReached, After
  <2>5. c.status = RecoveryStatus(pair) BY <1>2
  <2>6. RecoveryStatus(pair) = "original_target_reached" BY <2>4 DEF RecoveryStatus
  <2> QED BY <2>5, <2>6
<1>4. ASSUME BoardState(pair) = pair.base[pair.board].after
      PROVE  c.delta \in {<<>>, <<0>>}
  BY <1>2, <1>4 DEF ScoresAgree, ScoreDelta, PairShape
<1> QED BY <1>2, <1>3, <1>4

\* A Route has one event for each State it passes through.
LEMMA RouteShape ==
  ASSUME NEW S, NEW ss \in Seq(S), NEW from, NEW name
  PROVE  \E U : Route(ss, from, name) \in Seq(U) /\ Len(Route(ss, from, name)) = Len(ss)
<1>1. PICK n \in Nat : n = Len(ss) OBVIOUS
<1> DEFINE r == [i \in 1..n |->
                   [action |-> <<name, ss[i]>>, after |-> ss[i],
                    before |-> IF i = 1 THEN from ELSE ss[i - 1]]]
           U == {r[i] : i \in 1..n}
<1>2. r = Route(ss, from, name) BY <1>1 DEF Route
<1>3. r \in [1..n -> U] OBVIOUS
<1> HIDE DEF r
<1>4. r \in Seq(U) /\ Len(r) = n
  <2> HIDE DEF U
  <2> QED BY <1>3
<1> QED BY <1>1, <1>2, <1>4

\* The Routes that are compared are sequences.
LEMMA ComparedShape ==
  ASSUME PairShape(pair), Compare
  PROVE  PairShape(pair') /\ comparison' = Comparison(pair')
<1>1. PICK bs \in Paths, cs \in Paths, goal \in {<<>>, <<TRUE>>, <<FALSE>>}, same \in BOOLEAN,
           scores \in {<<0, 0>>, <<0, 1>>} :
     \E fork, board, at \in 1..Len(bs), shared \in 0..(Len(bs) - 1) :
       LET base == Route(bs, 0, "base")
           child == SubSeq(base, 1, shared)
                    \o Route(cs, IF shared = 0 THEN 0 ELSE bs[shared], "child")
       IN \E reached \in 1..Len(child) :
            LET p == [base |-> base, child |-> child, fork |-> fork,
                      board |-> board, reached |-> reached, goal |-> goal,
                      target |-> Occurrence(base, at), evaluator |-> same,
                      scores |-> scores]
            IN pair' = p /\ comparison' = Comparison(p) BY DEF Compare
<1>2. PICK fork \in 1..Len(bs), board \in 1..Len(bs), at \in 1..Len(bs),
           shared \in 0..(Len(bs) - 1) :
       LET base == Route(bs, 0, "base")
           child == SubSeq(base, 1, shared)
                    \o Route(cs, IF shared = 0 THEN 0 ELSE bs[shared], "child")
       IN \E reached \in 1..Len(child) :
            LET p == [base |-> base, child |-> child, fork |-> fork,
                      board |-> board, reached |-> reached, goal |-> goal,
                      target |-> Occurrence(base, at), evaluator |-> same,
                      scores |-> scores]
            IN pair' = p /\ comparison' = Comparison(p) BY <1>1
<1> DEFINE base == Route(bs, 0, "base")
           tail == Route(cs, IF shared = 0 THEN 0 ELSE bs[shared], "child")
           child == SubSeq(base, 1, shared) \o tail
<1>3. bs \in Seq(RouteStates) /\ cs \in Seq(RouteStates)
  <2>1. ASSUME NEW x \in Paths PROVE x \in Seq(RouteStates) BY HandsAssumption DEF Paths
  <2> QED BY <2>1
<1>5. Len(bs) \in Nat /\ Len(cs) \in Nat BY <1>3
<1>6. PICK U : base \in Seq(U) /\ Len(base) = Len(bs) BY <1>3, RouteShape
<1>7. PICK W : tail \in Seq(W) /\ Len(tail) = Len(cs) BY <1>3, RouteShape
<1> HIDE DEF base, tail
<1>9. Len(child) \in Nat
  <2>1. base \in Seq(U \cup W) /\ tail \in Seq(U \cup W) BY <1>6, <1>7
  <2>2. SubSeq(base, 1, shared) \in Seq(U \cup W) BY <1>5, <1>6, <2>1
  <2>3. child \in Seq(U \cup W) BY <2>1, <2>2
  <2> QED BY <2>3
<1>10. PICK reached \in 1..Len(child) :
         LET p == [base |-> base, child |-> child, fork |-> fork,
                   board |-> board, reached |-> reached, goal |-> goal,
                   target |-> Occurrence(base, at), evaluator |-> same,
                   scores |-> scores]
         IN pair' = p /\ comparison' = Comparison(p) BY <1>2 DEF base, tail
<1> HIDE DEF child
<1>11. comparison' = Comparison(pair') BY <1>10
<1>12. pair'.fork = fork /\ pair'.board = board /\ pair'.base = base /\ pair'.child = child
       /\ pair'.scores = scores BY <1>10
<1> QED BY <1>5, <1>6, <1>9, <1>11, <1>12, SMTT(30) DEF PairShape

(* Attribution. *)
\* What AddTrial adds to the trials.
Trial(v, hand, c, i) ==
  [set |-> Instances(v, hand), control |-> c, interrupted |-> i, cards |-> Len(Added(hand))]

\* A sequence is a hand of the cases the constants admit.
LEMMA AddedLength ==
  ASSUME NEW hand \in TrialHands
  PROVE  /\ Len(hand) \in Nat /\ Len(BaselineHand) \in Nat
         /\ Extends(hand) => /\ Len(Added(hand)) \in Nat
                             /\ Len(Added(hand)) = Len(hand) - Len(BaselineHand)
                             /\ \A i \in 1..Len(Added(hand)) :
                                  Added(hand)[i] = hand[Len(BaselineHand) + i]
<1> DEFINE S == {hand[i] : i \in DOMAIN hand}
           B == {BaselineHand[i] : i \in DOMAIN BaselineHand}
<1>1. hand \in Seq(S) /\ BaselineHand \in Seq(B) BY HandsAssumption
<1> HIDE DEF S, B
<1>2. PICK n, b \in Nat : n = Len(hand) /\ b = Len(BaselineHand) BY <1>1
<1>3. ASSUME n > b
      PROVE  /\ Len(SubSeq(hand, b + 1, n)) = n - b
             /\ \A i \in 1..(n - b) : SubSeq(hand, b + 1, n)[i] = hand[b + i]
  BY <1>1, <1>2, <1>3
<1> QED BY <1>2, <1>3 DEF Added, Extends

\* A function that maps distinct numbers to distinct values has as many values.
LEMMA ImageSize ==
  ASSUME NEW n \in Nat, NEW f, f = [i \in 1..n |-> f[i]],
         \A i, j \in 1..n : f[i] = f[j] => i = j
  PROVE  Cardinality({f[i] : i \in 1..n}) = n
<1> DEFINE T == {f[i] : i \in 1..n}
<1>1. f \in Bijection(1..n, T) BY DEF Bijection, Injection, Surjection, IsInjective
<1>2. ExistsBijection(1..n, T) BY <1>1 DEF ExistsBijection
<1>3. IsFiniteSet(1..n) /\ Cardinality(1..n) = n
  <2>1. 1 \in Int /\ n \in Int /\ (IF 1 > n THEN 0 ELSE n - 1 + 1) = n OBVIOUS
  <2>2. IsFiniteSet(1..n) /\ Cardinality(1..n) = IF 1 > n THEN 0 ELSE n - 1 + 1
    BY <2>1, FS_Interval, Zenon
  <2> QED BY <2>1, <2>2
<1> HIDE DEF T
<1>4. Cardinality(T) = Cardinality(1..n) BY <1>2, <1>3, FS_Bijection
<1> QED BY <1>3, <1>4 DEF T

\* Each added card of a hand that is accepted is one candidate.
LEMMA InstancesCounted ==
  ASSUME NEW v, NEW hand \in TrialHands, Acceptable(v, hand)
  PROVE  Cardinality(Instances(v, hand)) = Len(Added(hand))
<1>1. PICK n \in Nat : n = Len(Added(hand)) BY AddedLength DEF Acceptable
<1> DEFINE a == Added(hand)
<1>2. CASE v # "v1"
  <2> DEFINE f == [i \in 1..n |-> <<a[i], i>>]
  <2>1. Instances(v, hand) = {f[i] : i \in 1..n} BY <1>1, <1>2 DEF Instances
  <2>2. \A i, j \in 1..n : f[i] = f[j] => i = j OBVIOUS
  <2>3. f = [i \in 1..n |-> f[i]] OBVIOUS
  <2> HIDE DEF f
  <2> QED BY <1>1, <2>1, <2>2, <2>3, ImageSize
<1>3. CASE v = "v1"
  <2> DEFINE f == [i \in 1..n |-> <<a[i]>>]
  <2>1. Instances(v, hand) = {f[i] : i \in 1..n} BY <1>1, <1>3 DEF Instances
  <2>2. ASSUME NEW i \in 1..n, NEW j \in 1..n, f[i] = f[j] PROVE i = j
    <3> DEFINE same == {k \in 1..Len(hand) : hand[k] = a[i]}
               b == Len(BaselineHand)
    <3>1. Cardinality(same) = 1 BY <1>1, <1>3 DEF Acceptable, Distinguishable, Occurs
    <3>2. a[i] = a[j] BY <2>2
    <3>3. /\ Len(hand) \in Nat /\ b \in Nat /\ n = Len(hand) - b
          /\ a[i] = hand[b + i] /\ a[j] = hand[b + j]
      BY <1>1, AddedLength DEF Acceptable
    <3>4. b + i \in same /\ b + j \in same
      <4>1. b + i \in 1..Len(hand) /\ b + j \in 1..Len(hand) BY <3>3
      <4>2. hand[b + i] = a[i] /\ hand[b + j] = a[i] BY <3>2, <3>3
      <4> QED BY <4>1, <4>2
    <3>5. IsFiniteSet(same)
      <4>1. IsFiniteSet(1..Len(hand)) BY <3>3, FS_Interval
      <4> QED BY <4>1, FS_Subset
    <3>6. PICK x : same = {x}
      <4> HIDE DEF same
      <4> QED BY <3>1, <3>5, FS_Singleton
    <3>7. b + i = b + j BY <3>4, <3>6
    <3> QED BY <3>3, <3>7
  <2>3. f = [i \in 1..n |-> f[i]] OBVIOUS
  <2> HIDE DEF f
  <2> QED BY <1>1, <2>1, <2>2, <2>3, ImageSize
<1> QED BY <1>2, <1>3

\* A trial under a set nobody evaluated yet withdraws no minimal set.
LEMMA MinimalGrows ==
  ASSUME NEW ts, NEW us, NEW r,
         us.baseline = ts.baseline, us.runs = ts.runs \cup {r},
         r.set \notin EvaluatedSets(ts)
  PROVE  Minimal(ts) \subseteq Minimal(us)
<1>1. Evaluated(us) = Evaluated(ts) \cup {r} BY DEF Evaluated
<1>2. EvaluatedSets(ts) \subseteq EvaluatedSets(us) BY <1>1 DEF EvaluatedSets
<1> SUFFICES ASSUME NEW s \in Minimal(ts) PROVE s \in Minimal(us) OBVIOUS
<1>3. s \in Successful(ts) /\ Covered(ts, s) /\ \A q \in ProperSubsets(s) : ~Succeeds(ts, q)
  BY DEF Minimal
<1>4. s \in Successful(us) BY <1>3 DEF Successful
<1>5. Covered(us, s) BY <1>2, <1>3 DEF Covered
<1>6. ASSUME NEW q \in ProperSubsets(s) PROVE ~Succeeds(us, q)
  BY <1>3, <1>1 DEF Covered, Succeeds
<1> QED BY <1>4, <1>5, <1>6 DEF Minimal

\* The inductive invariant: the reports are those of the Routes and trials.
IrInv ==
  /\ PairShape(pair)
  /\ comparison \in {<<>>, Comparison(pair)}
  /\ trials = [baseline |-> trials.baseline, runs |-> trials.runs]
  /\ version = "none" => trials = NoTrials
  /\ report = Attribution(trials)
  /\ CandidatesDistinct

\* Nothing is reported at first.
LEMMA IrInitially == IrInit => IrInv
<1> SUFFICES ASSUME IrInit PROVE IrInv OBVIOUS
<1>1. PairShape(pair) BY DEF IrInit, Idle, PairShape
<1>2. trials = [baseline |-> trials.baseline, runs |-> trials.runs]
  BY DEF IrInit, NoTrials
<1>3. CandidatesDistinct BY DEF IrInit, NoTrials, CandidatesDistinct
<1> QED BY <1>1, <1>2, <1>3 DEF IrInit, IrInv

\* A comparison.
LEMMA CompareKeeps ==
  ASSUME IrInv, Compare
  PROVE  IrInv' /\ MinimalKept
<1>1. PairShape(pair') /\ comparison' = Comparison(pair') BY ComparedShape DEF IrInv
<1>2. version' = version /\ trials' = trials /\ report' = report BY DEF Compare
<1> QED BY <1>1, <1>2 DEF IrInv, MinimalKept, CandidatesDistinct

\* A new attribution starts without minimal sets.
LEMMA StartKeeps ==
  ASSUME IrInv, StartAttribution
  PROVE  IrInv' /\ MinimalKept
<1>1. PICK c, i \in BOOLEAN :
        trials' = [trials EXCEPT !.baseline = [control |-> c, interrupted |-> i]]
  BY DEF StartAttribution
<1>2. trials = NoTrials /\ report = Attribution(trials) BY DEF StartAttribution, IrInv
<1>3. trials'.runs = {} /\ trials' = [baseline |-> trials'.baseline, runs |-> trials'.runs]
  BY <1>1, <1>2 DEF NoTrials
<1>4. Minimal(trials) = {} BY <1>2 DEF NoTrials, Minimal, Successful
<1>5. MinimalKept BY <1>2, <1>4 DEF MinimalKept, Attribution
<1>6. version' # "none" \/ trials' = NoTrials BY HandsAssumption DEF StartAttribution
<1>7. CandidatesDistinct' BY <1>3 DEF CandidatesDistinct
<1>8. report' = Attribution(trials') /\ pair' = pair /\ comparison' = comparison
  BY DEF StartAttribution
<1> QED BY <1>3, <1>5, <1>6, <1>7, <1>8 DEF IrInv

\* Another trial.
LEMMA AddTrialKeeps ==
  ASSUME IrInv, AddTrial
  PROVE  IrInv' /\ MinimalKept
<1>1. PICK hand \in TrialHands, c, i \in BOOLEAN :
        /\ Acceptable(version, hand)
        /\ Trial(version, hand, c, i).set \notin EvaluatedSets(trials)
        /\ trials' = [trials EXCEPT !.runs = @ \cup {Trial(version, hand, c, i)}]
        /\ report' = Attribution(trials') BY DEF AddTrial, Trial
<1>2. PICK r : r = Trial(version, hand, c, i) OBVIOUS
<1>3. r.set = Instances(version, hand) /\ r.cards = Len(Added(hand)) BY <1>2 DEF Trial
<1>4. trials = [baseline |-> trials.baseline, runs |-> trials.runs] BY DEF IrInv
<1>5. /\ trials'.baseline = trials.baseline /\ trials'.runs = trials.runs \cup {r}
      /\ trials' = [baseline |-> trials'.baseline, runs |-> trials'.runs]
  BY <1>1, <1>2, <1>4
<1>6. Minimal(trials) \subseteq Minimal(trials')
  <2>1. PICK ts : ts = trials OBVIOUS
  <2>2. PICK us : us = trials' OBVIOUS
  <2>3. us.baseline = ts.baseline /\ us.runs = ts.runs \cup {r} BY <1>5, <2>1, <2>2
  <2>4. r.set \notin EvaluatedSets(ts) BY <1>1, <1>2, <2>1
  <2>5. Minimal(ts) \subseteq Minimal(us) BY <2>3, <2>4, MinimalGrows
  <2> QED BY <2>1, <2>2, <2>5
<1>7. MinimalKept BY <1>1, <1>6 DEF MinimalKept, Attribution, IrInv
<1>8. Cardinality(r.set) = r.cards BY <1>1, <1>3, InstancesCounted
<1>9. CandidatesDistinct' BY <1>5, <1>8 DEF CandidatesDistinct, IrInv
<1>10. version # "none" /\ version' = version /\ pair' = pair /\ comparison' = comparison
  BY DEF AddTrial
<1> QED BY <1>1, <1>5, <1>7, <1>9, <1>10 DEF IrInv

\* Every step keeps the invariant and the minimal sets.
LEMMA IrStep == IrInv /\ [IrNext]_irVars => IrInv' /\ (MinimalKept \/ UNCHANGED irVars)
<1> SUFFICES ASSUME IrInv, [IrNext]_irVars PROVE IrInv' /\ (MinimalKept \/ UNCHANGED irVars)
  OBVIOUS
<1>1. CASE UNCHANGED irVars BY <1>1 DEF irVars, IrInv, CandidatesDistinct
<1>2. CASE IrNext BY <1>2, CompareKeeps, StartKeeps, AddTrialKeeps DEF IrNext
<1> QED BY <1>1, <1>2

\* What the invariant says of the reports.
LEMMA IrInvImplies == IrInv => RejoinLeadsToBoard /\ SameBoardNoDelta /\ CandidatesDistinct
BY ComparisonHolds DEF IrInv

\* Whatever Routes are compared and whatever hands are tried: a comparison that
\* rejoins the base Route before its board says so, equal boards have no score
\* difference, candidates are told apart, and no minimal set is withdrawn.
THEOREM InterruptionSafety == IrSpec => ReportConsistent
<1>1. IrSpec => []IrInv BY IrInitially, IrStep, PTL DEF IrSpec
<1>2. IrInv /\ IrInv' /\ [IrNext]_irVars
        => [/\ RejoinLeadsToBoard' /\ SameBoardNoDelta' /\ CandidatesDistinct'
            /\ MinimalKept]_irVars
  <2>1. IrInv' => RejoinLeadsToBoard' /\ SameBoardNoDelta' /\ CandidatesDistinct'
    BY IrInvImplies, PTL
  <2> QED BY <2>1, IrStep
<1> QED BY <1>1, <1>2, PTL DEF IrSpec, ReportConsistent

-----------------------------------------------------------------------------
(* PrefixCache: the bytes of a sequence of entries. *)
\* The recursive function behind BytesOf.
IsSums(es, n, f) == f = [i \in 0..n |-> IF i = 0 THEN 0 ELSE f[i - 1] + es[i].size]
Sums(es, n) == CHOOSE f : IsSums(es, n, f)

\* The recursive function behind BytesOf exists for every length.
LEMMA SumsExist == ASSUME NEW es, NEW n \in Nat PROVE \E f : IsSums(es, n, f)
<1> DEFINE ok(m) == \E f : IsSums(es, m, f)
           S == {m \in 0..n : ok(m)}
<1>1. ok(0)
  <2> DEFINE f == [i \in 0..0 |-> 0]
  <2>1. f = [i \in 0..0 |-> IF i = 0 THEN 0 ELSE f[i - 1] + es[i].size] OBVIOUS
  <2> QED BY <2>1 DEF IsSums
<1>2. ASSUME NEW m \in 0..(n - 1), ok(m) PROVE ok(m + 1)
  <2>1. PICK f : f = [i \in 0..m |-> IF i = 0 THEN 0 ELSE f[i - 1] + es[i].size]
    BY <1>2 DEF IsSums
  <2> DEFINE last == f[m] + es[m + 1].size
             g == [i \in 0..(m + 1) |-> IF i = m + 1 THEN last ELSE f[i]]
  <2>2. \A i \in 0..m : f[i] = IF i = 0 THEN 0 ELSE f[i - 1] + es[i].size BY <2>1
  <2>3. ASSUME NEW i \in 0..(m + 1)
        PROVE  g[i] = IF i = 0 THEN 0 ELSE g[i - 1] + es[i].size
    <3>1. CASE i = m + 1 BY <3>1
    <3>2. CASE i # m + 1
      <4>1. i \in 0..m BY <3>2
      <4>2. i # 0 => i - 1 \in 0..m /\ i - 1 \in 0..(m + 1) /\ i - 1 # m + 1 BY <4>1
      <4>3. i # 0 => g[i - 1] = f[i - 1] BY <4>2
      <4>4. g[i] = f[i] BY <3>2
      <4> QED BY <2>2, <4>1, <4>3, <4>4
    <3> QED BY <3>1, <3>2
  <2>4. g = [i \in 0..(m + 1) |-> g[i]] OBVIOUS
  <2> HIDE DEF g
  <2>5. g = [i \in 0..(m + 1) |-> IF i = 0 THEN 0 ELSE g[i - 1] + es[i].size]
    BY <2>3, <2>4
  <2> QED BY <2>5 DEF IsSums
<1> HIDE DEF ok
<1>3. \A m \in 0..n : m \in S
  <2>1. 0 \in S BY <1>1
  <2>2. \A m \in 0..(n - 1) : m \in S => m + 1 \in S BY <1>2
  <2> HIDE DEF S
  <2> QED BY <2>1, <2>2, Climb
<1>4. ok(n) BY <1>3
<1> QED BY <1>4 DEF ok

\* h adds up the sizes of es.
Adds(es, h) == h[0] = 0 /\ \A i \in 1..Len(es) : h[i] = h[i - 1] + es[i].size

\* BytesOf is the last of the sums.
LEMMA BytesAdded ==
  ASSUME NEW es, Len(es) \in Nat
  PROVE  \E h : Adds(es, h) /\ BytesOf(es) = h[Len(es)]
<1>1. PICK f : f = Sums(es, Len(es)) OBVIOUS
<1>2. IsSums(es, Len(es), f) BY <1>1, SumsExist, Zenon DEF Sums
<1>3. BytesOf(es) = f[Len(es)] BY <1>1, Zenon DEF BytesOf, Sums, IsSums
<1>4. 0 \in 0..Len(es) /\ \A i \in 1..Len(es) : i \in 0..Len(es) /\ i # 0 OBVIOUS
<1>5. Adds(es, f) BY <1>2, <1>4 DEF Adds, IsSums
<1> QED BY <1>3, <1>5

\* Two sums of the same entries agree, and are numbers.
LEMMA SumsAgree ==
  ASSUME NEW es \in Seq(PcEntries), NEW h, Adds(es, h)
  PROVE  BytesOf(es) = h[Len(es)] /\ \A i \in 0..Len(es) : h[i] \in Nat
<1>1. PICK f : Adds(es, f) /\ BytesOf(es) = f[Len(es)] BY BytesAdded
<1> DEFINE n == Len(es)
           S == {i \in 0..n : f[i] = h[i] /\ h[i] \in Nat}
<1>2. 0 \in S BY <1>1 DEF Adds
<1>3. ASSUME NEW i \in 0..(n - 1), i \in S PROVE i + 1 \in S
  BY <1>1, <1>3, EntriesAssumption DEF Adds
<1> HIDE DEF S
<1>4. \A i \in 0..n : i \in S BY <1>2, <1>3, Climb
<1> QED BY <1>1, <1>4 DEF S

\* The bytes of entries are a number; none has none, one has its size.
LEMMA BytesBasics ==
  /\ \A es \in Seq(PcEntries) : BytesOf(es) \in Nat
  /\ BytesOf(<<>>) = 0
  /\ \A e \in PcEntries : BytesOf(<<e>>) = e.size
<1>1. ASSUME NEW es \in Seq(PcEntries) PROVE BytesOf(es) \in Nat
  BY BytesAdded, SumsAgree
<1>2. BytesOf(<<>>) = 0 BY BytesAdded DEF Adds
<1>3. ASSUME NEW e \in PcEntries PROVE BytesOf(<<e>>) = e.size
  <2>1. <<e>> \in Seq(PcEntries) /\ Len(<<e>>) = 1 /\ <<e>>[1] = e OBVIOUS
  <2>2. PICK h : Adds(<<e>>, h) /\ BytesOf(<<e>>) = h[1] BY <2>1, BytesAdded
  <2>3. h[0] = 0 /\ h[1] = h[0] + e.size BY <2>1, <2>2 DEF Adds
  <2> QED BY <2>2, <2>3, EntriesAssumption
<1> QED BY <1>1, <1>2, <1>3

\* The bytes of two sequences of entries add up.
LEMMA BytesConcat ==
  ASSUME NEW s \in Seq(PcEntries), NEW t \in Seq(PcEntries)
  PROVE  BytesOf(s \o t) = BytesOf(s) + BytesOf(t)
<1>1. PICK f : Adds(s, f) /\ BytesOf(s) = f[Len(s)] BY BytesAdded
<1>2. PICK g : Adds(t, g) /\ BytesOf(t) = g[Len(t)] BY BytesAdded
<1> DEFINE m == Len(s)
           n == Len(t)
           h == [i \in 0..(m + n) |-> IF i <= m THEN f[i] ELSE f[m] + g[i - m]]
<1>3. /\ s \o t \in Seq(PcEntries) /\ Len(s \o t) = m + n
      /\ \A i \in 1..(m + n) : (s \o t)[i] = IF i <= m THEN s[i] ELSE t[i - m]
  BY ConcatProperties
<1>4. m \in Nat /\ n \in Nat OBVIOUS
<1>5. (\A i \in 0..m : f[i] \in Nat) /\ (\A i \in 0..n : g[i] \in Nat)
  BY <1>1, <1>2, SumsAgree
<1>6. f[0] = 0 /\ g[0] = 0 BY <1>1, <1>2 DEF Adds
<1> HIDE DEF m, n
<1>7. ASSUME NEW i \in 1..(m + n)
      PROVE  h[i] = h[i - 1] + (s \o t)[i].size
  <2>1. i \in 0..(m + n) /\ i - 1 \in 0..(m + n) BY <1>4
  <2>2. CASE i <= m BY <1>4, <1>1, <1>3, <2>2, <2>1 DEF Adds, m
  <2>3. CASE i = m + 1
    <3>1. 1 \in 1..n /\ ~ (i <= m) /\ i - 1 = m /\ i - m = 1 /\ m <= m BY <1>4, <2>3
    <3>2. g[1] = g[0] + t[1].size BY <1>2, <3>1 DEF Adds, n
    <3>3. t[1].size \in Nat /\ f[m] \in Nat
      BY <1>4, <1>5, <3>1, EntriesAssumption DEF n
    <3>4. h[i] = f[m] + g[1] /\ h[i - 1] = f[m] /\ (s \o t)[i] = t[1]
      BY <1>3, <2>1, <3>1
    <3> QED BY <1>6, <3>2, <3>3, <3>4
  <2>4. CASE i > m + 1
    <3>1. /\ i - m \in 1..n /\ ~ (i <= m) /\ ~ (i - 1 <= m)
          /\ (i - 1) - m = (i - m) - 1 /\ (i - m) - 1 \in 0..n BY <1>4, <2>4
    <3>2. g[i - m] = g[(i - m) - 1] + t[i - m].size BY <1>2, <3>1 DEF Adds, n
    <3>3. t[i - m].size \in Nat /\ f[m] \in Nat /\ g[(i - m) - 1] \in Nat
      BY <1>4, <1>5, <3>1, EntriesAssumption DEF n
    <3>4. /\ h[i] = f[m] + g[i - m] /\ h[i - 1] = f[m] + g[(i - m) - 1]
          /\ (s \o t)[i] = t[i - m] BY <1>3, <2>1, <3>1
    <3> HIDE DEF h
    <3> QED BY <3>2, <3>3, <3>4
  <2>5. i <= m \/ i = m + 1 \/ i > m + 1 BY <1>4
  <2> HIDE DEF h
  <2> QED BY <2>2, <2>3, <2>4, <2>5
<1>8. h[0] = 0 BY <1>4, <1>6
<1>9. h[m + n] = f[m] + g[n]
  <2>1. m + n \in 0..(m + n) /\ (m + n) - m = n BY <1>4
  <2>2. CASE n = 0
    <3>1. m + n = m /\ m <= m BY <1>4, <2>2
    <3>2. f[m] \in Nat BY <1>4, <1>5
    <3>3. h[m + n] = f[m] BY <2>1, <3>1
    <3> HIDE DEF h
    <3> QED BY <1>6, <2>2, <3>2, <3>3
  <2>3. CASE n # 0 BY <1>4, <2>3, <2>1
  <2> QED BY <2>2, <2>3
<1> HIDE DEF h
<1>10. Adds(s \o t, h) BY <1>3, <1>7, <1>8 DEF Adds
<1>11. BytesOf(s \o t) = h[m + n] BY <1>3, <1>10, SumsAgree
<1> QED BY <1>1, <1>2, <1>9, <1>11 DEF m, n

(* Caches. *)
CacheRecords ==
  [policy : PcPolicies, entries : Seq(PcEntries), bytes : Int, hits : Int, misses : Int,
   evictions : Int, invalidations : Int, replaced : Int, dirty : Int]

Distinct(es) == \A i, j \in 1..Len(es) : es[i].key = es[j].key => i = j

\* A cache with one entry per key whose byte counter is right.
Held(c) == c \in CacheRecords /\ Distinct(c.entries) /\ c.bytes = BytesOf(c.entries)
Within(c) == c.bytes <= c.policy.max_bytes /\ Len(c.entries) <= c.policy.max_entries

\* n entries were put; each is still there or counted once.
Balanced(c, n) == n = Len(c.entries) + c.replaced + c.evictions + c.invalidations

\* Entries with different keys have as many keys.
LEMMA KeysCounted ==
  ASSUME NEW es \in Seq(PcEntries), Distinct(es)
  PROVE  Cardinality(KeysOf(es)) = Len(es)
<1> DEFINE n == Len(es)
           f == [i \in 1..n |-> es[i].key]
<1>1. n \in Nat OBVIOUS
<1>2. f \in [1..n -> KeysOf(es)] BY DEF KeysOf
<1>3. \A i, j \in 1..n : f[i] = f[j] => i = j BY DEF Distinct
<1>4. \A k \in KeysOf(es) : \E i \in 1..n : f[i] = k BY DEF KeysOf
<1>5. IsFiniteSet(1..n) /\ Cardinality(1..n) = n
  <2>1. 1 \in Int /\ n \in Int /\ (IF 1 > n THEN 0 ELSE n - 1 + 1) = n BY <1>1
  <2>2. IsFiniteSet(1..n) /\ Cardinality(1..n) = IF 1 > n THEN 0 ELSE n - 1 + 1
    BY <2>1, FS_Interval, Zenon
  <2> QED BY <2>1, <2>2
<1> HIDE DEF f, n
<1>6. f \in Bijection(1..n, KeysOf(es))
  BY <1>2, <1>3, <1>4 DEF Bijection, Injection, Surjection, IsInjective
<1>7. ExistsBijection(1..n, KeysOf(es)) BY <1>6 DEF ExistsBijection
<1>8. Cardinality(KeysOf(es)) = Cardinality(1..n) BY <1>5, <1>7, FS_Bijection
<1> QED BY <1>5, <1>8 DEF n

\* A key is found at its index.
LEMMA IndexFound ==
  ASSUME NEW es \in Seq(PcEntries), NEW k \in KeysOf(es)
  PROVE  /\ IndexOf(es, k) \in 1..Len(es) /\ es[IndexOf(es, k)].key = k
         /\ EntryOf(es, k) = es[IndexOf(es, k)] /\ EntryOf(es, k) \in PcEntries
<1>1. \E i \in 1..Len(es) : es[i].key = k BY DEF KeysOf
<1>2. IndexOf(es, k) \in 1..Len(es) /\ es[IndexOf(es, k)].key = k BY <1>1 DEF IndexOf
<1> QED BY <1>2 DEF EntryOf

\* What is left without a key.
LEMMA WithoutEffect ==
  ASSUME NEW es \in Seq(PcEntries), Distinct(es), NEW k \in KeysOf(es)
  PROVE  LET w == Without(es, k) IN
         /\ w \in Seq(PcEntries) /\ Len(w) = Len(es) - 1 /\ Distinct(w)
         /\ KeysOf(w) = KeysOf(es) \ {k}
         /\ BytesOf(es) = BytesOf(w) + EntryOf(es, k).size
<1> DEFINE i == IndexOf(es, k)
           n == Len(es)
           a == SubSeq(es, 1, i - 1)
           b == SubSeq(es, i + 1, n)
           w == Without(es, k)
<1>1. i \in 1..n /\ es[i].key = k /\ EntryOf(es, k) = es[i] /\ es[i] \in PcEntries
  BY IndexFound
<1>2. n \in Nat /\ \A j \in 1..n : es[j] \in PcEntries OBVIOUS
<1>3. w = a \o b BY DEF Without
<1> HIDE DEF i, w
<1>4. /\ a \in Seq(PcEntries) /\ Len(a) = i - 1
      /\ \A j \in 1..(i - 1) : a[j] = es[j]
  <2>1. 1 \in Int /\ i - 1 \in Int /\ \A j \in 1..(i - 1) : es[j] \in PcEntries
    BY <1>1, <1>2
  <2>2. /\ a \in Seq(PcEntries) /\ Len(a) = IF 1 <= i - 1 THEN i - 1 - 1 + 1 ELSE 0
        /\ \A j \in 1..(i - 1 - 1 + 1) : a[j] = es[1 + j - 1] BY <2>1, SubSeqProperties
  <2> HIDE DEF a
  <2> QED BY <1>1, <2>2
<1>5. /\ b \in Seq(PcEntries) /\ Len(b) = n - i
      /\ \A j \in 1..(n - i) : b[j] = es[i + j]
  <2>1. i + 1 \in Int /\ n \in Int /\ \A j \in (i + 1)..n : es[j] \in PcEntries
    BY <1>1, <1>2
  <2>2. /\ b \in Seq(PcEntries) /\ Len(b) = IF i + 1 <= n THEN n - (i + 1) + 1 ELSE 0
        /\ \A j \in 1..(n - (i + 1) + 1) : b[j] = es[i + 1 + j - 1]
    BY <2>1, SubSeqProperties
  <2> HIDE DEF b
  <2> QED BY <1>1, <1>2, <2>2
<1> HIDE DEF a, b, n
<1>6. /\ w \in Seq(PcEntries) /\ Len(w) = n - 1
      /\ \A j \in 1..(n - 1) : w[j] = es[IF j < i THEN j ELSE j + 1]
  <2>1. /\ w \in Seq(PcEntries) /\ Len(w) = Len(a) + Len(b)
        /\ \A j \in 1..(Len(a) + Len(b)) : w[j] = IF j <= Len(a) THEN a[j] ELSE b[j - Len(a)]
    BY <1>3, <1>4, <1>5, ConcatProperties
  <2>2. Len(a) + Len(b) = n - 1 BY <1>1, <1>2, <1>4, <1>5
  <2>3. ASSUME NEW j \in 1..(n - 1) PROVE w[j] = es[IF j < i THEN j ELSE j + 1]
    <3>1. CASE j < i BY <1>1, <1>2, <1>4, <2>1, <2>2, <3>1
    <3>2. CASE ~ (j < i) BY <1>1, <1>2, <1>4, <1>5, <2>1, <2>2, <3>2
    <3> QED BY <3>1, <3>2
  <2> QED BY <2>1, <2>2, <2>3
<1>7. \A j, h \in 1..n : es[j].key = es[h].key => j = h BY DEF Distinct, n
<1>8. \A j \in 1..(n - 1) : (IF j < i THEN j ELSE j + 1) \in 1..n \ {i} BY <1>1, <1>2
<1>9. \A j, h \in 1..(n - 1) :
        (IF j < i THEN j ELSE j + 1) = (IF h < i THEN h ELSE h + 1) => j = h
  BY <1>1, <1>2
<1>10. Distinct(w) BY <1>6, <1>7, <1>8, <1>9, SMTT(30) DEF Distinct
<1>11. KeysOf(w) = KeysOf(es) \ {k}
  <2>1. KeysOf(w) = {w[j].key : j \in 1..(n - 1)} /\ KeysOf(es) = {es[j].key : j \in 1..n}
    BY <1>6 DEF KeysOf, n
  <2>2. ASSUME NEW x \in KeysOf(w) PROVE x \in KeysOf(es) \ {k}
    BY <1>6, <1>8, <1>1, <1>7, <2>1
  <2>3. ASSUME NEW x \in KeysOf(es) \ {k} PROVE x \in KeysOf(w)
    <3>1. PICK h \in 1..n : x = es[h].key BY <2>1
    <3>2. h # i BY <1>1, <3>1
    <3>3. PICK j \in 1..(n - 1) : h = IF j < i THEN j ELSE j + 1
      <4>1. CASE h < i BY <1>1, <1>2, <4>1
      <4>2. CASE h > i BY <1>1, <1>2, <4>2
      <4> QED BY <1>1, <3>2, <4>1, <4>2
    <3>4. w[j] = es[h] BY <1>6, <3>3
    <3> QED BY <2>1, <3>1, <3>4
  <2> QED BY <2>2, <2>3
<1>12. BytesOf(es) = BytesOf(w) + EntryOf(es, k).size
  <2> DEFINE e == <<es[i]>>
             ae == a \o e
  <2>1. e \in Seq(PcEntries) /\ Len(e) = 1 /\ e[1] = es[i] BY <1>1
  <2> HIDE DEF e
  <2>2. /\ a \o e \in Seq(PcEntries) /\ Len(a \o e) = i
        /\ \A j \in 1..i : (a \o e)[j] = es[j]
    <3>1. /\ a \o e \in Seq(PcEntries) /\ Len(a \o e) = Len(a) + Len(e)
          /\ \A j \in 1..(Len(a) + Len(e)) :
               (a \o e)[j] = IF j <= Len(a) THEN a[j] ELSE e[j - Len(a)]
      BY <1>4, <2>1, ConcatProperties
    <3>2. Len(a) + Len(e) = i BY <1>1, <1>4, <2>1
    <3>3. ASSUME NEW j \in 1..i PROVE (a \o e)[j] = es[j]
      <4>1. CASE j <= Len(a) BY <1>1, <1>4, <3>1, <3>2, <4>1
      <4>2. CASE ~ (j <= Len(a)) BY <1>1, <1>4, <2>1, <3>1, <3>2, <4>2
      <4> QED BY <4>1, <4>2
    <3> QED BY <3>1, <3>2, <3>3
  <2>8. ae \in Seq(PcEntries) /\ Len(ae) = i /\ \A j \in 1..i : ae[j] = es[j] BY <2>2
  <2>9. BytesOf(ae) = BytesOf(a) + BytesOf(e) BY <1>4, <2>1, BytesConcat
  <2> HIDE DEF ae
  <2>3. ae \o b = es
    <3>1. /\ ae \o b \in Seq(PcEntries) /\ Len(ae \o b) = Len(ae) + Len(b)
          /\ \A j \in 1..(Len(ae) + Len(b)) :
               (ae \o b)[j] = IF j <= Len(ae) THEN ae[j] ELSE b[j - Len(ae)]
      BY <1>5, <2>8, ConcatProperties
    <3>2. Len(ae) + Len(b) = n BY <1>1, <1>2, <1>5, <2>8
    <3>3. ASSUME NEW j \in 1..n PROVE (ae \o b)[j] = es[j]
      <4>1. CASE j <= i BY <1>1, <2>8, <3>1, <3>2, <4>1
      <4>2. CASE ~ (j <= i) BY <1>1, <1>2, <1>5, <2>8, <3>1, <3>2, <4>2
      <4> QED BY <4>1, <4>2
    <3>4. Len(ae \o b) = Len(es) BY <3>1, <3>2 DEF n
    <3> QED BY <3>1, <3>3, <3>4, SeqEqual DEF n
  <2>4. BytesOf(es) = (BytesOf(a) + BytesOf(e)) + BytesOf(b)
    BY <1>5, <2>3, <2>8, <2>9, BytesConcat
  <2>5. BytesOf(w) = BytesOf(a) + BytesOf(b) BY <1>3, <1>4, <1>5, BytesConcat
  <2>6. BytesOf(e) = EntryOf(es, k).size BY <1>1, BytesBasics DEF e
  <2>7. BytesOf(a) \in Nat /\ BytesOf(b) \in Nat /\ BytesOf(e) \in Nat
    BY <1>4, <1>5, <2>1, BytesBasics
  <2> QED BY <2>4, <2>5, <2>6, <2>7
<1> QED BY <1>6, <1>10, <1>11, <1>12 DEF w, n

\* The fields of a cache.
LEMMA CacheFields ==
  ASSUME NEW c, Held(c)
  PROVE  /\ c.policy \in PcPolicies /\ c.entries \in Seq(PcEntries) /\ Len(c.entries) \in Nat
         /\ {c.bytes, c.hits, c.misses, c.evictions, c.invalidations, c.replaced, c.dirty}
              \subseteq Int
         /\ c.policy.max_entries \in Int /\ c.policy.max_bytes \in Int
         /\ c.policy.max_entry_bytes \in Int
         /\ c.policy.max_entries >= 1 /\ c.policy.max_entry_bytes <= c.policy.max_bytes
<1>1. c \in CacheRecords BY DEF Held
<1>2. c.policy \in PcPolicies /\ c.entries \in Seq(PcEntries) BY <1>1 DEF CacheRecords
<1>3. {c.bytes, c.hits, c.misses, c.evictions, c.invalidations, c.replaced, c.dirty} \subseteq Int
  BY <1>1 DEF CacheRecords
<1>4. /\ ValidPolicy(c.policy)
      /\ {c.policy.max_entries, c.policy.max_bytes, c.policy.max_entry_bytes, c.policy.flush_every}
           \subseteq Int BY <1>2, PoliciesAssumption
<1> QED BY <1>2, <1>3, <1>4 DEF ValidPolicy

\* _remove: one entry less, if there was one.
LEMMA RemoveEffect ==
  ASSUME NEW c, Held(c), NEW k
  PROVE  LET r == RemoveKey(c, k) IN
         /\ Held(r) /\ r.policy = c.policy
         /\ Len(r.entries) = Len(c.entries) - (IF k \in KeysOf(c.entries) THEN 1 ELSE 0)
         /\ KeysOf(r.entries) = KeysOf(c.entries) \ {k}
         /\ r.bytes <= c.bytes
         /\ r.replaced = c.replaced /\ r.evictions = c.evictions
         /\ r.invalidations = c.invalidations
         /\ k \notin KeysOf(c.entries) => r = c
<1> DEFINE r == RemoveKey(c, k)
<1>1. CASE k \notin KeysOf(c.entries) BY <1>1, CacheFields DEF RemoveKey
<1>2. CASE k \in KeysOf(c.entries)
  <2> DEFINE w == Without(c.entries, k)
             size == EntryOf(c.entries, k).size
  <2>1. /\ w \in Seq(PcEntries) /\ Len(w) = Len(c.entries) - 1 /\ Distinct(w)
        /\ KeysOf(w) = KeysOf(c.entries) \ {k}
        /\ BytesOf(c.entries) = BytesOf(w) + size
    BY <1>2, CacheFields, WithoutEffect DEF Held
  <2>2. size \in Nat BY <1>2, CacheFields, IndexFound, EntriesAssumption
  <2>3. r = [c EXCEPT !.entries = Without(@, k), !.dirty = @ + 1,
                      !.bytes = @ - EntryOf(c.entries, k).size] BY <1>2 DEF RemoveKey
  <2>4. r = [c EXCEPT !.entries = w, !.dirty = c.dirty + 1, !.bytes = c.bytes - size]
    BY <2>3
  <2> HIDE DEF r, w, size
  <2>5. c \in CacheRecords /\ c.bytes = BytesOf(c.entries) BY DEF Held
  <2>6. /\ r.entries = w /\ r.bytes = c.bytes - size /\ r.policy = c.policy
        /\ r.replaced = c.replaced /\ r.evictions = c.evictions
        /\ r.invalidations = c.invalidations BY <2>4, <2>5 DEF CacheRecords
  <2>7. c.bytes \in Int /\ c.dirty \in Int /\ BytesOf(w) \in Nat
    BY <2>1, CacheFields, BytesBasics
  <2>8. r \in CacheRecords
    <3> DEFINE d == c.dirty + 1
               b == c.bytes - size
    <3>1. d \in Int /\ b \in Int /\ w \in Seq(PcEntries) BY <2>1, <2>2, <2>7
    <3>2. r = [c EXCEPT !.entries = w, !.dirty = d, !.bytes = b] BY <2>4
    <3> HIDE DEF d, b
    <3> QED BY <2>5, <3>1, <3>2 DEF CacheRecords
  <2>9. r.bytes = BytesOf(w) /\ r.bytes <= c.bytes BY <2>1, <2>2, <2>5, <2>6, <2>7
  <2>10. Held(r) BY <2>1, <2>6, <2>8, <2>9 DEF Held
  <2> QED BY <1>2, <2>1, <2>6, <2>9, <2>10 DEF r
<1> QED BY <1>1, <1>2

\* The eviction loop ends, before it reaches an entry that fits.
LEMMA EvictEffect ==
  ASSUME NEW c, Held(c), Len(c.entries) # 0,
         c.entries[Len(c.entries)].size <= c.policy.max_bytes
  PROVE  LET v == Evict(c) IN
         /\ Held(v) /\ Within(v) /\ v.policy = c.policy
         /\ v.replaced = c.replaced /\ v.invalidations = c.invalidations
         /\ \E n \in 0..(Len(c.entries) - 1) :
              /\ v.entries = SubSeq(c.entries, n + 1, Len(c.entries))
              /\ Len(v.entries) = Len(c.entries) - n
              /\ v.evictions = c.evictions + n
<1> DEFINE es == c.entries
           l == Len(es)
           old(m) == SubSeq(es, 1, m)
           rest(m) == SubSeq(es, m + 1, l)
<1>1. /\ es \in Seq(PcEntries) /\ l \in Nat /\ l # 0 /\ c.bytes = BytesOf(es) /\ Distinct(es)
      /\ es[l].size <= c.policy.max_bytes BY CacheFields DEF Held
<1>2. /\ c.bytes \in Int /\ c.evictions \in Int /\ c.dirty \in Int
      /\ c.policy.max_entries \in Int /\ c.policy.max_bytes \in Int /\ c.policy.max_entries >= 1
  BY CacheFields
<1> HIDE DEF es
<1>3. ASSUME NEW m \in 0..l
      PROVE  /\ old(m) \in Seq(PcEntries)
             /\ rest(m) \in Seq(PcEntries) /\ Len(rest(m)) = l - m
             /\ \A j \in 1..(l - m) : rest(m)[j] = es[m + j]
             /\ c.bytes - BytesOf(old(m)) = BytesOf(rest(m))
  <2>1. \A j \in 1..l : es[j] \in PcEntries BY <1>1
  <2>2. old(m) \in Seq(PcEntries) BY <1>1, <2>1, SubSeqProperties
  <2>3. /\ rest(m) \in Seq(PcEntries) /\ Len(rest(m)) = l - m
        /\ \A j \in 1..(l - m) : rest(m)[j] = es[m + j]
    <3>1. m + 1 \in Int /\ l \in Int /\ \A j \in (m + 1)..l : es[j] \in PcEntries
      BY <1>1, <2>1
    <3>2. /\ rest(m) \in Seq(PcEntries)
          /\ Len(rest(m)) = IF m + 1 <= l THEN l - (m + 1) + 1 ELSE 0
          /\ \A j \in 1..(l - (m + 1) + 1) : rest(m)[j] = es[m + 1 + j - 1]
      BY <3>1, SubSeqProperties
    <3> HIDE DEF rest
    <3> QED BY <1>1, <3>2, SMTT(30)
  <2>4. old(m) \o rest(m) = es
    <3>1. 1 \in 1..(Len(es) + 1) /\ m \in (1 - 1)..Len(es) /\ l \in m..Len(es) BY <1>1
    <3>2. SubSeq(es, 1, m) \o SubSeq(es, m + 1, l) = SubSeq(es, 1, l)
      BY <1>1, <3>1, ConcatAdjacentSubSeq, Zenon
    <3>3. SubSeq(es, 1, l) = es BY <1>1, SubSeqFull
    <3> QED BY <3>2, <3>3
  <2> HIDE DEF old, rest, l
  <2>5. BytesOf(es) = BytesOf(old(m)) + BytesOf(rest(m))
    BY <2>2, <2>3, <2>4, BytesConcat
  <2>6. BytesOf(old(m)) \in Nat /\ BytesOf(rest(m)) \in Nat BY <2>2, <2>3, BytesBasics
  <2> QED BY <1>1, <2>2, <2>3, <2>5, <2>6
<1> DEFINE over(m) == Overfull(c, m)
<1>4. ASSUME NEW m \in 0..l
      PROVE  over(m) <=> \/ l - m > c.policy.max_entries
                         \/ BytesOf(rest(m)) > c.policy.max_bytes
  <2>1. over(m) <=> \/ Len(rest(m)) > c.policy.max_entries
                    \/ c.bytes - BytesOf(old(m)) > c.policy.max_bytes
    BY DEF Overfull, es
  <2> HIDE DEF over, old, rest, l
  <2> QED BY <1>3, <2>1
<1>5. ~over(l - 1)
  <2>1. l - 1 \in 0..l /\ l - (l - 1) = 1 /\ (l - 1) + 1 = l BY <1>1
  <2>2. Len(rest(l - 1)) = 1 /\ rest(l - 1)[1] = es[l] /\ rest(l - 1) \in Seq(PcEntries)
    <3> DEFINE m == l - 1
    <3>1. /\ m \in 0..l /\ l - m = 1 /\ m + 1 = l BY <2>1
    <3> HIDE DEF m
    <3>2. /\ rest(m) \in Seq(PcEntries) /\ Len(rest(m)) = l - m
          /\ \A j \in 1..(l - m) : rest(m)[j] = es[m + j] BY <1>3, <3>1
    <3> HIDE DEF rest, l
    <3>3. Len(rest(m)) = 1 /\ rest(m)[1] = es[l] /\ rest(m) \in Seq(PcEntries)
      BY <3>1, <3>2
    <3> QED BY <3>3 DEF m
  <2>3. es[l] \in PcEntries BY <1>1
  <2> HIDE DEF rest
  <2>4. rest(l - 1) = <<es[l]>> BY <2>3, <2>2, SeqEqual
  <2>5. BytesOf(rest(l - 1)) = es[l].size BY <2>3, <2>4, BytesBasics
  <2>6. es[l].size \in Nat BY <2>3, EntriesAssumption
  <2>7. over(l - 1) <=> \/ l - (l - 1) > c.policy.max_entries
                        \/ BytesOf(rest(l - 1)) > c.policy.max_bytes BY <1>4, <2>1
  <2> HIDE DEF over, rest, l
  <2>8. ~ (l - (l - 1) > c.policy.max_entries) BY <1>2, <2>1
  <2>9. ~ (BytesOf(rest(l - 1)) > c.policy.max_bytes) BY <1>1, <1>2, <2>5, <2>6
  <2> QED BY <2>7, <2>8, <2>9
<1> DEFINE n == CHOOSE m \in 0..l : ~over(m) /\ \A j \in 0..(m - 1) : over(j)
           v == Evict(c)
<1>6. n \in 0..l /\ ~over(n) /\ \A j \in 0..(n - 1) : over(j)
  <2> DEFINE T == {m \in 0..l : ~over(m)}
  <2> HIDE DEF over
  <2>1. T \in SUBSET Nat /\ l - 1 \in T BY <1>1, <1>5
  <2>2. PICK x \in T : \A y \in T : x <= y
    <3> HIDE DEF T
    <3> QED BY <2>1, LeastOf
  <2>3. x \in 0..l /\ ~over(x) OBVIOUS
  <2>4. ASSUME NEW j \in 0..(x - 1) PROVE over(j) BY <1>1, <2>3, <2>2
  <2>5. \E m \in 0..l : ~over(m) /\ \A j \in 0..(m - 1) : over(j) BY <2>3, <2>4
  <2> QED BY <2>5
<1>7. v = [c EXCEPT !.entries = SubSeq(@, n + 1, Len(@)), !.evictions = @ + n, !.dirty = @ + n,
                    !.bytes = @ - BytesOf(SubSeq(c.entries, 1, n))] BY DEF Evict, es
<1>8. v = [c EXCEPT !.entries = rest(n), !.evictions = c.evictions + n, !.dirty = c.dirty + n,
                    !.bytes = c.bytes - BytesOf(old(n))] BY <1>7 DEF es
<1> HIDE DEF v, n, over
<1>9. n \in 0..(l - 1) BY <1>1, <1>5, <1>6
<1>10. c \in CacheRecords BY DEF Held
<1>11. /\ rest(n) \in Seq(PcEntries) /\ Len(rest(n)) = l - n
       /\ c.bytes - BytesOf(old(n)) = BytesOf(rest(n)) /\ BytesOf(rest(n)) \in Nat
       /\ \A j \in 1..(l - n) : rest(n)[j] = es[n + j] BY <1>3, <1>6, BytesBasics
<1>12. ~ (l - n > c.policy.max_entries) /\ ~ (BytesOf(rest(n)) > c.policy.max_bytes)
  BY <1>4, <1>6
<1>13. \A i, j \in 1..l : es[i].key = es[j].key => i = j BY <1>1 DEF Distinct
<1> DEFINE q == rest(n)
<1>14. q = SubSeq(es, n + 1, l) OBVIOUS
<1>15. v = [c EXCEPT !.entries = q, !.evictions = c.evictions + n, !.dirty = c.dirty + n,
                     !.bytes = BytesOf(q)] BY <1>8, <1>11
<1>16. /\ q \in Seq(PcEntries) /\ Len(q) = l - n /\ BytesOf(q) \in Nat
       /\ ~ (l - n > c.policy.max_entries) /\ ~ (BytesOf(q) > c.policy.max_bytes)
       /\ \A j \in 1..(l - n) : q[j] = es[n + j] BY <1>11, <1>12
<1> HIDE DEF q, l
<1>17. Distinct(q)
  <2> SUFFICES ASSUME NEW i \in 1..(l - n), NEW j \in 1..(l - n), q[i].key = q[j].key
               PROVE  i = j BY <1>16 DEF Distinct
  <2>1. n + i \in 1..l /\ n + j \in 1..l BY <1>1, <1>9
  <2>2. n + i = n + j BY <1>13, <1>16, <2>1
  <2> QED BY <1>9, <2>2
<1>18. /\ v.entries = q /\ v.bytes = BytesOf(q) /\ v.policy = c.policy
       /\ v.replaced = c.replaced /\ v.invalidations = c.invalidations
       /\ v.evictions = c.evictions + n BY <1>10, <1>15 DEF CacheRecords
<1>19. v \in CacheRecords
  <2> DEFINE d == c.dirty + n
             g == c.evictions + n
             b == BytesOf(q)
  <2>1. d \in Int /\ g \in Int /\ b \in Int /\ q \in Seq(PcEntries) BY <1>9, <1>2, <1>16
  <2>2. v = [c EXCEPT !.entries = q, !.evictions = g, !.dirty = d, !.bytes = b]
    BY <1>15
  <2> HIDE DEF d, g, b
  <2> QED BY <1>10, <2>1, <2>2 DEF CacheRecords
<1>20. Held(v) BY <1>17, <1>18, <1>19 DEF Held
<1>21. Within(v)
  <2>1. /\ v.bytes = BytesOf(q) /\ Len(v.entries) = l - n
        /\ v.policy = c.policy BY <1>16, <1>18
  <2>2. l - n \in Int /\ BytesOf(q) \in Int BY <1>1, <1>9, <1>16
  <2>3. l - n <= c.policy.max_entries /\ BytesOf(q) <= c.policy.max_bytes
    BY <1>2, <1>16, <2>2
  <2> QED BY <2>1, <2>3 DEF Within
<1> QED BY <1>9, <1>14, <1>16, <1>18, <1>20, <1>21 DEF v, es, l

\* An entry with a new key at the end.
LEMMA AppendKeeps ==
  ASSUME NEW s \in Seq(PcEntries), Distinct(s), NEW e \in PcEntries, e.key \notin KeysOf(s)
  PROVE  LET t == Append(s, e) IN
         /\ t \in Seq(PcEntries) /\ Distinct(t) /\ Len(t) = Len(s) + 1 /\ t[Len(s) + 1] = e
         /\ BytesOf(t) = BytesOf(s) + e.size
<1> DEFINE t == Append(s, e)
           l == Len(s)
<1>1. /\ t \in Seq(PcEntries) /\ Len(t) = l + 1 /\ t[l + 1] = e
      /\ \A i \in 1..l : t[i] = s[i] BY AppendProperties
<1>2. l \in Nat OBVIOUS
<1>3. BytesOf(t) = BytesOf(s) + e.size
  <2>1. t = s \o <<e>> /\ <<e>> \in Seq(PcEntries) BY AppendIsConcat
  <2> HIDE DEF t
  <2>2. BytesOf(t) = BytesOf(s) + BytesOf(<<e>>) BY <2>1, BytesConcat
  <2> QED BY <2>2, BytesBasics
<1>4. \A i, j \in 1..l : s[i].key = s[j].key => i = j BY DEF Distinct
<1>5. \A i \in 1..l : s[i].key # e.key BY DEF KeysOf
<1> HIDE DEF t, l
<1>6. Distinct(t)
  <2> SUFFICES ASSUME NEW i \in 1..(l + 1), NEW j \in 1..(l + 1), t[i].key = t[j].key
               PROVE  i = j BY <1>1 DEF Distinct
  <2>1. (i \in 1..l \/ i = l + 1) /\ (j \in 1..l \/ j = l + 1) BY <1>2
  <2> QED BY <1>1, <1>4, <1>5, <2>1
<1> QED BY <1>1, <1>3, <1>6 DEF t, l

\* What is removed, added and evicted is counted once.
LEMMA CountsMove ==
  \A l, x, y, z, one, d \in Int :
    /\ (l + x + y + z) + 1 = ((l - one) + 1 - d) + (x + one) + (y + d) + z
    /\ l + x + y + z = (l - 1) + x + y + (z + 1)
OBVIOUS

\* put: the entry is the newest, and the counters account for what went.
LEMMA CachePutEffect ==
  ASSUME NEW c, Held(c), Within(c), NEW e \in PcEntries, Fits(c, e),
         NEW n \in Int, Balanced(c, n)
  PROVE  LET p == PutEntry(c, e) IN
         /\ Held(p) /\ Within(p) /\ p.policy = c.policy /\ Balanced(p, n + 1)
         /\ Len(p.entries) # 0 /\ p.entries[Len(p.entries)] = e
         /\ e.key \notin KeysOf(c.entries) =>
              \E d \in 0..Len(c.entries) :
                /\ p.entries = SubSeq(Append(c.entries, e), d + 1, Len(c.entries) + 1)
                /\ Len(p.entries) = Len(c.entries) + 1 - d
<1> DEFINE r == RemoveKey(c, e.key)
           had == e.key \in KeysOf(c.entries)
           es == Append(r.entries, e)
           bytes == r.bytes + e.size
           dirty == r.dirty + 1
           replaced == IF had THEN r.replaced + 1 ELSE r.replaced
           u == [r EXCEPT !.entries = es, !.bytes = bytes, !.dirty = dirty, !.replaced = replaced]
           p == PutEntry(c, e)
<1>1. /\ Held(r) /\ r.policy = c.policy
      /\ Len(r.entries) = Len(c.entries) - (IF had THEN 1 ELSE 0)
      /\ KeysOf(r.entries) = KeysOf(c.entries) \ {e.key}
      /\ r.replaced = c.replaced /\ r.evictions = c.evictions
      /\ r.invalidations = c.invalidations
      /\ ~had => r = c BY RemoveEffect
<1>2. p = Evict(u) BY DEF PutEntry
<1>3. e.size \in Nat /\ e.size <= c.policy.max_entry_bytes
  BY EntriesAssumption DEF Fits
<1> HIDE DEF r, had, p
<1>4. /\ r.entries \in Seq(PcEntries) /\ Len(r.entries) \in Nat
      /\ r.bytes \in Int /\ r.dirty \in Int /\ r.replaced \in Int /\ r.evictions \in Int
      /\ r.invalidations \in Int
      /\ r.policy.max_bytes \in Int /\ r.policy.max_entry_bytes \in Int
      /\ r.policy.max_entry_bytes <= r.policy.max_bytes BY <1>1, CacheFields
<1>5. r \in CacheRecords /\ Distinct(r.entries) /\ r.bytes = BytesOf(r.entries)
  BY <1>1 DEF Held
<1>6. /\ es \in Seq(PcEntries) /\ Distinct(es) /\ Len(es) = Len(r.entries) + 1
      /\ es[Len(es)] = e /\ BytesOf(es) = bytes
  <2>1. e.key \notin KeysOf(r.entries) BY <1>1
  <2> QED BY <1>4, <1>5, <2>1, AppendKeeps
<1>7. bytes \in Int /\ dirty \in Int /\ replaced \in Int BY <1>3, <1>4, SMTT(30)
<1> HIDE DEF es, bytes, dirty, replaced
<1>8. /\ u \in CacheRecords /\ u.entries = es /\ u.bytes = bytes /\ u.policy = r.policy
      /\ u.replaced = replaced /\ u.evictions = r.evictions /\ u.invalidations = r.invalidations
  BY <1>5, <1>6, <1>7 DEF CacheRecords
<1> HIDE DEF u
<1>9. Held(u) BY <1>6, <1>8 DEF Held
<1>10. Len(u.entries) # 0 /\ u.entries[Len(u.entries)].size <= u.policy.max_bytes
  <2>1. u.entries[Len(u.entries)] = e /\ Len(u.entries) # 0 BY <1>4, <1>6, <1>8
  <2>2. u.policy.max_bytes = r.policy.max_bytes /\ r.policy = c.policy BY <1>1, <1>8
  <2>3. e.size <= r.policy.max_bytes BY <1>3, <1>4, <2>2
  <2> QED BY <2>1, <2>2, <2>3
<1>11. /\ Held(p) /\ Within(p) /\ p.policy = u.policy
       /\ p.replaced = u.replaced /\ p.invalidations = u.invalidations
       /\ \E d \in 0..(Len(u.entries) - 1) :
            /\ p.entries = SubSeq(u.entries, d + 1, Len(u.entries))
            /\ Len(p.entries) = Len(u.entries) - d
            /\ p.evictions = u.evictions + d BY <1>2, <1>9, <1>10, EvictEffect
<1>12. PICK d \in 0..(Len(es) - 1) :
            /\ p.entries = SubSeq(es, d + 1, Len(es))
            /\ Len(p.entries) = Len(es) - d
            /\ p.evictions = r.evictions + d BY <1>8, <1>11
<1>13. Balanced(p, n + 1)
  <2>1. n = Len(c.entries) + c.replaced + c.evictions + c.invalidations BY DEF Balanced
  <2>2. replaced = r.replaced + (IF had THEN 1 ELSE 0) BY <1>4 DEF replaced
  <2>3. Len(c.entries) \in Nat BY CacheFields
  <2>4. /\ Len(p.entries) = Len(r.entries) + 1 - d
        /\ p.replaced = r.replaced + (IF had THEN 1 ELSE 0)
        /\ p.evictions = r.evictions + d /\ p.invalidations = r.invalidations
    BY <1>6, <1>8, <1>11, <1>12, <2>2
  <2>5. n + 1 = Len(p.entries) + p.replaced + p.evictions + p.invalidations
    <3> DEFINE one == IF had THEN 1 ELSE 0
    <3>1. one \in Int OBVIOUS
    <3>2. /\ Len(p.entries) = (Len(c.entries) - one) + 1 - d
          /\ p.replaced = c.replaced + one
          /\ p.evictions = c.evictions + d /\ p.invalidations = c.invalidations
      BY <1>1, <2>4
    <3>3. c.replaced \in Int /\ c.evictions \in Int /\ c.invalidations \in Int /\ d \in Int
      BY CacheFields
    <3> HIDE DEF one
    <3>4. Len(c.entries) \in Int BY <2>3
    <3> DEFINE l == Len(c.entries)
               x == c.replaced
               y == c.evictions
               z == c.invalidations
    <3>5. (l + x + y + z) + 1 = ((l - one) + 1 - d) + (x + one) + (y + d) + z
      <4>1. l \in Int /\ x \in Int /\ y \in Int /\ z \in Int /\ d \in Int /\ one \in Int
        BY <3>1, <3>3, <3>4
      <4> HIDE DEF l, x, y, z
      <4> QED BY <4>1
    <3> QED BY <2>1, <3>2, <3>5, Zenon
  <2> QED BY <2>5 DEF Balanced
<1>14. Len(p.entries) # 0 /\ p.entries[Len(p.entries)] = e
  <2>1. Len(es) \in Nat BY <1>4, <1>6
  <2>2. /\ d + 1 \in Int /\ Len(es) \in Int /\ \A j \in (d + 1)..Len(es) : es[j] \in PcEntries
    BY <1>6, <2>1
  <2>3. \A i \in 1..(Len(es) - (d + 1) + 1) :
          SubSeq(es, d + 1, Len(es))[i] = es[d + 1 + i - 1] BY <2>2, SubSeqProperties
  <2>4. /\ Len(es) - d \in 1..(Len(es) - (d + 1) + 1)
        /\ d + 1 + (Len(es) - d) - 1 = Len(es) BY <2>1
  <2>5. p.entries[Len(es) - d] = es[Len(es)] BY <1>12, <2>3, <2>4
  <2>6. Len(p.entries) = Len(es) - d BY <1>12
  <2>7. \A l \in Nat : \A x \in 0..(l - 1) : l - x # 0 OBVIOUS
  <2>8. Len(es) - d # 0 BY <2>1, <2>7, Zenon
  <2> QED BY <1>6, <2>5, <2>6, <2>8
<1>15. ASSUME ~had
       PROVE  \E f \in 0..Len(c.entries) :
                /\ p.entries = SubSeq(Append(c.entries, e), f + 1, Len(c.entries) + 1)
                /\ Len(p.entries) = Len(c.entries) + 1 - f
  <2>1. r = c /\ es = Append(c.entries, e) /\ Len(es) = Len(c.entries) + 1
    BY <1>1, <1>6, <1>15 DEF es
  <2>2. d \in 0..Len(c.entries) BY <1>4, <2>1
  <2>3. /\ p.entries = SubSeq(Append(c.entries, e), d + 1, Len(c.entries) + 1)
        /\ Len(p.entries) = Len(c.entries) + 1 - d BY <1>12, <2>1
  <2> QED BY <2>2, <2>3
<1>16. p.policy = c.policy BY <1>1, <1>8, <1>11
<1> QED BY <1>11, <1>13, <1>14, <1>15, <1>16 DEF p, had

\* get: the entry found becomes the newest.
LEMMA TouchEffect ==
  ASSUME NEW c, Held(c), Within(c), NEW n, Balanced(c, n), NEW k
  PROVE  LET t == Touch(c, k) IN
         /\ Held(t) /\ Within(t) /\ Balanced(t, n)
         /\ KeysOf(c.entries) \subseteq KeysOf(t.entries)
<1> DEFINE t == Touch(c, k)
<1>1. c \in CacheRecords /\ Distinct(c.entries) /\ c.bytes = BytesOf(c.entries)
  BY DEF Held
<1>2. /\ c.entries \in Seq(PcEntries) /\ Len(c.entries) \in Nat
      /\ c.hits \in Int /\ c.misses \in Int BY CacheFields
<1>3. CASE k \notin KeysOf(c.entries)
  <2> DEFINE misses == c.misses + 1
  <2>1. t = [c EXCEPT !.misses = misses] /\ misses \in Int BY <1>2, <1>3 DEF Touch
  <2> HIDE DEF misses, t
  <2>2. /\ t \in CacheRecords /\ t.entries = c.entries /\ t.bytes = c.bytes
        /\ t.policy = c.policy /\ t.replaced = c.replaced /\ t.evictions = c.evictions
        /\ t.invalidations = c.invalidations BY <1>1, <2>1 DEF CacheRecords
  <2> QED BY <1>1, <2>2 DEF Held, Within, Balanced, t
<1>4. CASE k \in KeysOf(c.entries)
  <2> DEFINE w == Without(c.entries, k)
             e == EntryOf(c.entries, k)
             es == Append(w, e)
             hits == c.hits + 1
  <2>1. /\ w \in Seq(PcEntries) /\ Len(w) = Len(c.entries) - 1 /\ Distinct(w)
        /\ KeysOf(w) = KeysOf(c.entries) \ {k}
        /\ BytesOf(c.entries) = BytesOf(w) + e.size BY <1>1, <1>2, <1>4, WithoutEffect
  <2>2. e \in PcEntries /\ e.key = k BY <1>2, <1>4, IndexFound
  <2>3. t = [c EXCEPT !.entries = es, !.hits = hits] /\ hits \in Int
    BY <1>2, <1>4 DEF Touch
  <2> HIDE DEF w, e, hits, t
  <2>4. /\ es \in Seq(PcEntries) /\ Distinct(es) /\ Len(es) = Len(w) + 1
        /\ es[Len(w) + 1] = e /\ BytesOf(es) = BytesOf(w) + e.size
    BY <2>1, <2>2, AppendKeeps
  <2>5. \A i \in 1..Len(w) : es[i] = w[i] BY <2>1, <2>2, AppendProperties
  <2> HIDE DEF es
  <2>6. /\ t \in CacheRecords /\ t.entries = es /\ t.bytes = c.bytes
        /\ t.policy = c.policy /\ t.replaced = c.replaced /\ t.evictions = c.evictions
        /\ t.invalidations = c.invalidations BY <1>1, <2>3, <2>4 DEF CacheRecords
  <2>7. Len(es) = Len(c.entries) /\ BytesOf(es) = c.bytes BY <1>1, <1>2, <2>1, <2>4
  <2>8. KeysOf(c.entries) \subseteq KeysOf(es)
    <3>1. ASSUME NEW x \in KeysOf(c.entries) PROVE \E i \in 1..Len(es) : es[i].key = x
      <4>1. CASE x = k BY <1>2, <2>1, <2>4, <2>2, <4>1
      <4>2. CASE x # k
        <5>1. PICK i \in 1..Len(w) : w[i].key = x BY <2>1, <4>2 DEF KeysOf
        <5>2. i \in 1..Len(es) BY <1>2, <2>1, <2>4
        <5> QED BY <2>5, <5>1, <5>2
      <4> QED BY <4>1, <4>2
    <3> QED BY <3>1 DEF KeysOf
  <2> QED BY <2>4, <2>6, <2>7, <2>8 DEF Held, Within, Balanced, t
<1> QED BY <1>3, <1>4

\* An entry dropped as invalid.
LEMMA DropEffect ==
  ASSUME NEW c, Held(c), Within(c), NEW n \in Int, Balanced(c, n), NEW k \in KeysOf(c.entries)
  PROVE  LET z == [RemoveKey(c, k) EXCEPT !.invalidations = @ + 1] IN
         /\ Held(z) /\ Within(z) /\ Balanced(z, n) /\ z.policy = c.policy
         /\ KeysOf(z.entries) = KeysOf(c.entries) \ {k}
<1> DEFINE r == RemoveKey(c, k)
           gone == r.invalidations + 1
           z == [r EXCEPT !.invalidations = @ + 1]
<1>1. /\ Held(r) /\ r.policy = c.policy /\ Len(r.entries) = Len(c.entries) - 1
      /\ KeysOf(r.entries) = KeysOf(c.entries) \ {k} /\ r.bytes <= c.bytes
      /\ r.replaced = c.replaced /\ r.evictions = c.evictions
      /\ r.invalidations = c.invalidations BY RemoveEffect
<1> HIDE DEF r
<1>2. /\ r.entries \in Seq(PcEntries) /\ Len(r.entries) \in Nat /\ r.bytes \in Int
      /\ r.replaced \in Int /\ r.evictions \in Int /\ r.invalidations \in Int
      /\ c.bytes \in Int /\ Len(c.entries) \in Nat
      /\ c.policy.max_entries \in Int /\ c.policy.max_bytes \in Int
  BY <1>1, CacheFields
<1>3. r \in CacheRecords /\ Distinct(r.entries) /\ r.bytes = BytesOf(r.entries)
  BY <1>1 DEF Held
<1>4. z = [r EXCEPT !.invalidations = gone] /\ gone \in Int /\ gone = c.invalidations + 1
  BY <1>1, <1>2
<1> HIDE DEF gone, z
<1>5. /\ z \in CacheRecords /\ z.entries = r.entries /\ z.bytes = r.bytes
      /\ z.policy = r.policy /\ z.replaced = r.replaced /\ z.evictions = r.evictions
      /\ z.invalidations = gone BY <1>3, <1>4 DEF CacheRecords
<1>6. Held(z) BY <1>3, <1>5 DEF Held
<1>7. Within(z)
  <2>1. c.bytes <= c.policy.max_bytes /\ Len(c.entries) <= c.policy.max_entries
    BY DEF Within
  <2>2. /\ z.policy = c.policy /\ z.bytes = r.bytes
        /\ Len(z.entries) = Len(c.entries) - 1 BY <1>1, <1>5
  <2>3. r.bytes <= c.policy.max_bytes /\ Len(c.entries) - 1 <= c.policy.max_entries
    <3>1. /\ r.bytes \in Int /\ c.bytes \in Int /\ Len(c.entries) \in Int
          /\ c.policy.max_entries \in Int /\ c.policy.max_bytes \in Int BY <1>2
    <3>2. r.bytes <= c.bytes BY <1>1
    <3> QED BY <2>1, <3>1, <3>2
  <2> QED BY <2>2, <2>3 DEF Within
<1>8. Balanced(z, n)
  <2>1. n = Len(c.entries) + c.replaced + c.evictions + c.invalidations BY DEF Balanced
  <2>2. /\ Len(z.entries) = Len(c.entries) - 1 /\ z.replaced = c.replaced
        /\ z.evictions = c.evictions /\ z.invalidations = c.invalidations + 1
    BY <1>1, <1>4, <1>5
  <2>3. c.replaced \in Int /\ c.evictions \in Int /\ c.invalidations \in Int
    BY <1>1, <1>2
  <2>4. n = Len(z.entries) + z.replaced + z.evictions + z.invalidations
    <3>1. Len(c.entries) \in Int BY <1>2
    <3>2. Len(c.entries) + c.replaced + c.evictions + c.invalidations
            = (Len(c.entries) - 1) + c.replaced + c.evictions + (c.invalidations + 1)
      BY <2>3, <3>1, CountsMove
    <3> QED BY <2>1, <2>2, <3>2, Zenon
  <2> QED BY <2>4 DEF Balanced
<1> QED BY <1>1, <1>5, <1>6, <1>7, <1>8 DEF z, r


\* retain_manifest meets an entry.
Drop(v, k) == [RemoveKey(v, k) EXCEPT !.invalidations = @ + 1]
Met(v, e, m) == IF e.manifest = m THEN v ELSE Drop(v, e.key)

\* The recursive functions behind Retained and Reload.
IsDropping(c, m, n, f) ==
  f = [i \in 0..n |-> IF i = 0 THEN c ELSE Met(f[i - 1], c.entries[i], m)]
Dropping(c, m, n) == CHOOSE f : IsDropping(c, m, n, f)
IsLoaded(p, es, n, f) ==
  f = [i \in 0..n |-> IF i = 0 THEN EmptyCache(p) ELSE PutEntry(f[i - 1], es[i])]
Loaded(p, es, n) == CHOOSE f : IsLoaded(p, es, n, f)

\* The recursive function behind Retained exists for every length.
LEMMA DroppingExists == ASSUME NEW c, NEW m, NEW n \in Nat PROVE \E f : IsDropping(c, m, n, f)
<1> DEFINE ok(k) == \E f : IsDropping(c, m, k, f)
           S == {k \in 0..n : ok(k)}
<1>1. ok(0)
  <2> DEFINE f == [i \in 0..0 |-> c]
  <2>1. f = [i \in 0..0 |-> IF i = 0 THEN c ELSE Met(f[i - 1], c.entries[i], m)]
    OBVIOUS
  <2> QED BY <2>1 DEF IsDropping
<1>2. ASSUME NEW k \in 0..(n - 1), ok(k) PROVE ok(k + 1)
  <2>1. PICK f : f = [i \in 0..k |-> IF i = 0 THEN c ELSE Met(f[i - 1], c.entries[i], m)]
    BY <1>2 DEF IsDropping
  <2> DEFINE last == Met(f[k], c.entries[k + 1], m)
             g == [i \in 0..(k + 1) |-> IF i = k + 1 THEN last ELSE f[i]]
  <2>2. \A i \in 0..k : f[i] = IF i = 0 THEN c ELSE Met(f[i - 1], c.entries[i], m)
    BY <2>1
  <2>3. ASSUME NEW i \in 0..(k + 1)
        PROVE  g[i] = IF i = 0 THEN c ELSE Met(g[i - 1], c.entries[i], m)
    <3>1. CASE i = k + 1 BY <3>1
    <3>2. CASE i # k + 1
      <4>1. i \in 0..k BY <3>2
      <4>2. i # 0 => i - 1 \in 0..k /\ i - 1 \in 0..(k + 1) /\ i - 1 # k + 1 BY <4>1
      <4>3. i # 0 => g[i - 1] = f[i - 1] BY <4>2
      <4>4. g[i] = f[i] BY <3>2
      <4> QED BY <2>2, <4>1, <4>3, <4>4
    <3> QED BY <3>1, <3>2
  <2>4. g = [i \in 0..(k + 1) |-> g[i]] OBVIOUS
  <2> HIDE DEF g
  <2>5. g = [i \in 0..(k + 1) |-> IF i = 0 THEN c ELSE Met(g[i - 1], c.entries[i], m)]
    BY <2>3, <2>4
  <2> QED BY <2>5 DEF IsDropping
<1> HIDE DEF ok
<1>3. \A k \in 0..n : k \in S
  <2>1. 0 \in S BY <1>1
  <2>2. \A k \in 0..(n - 1) : k \in S => k + 1 \in S BY <1>2
  <2> HIDE DEF S
  <2> QED BY <2>1, <2>2, Climb
<1>4. ok(n) BY <1>3
<1> QED BY <1>4 DEF ok

\* The recursive function behind Reload exists for every length.
LEMMA LoadedExists == ASSUME NEW p, NEW es, NEW n \in Nat PROVE \E f : IsLoaded(p, es, n, f)
<1> DEFINE ok(k) == \E f : IsLoaded(p, es, k, f)
           S == {k \in 0..n : ok(k)}
<1>1. ok(0)
  <2> DEFINE f == [i \in 0..0 |-> EmptyCache(p)]
  <2>1. f = [i \in 0..0 |-> IF i = 0 THEN EmptyCache(p) ELSE PutEntry(f[i - 1], es[i])]
    OBVIOUS
  <2> QED BY <2>1 DEF IsLoaded
<1>2. ASSUME NEW k \in 0..(n - 1), ok(k) PROVE ok(k + 1)
  <2>1. PICK f : f = [i \in 0..k |-> IF i = 0 THEN EmptyCache(p) ELSE PutEntry(f[i - 1], es[i])]
    BY <1>2 DEF IsLoaded
  <2> DEFINE last == PutEntry(f[k], es[k + 1])
             g == [i \in 0..(k + 1) |-> IF i = k + 1 THEN last ELSE f[i]]
  <2>2. \A i \in 0..k : f[i] = IF i = 0 THEN EmptyCache(p) ELSE PutEntry(f[i - 1], es[i])
    BY <2>1
  <2>3. ASSUME NEW i \in 0..(k + 1)
        PROVE  g[i] = IF i = 0 THEN EmptyCache(p) ELSE PutEntry(g[i - 1], es[i])
    <3>1. CASE i = k + 1 BY <3>1
    <3>2. CASE i # k + 1
      <4>1. i \in 0..k BY <3>2
      <4>2. i # 0 => i - 1 \in 0..k /\ i - 1 \in 0..(k + 1) /\ i - 1 # k + 1 BY <4>1
      <4>3. i # 0 => g[i - 1] = f[i - 1] BY <4>2
      <4>4. g[i] = f[i] BY <3>2
      <4> QED BY <2>2, <4>1, <4>3, <4>4
    <3> QED BY <3>1, <3>2
  <2>4. g = [i \in 0..(k + 1) |-> g[i]] OBVIOUS
  <2> HIDE DEF g
  <2>5. g = [i \in 0..(k + 1) |-> IF i = 0 THEN EmptyCache(p) ELSE PutEntry(g[i - 1], es[i])]
    BY <2>3, <2>4
  <2> QED BY <2>5 DEF IsLoaded
<1> HIDE DEF ok
<1>3. \A k \in 0..n : k \in S
  <2>1. 0 \in S BY <1>1
  <2>2. \A k \in 0..(n - 1) : k \in S => k + 1 \in S BY <1>2
  <2> HIDE DEF S
  <2> QED BY <2>1, <2>2, Climb
<1>4. ok(n) BY <1>3
<1> QED BY <1>4 DEF ok

\* retain_manifest: what stays is accounted for, and so is what went.
LEMMA RetainedEffect ==
  ASSUME NEW c, Held(c), Within(c), NEW n \in Int, Balanced(c, n), NEW m
  PROVE  LET r == Retained(c, m) IN Held(r) /\ Within(r) /\ Balanced(r, n)
<1> DEFINE es == c.entries
           l == Len(es)
<1>1. es \in Seq(PcEntries) /\ l \in Nat /\ Distinct(es) BY CacheFields DEF Held
<1>2. PICK f : f = Dropping(c, m, l) OBVIOUS
<1>3. IsDropping(c, m, l, f) BY <1>1, <1>2, DroppingExists, Zenon DEF Dropping
<1>4. Retained(c, m) = f[l]
  BY <1>2, Zenon DEF Retained, Dropping, IsDropping, Met, Drop
<1>5. f[0] = c /\ \A i \in 1..l : f[i] = Met(f[i - 1], es[i], m)
  <2>1. 0 \in 0..l /\ \A i \in 1..l : i \in 0..l /\ i # 0 BY <1>1
  <2> HIDE DEF es, l
  <2> QED BY <1>3, <2>1 DEF IsDropping, es, l
<1> DEFINE good(v) == Held(v) /\ Within(v) /\ Balanced(v, n)
           ahead(i) == \A j \in (i + 1)..l : es[j].key \in KeysOf(f[i].entries)
           S == {i \in 0..l : good(f[i]) /\ ahead(i)}
<1>6. 0 \in S
  <2>1. ahead(0)
    <3>1. KeysOf(es) = {es[j].key : j \in 1..l} BY DEF KeysOf
    <3> HIDE DEF es, l
    <3> QED BY <1>5, <3>1 DEF es
  <2> QED BY <1>1, <1>5, <2>1
<1> HIDE DEF es, l
<1>7. ASSUME NEW i \in 0..(l - 1), i \in S PROVE i + 1 \in S
  <2> DEFINE v == f[i]
             e == es[i + 1]
  <2>1. i + 1 \in 1..l /\ (i + 1) - 1 = i /\ i + 1 \in 0..l /\ i + 1 \in (i + 1)..l
    BY <1>1
  <2>2. f[i + 1] = Met(v, e, m) BY <1>5, <2>1
  <2>3. good(v) /\ ahead(i) BY <1>7
  <2>4. e.key \in KeysOf(v.entries) BY <2>1, <2>3
  <2>5. \A j \in (i + 2)..l : j \in (i + 1)..l /\ j \in 1..l /\ j # i + 1 BY <1>1
  <2>6. \A j \in (i + 2)..l : es[j].key \in KeysOf(v.entries) /\ es[j].key # e.key
    <3>1. \A j \in 1..l : es[j].key = e.key => j = i + 1 BY <1>1, <2>1 DEF Distinct, l
    <3> HIDE DEF v, e
    <3> QED BY <2>3, <2>5, <3>1 DEF v
  <2> HIDE DEF v, e
  <2>7. good(f[i + 1]) /\ KeysOf(v.entries) \ {e.key} \subseteq KeysOf(f[i + 1].entries)
    <3>1. CASE e.manifest = m BY <2>2, <2>3, <3>1 DEF Met, v
    <3>2. CASE e.manifest # m BY <2>2, <2>3, <2>4, <3>2, DropEffect DEF Met, Drop, v
    <3> QED BY <3>1, <3>2
  <2>8. ahead(i + 1) BY <2>6, <2>7
  <2> QED BY <2>1, <2>7, <2>8
<1>8. \A i \in 0..l : i \in S
  <2> HIDE DEF S
  <2> QED BY <1>1, <1>6, <1>7, Climb
<1>9. good(f[l]) BY <1>1, <1>8
<1> QED BY <1>4, <1>9

\* A flush or a reload leaves nothing unwritten.
LEMMA CleanEffect ==
  ASSUME NEW c, Held(c)
  PROVE  LET z == [c EXCEPT !.dirty = 0] IN
         /\ Held(z) /\ z.policy = c.policy /\ z.entries = c.entries
         /\ Within(c) => Within(z)
         /\ \A n : Balanced(c, n) => Balanced(z, n)
<1> DEFINE z == [c EXCEPT !.dirty = 0]
<1>1. c \in CacheRecords /\ Distinct(c.entries) /\ c.bytes = BytesOf(c.entries)
  BY DEF Held
<1>2. /\ z \in CacheRecords /\ z.entries = c.entries /\ z.bytes = c.bytes
      /\ z.policy = c.policy /\ z.replaced = c.replaced /\ z.evictions = c.evictions
      /\ z.invalidations = c.invalidations BY <1>1 DEF CacheRecords
<1> HIDE DEF z
<1> QED BY <1>1, <1>2 DEF Held, Within, Balanced, z

\* A new cache.
LEMMA EmptyEffect ==
  ASSUME NEW p \in PcPolicies
  PROVE  /\ Held(EmptyCache(p)) /\ Within(EmptyCache(p)) /\ Balanced(EmptyCache(p), 0)
         /\ EmptyCache(p).policy = p /\ EmptyCache(p).entries = <<>>
<1> DEFINE c == EmptyCache(p)
<1>1. <<>> \in Seq(PcEntries) /\ Len(<<>>) = 0 OBVIOUS
<1>2. /\ c \in CacheRecords /\ c.entries = <<>> /\ c.bytes = 0 /\ c.policy = p
      /\ c.replaced = 0 /\ c.evictions = 0 /\ c.invalidations = 0
  BY <1>1 DEF EmptyCache, CacheRecords
<1>3. Distinct(<<>>) BY <1>1 DEF Distinct
<1>4. p.max_entries >= 1 /\ p.max_bytes >= 1 /\ p.max_entries \in Int /\ p.max_bytes \in Int
  BY PoliciesAssumption DEF ValidPolicy
<1>5. BytesOf(<<>>) = 0 BY BytesBasics
<1> HIDE DEF c
<1> QED BY <1>1, <1>2, <1>3, <1>4, <1>5 DEF Held, Within, Balanced, c

\* s is the last part of the first n entries of es.
LastPart(s, es, n) ==
  Len(s) <= n /\ \A j \in 1..Len(s) : s[j] = es[(n - Len(s)) + j]

\* Reading one more entry back keeps the last part.
LEMMA LoadStep ==
  ASSUME NEW es \in Seq(PcEntries), Distinct(es), NEW i \in 0..(Len(es) - 1),
         NEW c, Held(c), Within(c), Balanced(c, i), LastPart(c.entries, es, i),
         Fits(c, es[i + 1])
  PROVE  LET q == PutEntry(c, es[i + 1]) IN
         /\ Held(q) /\ Within(q) /\ q.policy = c.policy /\ Balanced(q, i + 1)
         /\ LastPart(q.entries, es, i + 1)
<1> DEFINE e == es[i + 1]
           s == c.entries
           l == Len(s)
           t == Append(s, e)
           q == PutEntry(c, e)
<1>1. /\ Len(es) \in Nat /\ i \in Int /\ e \in PcEntries /\ s \in Seq(PcEntries) /\ l \in Nat
      /\ l <= i /\ \A j \in 1..l : s[j] = es[(i - l) + j]
  <2>1. Len(es) \in Nat /\ i \in Int /\ i + 1 \in 1..Len(es) OBVIOUS
  <2>2. e \in PcEntries BY <2>1
  <2>3. s \in Seq(PcEntries) /\ l \in Nat BY CacheFields, Zenon
  <2>4. l <= i /\ \A j \in 1..l : s[j] = es[(i - l) + j] BY Zenon DEF LastPart
  <2> QED BY <2>1, <2>2, <2>3, <2>4
<1>2. e.key \notin KeysOf(s)
  <2> SUFFICES ASSUME NEW j \in 1..l, s[j].key = e.key PROVE FALSE BY DEF KeysOf
  <2>1. (i - l) + j \in 1..Len(es) /\ i + 1 \in 1..Len(es) /\ (i - l) + j # i + 1
    <3>1. l \in Nat /\ l <= i BY <1>1
    <3> HIDE DEF l
    <3> QED BY <3>1
  <2>2. es[(i - l) + j].key = es[i + 1].key BY <1>1
  <2> QED BY <2>1, <2>2 DEF Distinct
<1>3. /\ Held(q) /\ Within(q) /\ q.policy = c.policy /\ Balanced(q, i + 1)
      /\ \E d \in 0..l : /\ q.entries = SubSeq(t, d + 1, l + 1)
                         /\ Len(q.entries) = l + 1 - d BY <1>1, <1>2, CachePutEffect
<1>4. PICK d \in 0..l : q.entries = SubSeq(t, d + 1, l + 1) /\ Len(q.entries) = l + 1 - d
  BY <1>3
<1>5. /\ t \in Seq(PcEntries) /\ Len(t) = l + 1 /\ t[l + 1] = e
      /\ \A j \in 1..l : t[j] = s[j] BY <1>1, AppendProperties
<1> HIDE DEF e, s, l, t, q
<1>6. \A j \in 1..(l + 1 - d) : SubSeq(t, d + 1, l + 1)[j] = t[d + j]
  BY <1>1, <1>5, SubSeqProperties
<1>7. ASSUME NEW j \in 1..(l + 1 - d)
      PROVE  q.entries[j] = es[((i + 1) - (l + 1 - d)) + j]
  <2>1. q.entries[j] = t[d + j] BY <1>4, <1>6
  <2>2. CASE d + j <= l BY <1>1, <1>5, <2>2, <2>1
  <2>3. CASE ~ (d + j <= l) BY <1>1, <1>5, <2>3, <2>1 DEF e
  <2> QED BY <2>2, <2>3
<1>8. l + 1 - d <= i + 1 BY <1>1
<1>9. LastPart(q.entries, es, i + 1) BY <1>4, <1>7, <1>8 DEF LastPart
<1> QED BY <1>3, <1>9 DEF q, e

\* A reload keeps the last part of the index.
LEMMA ReloadEffect ==
  ASSUME NEW p \in PcPolicies, NEW es \in Seq(PcEntries), Distinct(es),
         \A i \in 1..Len(es) : es[i].size <= p.max_entry_bytes
  PROVE  LET r == Reload(p, es) IN
         /\ Held(r) /\ Within(r) /\ Balanced(r, Len(es))
         /\ r.entries = SubSeq(es, Len(es) - Len(r.entries) + 1, Len(es))
<1> DEFINE l == Len(es)
<1>1. l \in Nat OBVIOUS
<1>2. PICK f : f = Loaded(p, es, l) OBVIOUS
<1>3. IsLoaded(p, es, l, f) BY <1>1, <1>2, LoadedExists, Zenon DEF Loaded
<1>4. Reload(p, es) = [f[l] EXCEPT !.dirty = 0]
  BY <1>2, Zenon DEF Reload, Loaded, IsLoaded
<1>5. f[0] = EmptyCache(p) /\ \A i \in 1..l : f[i] = PutEntry(f[i - 1], es[i])
  <2>1. 0 \in 0..l /\ \A i \in 1..l : i \in 0..l /\ i # 0 BY <1>1
  <2> HIDE DEF l
  <2> QED BY <1>3, <2>1 DEF IsLoaded
<1> DEFINE good(v, i) == /\ Held(v) /\ Within(v) /\ v.policy = p /\ Balanced(v, i)
                         /\ LastPart(v.entries, es, i)
           S == {i \in 0..l : good(f[i], i)}
<1>6. 0 \in S BY <1>1, <1>5, EmptyEffect DEF LastPart
<1>7. ASSUME NEW i \in 0..(l - 1), i \in S PROVE i + 1 \in S
  <2>1. i + 1 \in 1..l /\ (i + 1) - 1 = i /\ i + 1 \in 0..l BY <1>1
  <2>2. f[i + 1] = PutEntry(f[i], es[i + 1]) BY <1>5, <2>1
  <2>3. good(f[i], i) BY <1>7
  <2>4. Fits(f[i], es[i + 1]) BY <2>1, <2>3 DEF Fits
  <2>5. good(PutEntry(f[i], es[i + 1]), i + 1) BY <2>3, <2>4, LoadStep
  <2> QED BY <2>1, <2>2, <2>5
<1>8. \A i \in 0..l : i \in S
  <2> HIDE DEF S, l
  <2> QED BY <1>1, <1>6, <1>7, Climb
<1>9. PICK v : v = f[l] /\ good(v, l) BY <1>1, <1>8
<1> DEFINE r == [v EXCEPT !.dirty = 0]
<1>10. r = Reload(p, es) BY <1>4, <1>9
<1>11. Held(r) /\ Within(r) /\ Balanced(r, l) /\ r.entries = v.entries
  BY <1>9, CleanEffect
<1>12. v.entries = SubSeq(es, l - Len(v.entries) + 1, l)
  <2> DEFINE s == v.entries
             n == Len(s)
             b == SubSeq(es, l - n + 1, l)
  <2>1. s \in Seq(PcEntries) /\ n \in Nat BY <1>9, CacheFields
  <2>2. n <= l /\ \A j \in 1..n : s[j] = es[(l - n) + j] BY <1>9 DEF LastPart
  <2> HIDE DEF s, n
  <2>3. l - n + 1 \in Int /\ l \in Int /\ \A j \in (l - n + 1)..l : es[j] \in PcEntries
    BY <1>1, <2>1, <2>2
  <2>4. /\ b \in Seq(PcEntries)
        /\ Len(b) = IF l - n + 1 <= l THEN l - (l - n + 1) + 1 ELSE 0
        /\ \A j \in 1..(l - (l - n + 1) + 1) : b[j] = es[(l - n + 1) + j - 1]
    BY <2>3, SubSeqProperties
  <2> HIDE DEF b, l
  <2>5. Len(b) = n BY <1>1, <2>1, <2>2, <2>4
  <2>6. \A j \in 1..n : b[j] = es[(l - n) + j] BY <1>1, <2>1, <2>2, <2>4
  <2>7. s = b BY <2>1, <2>2, <2>4, <2>5, <2>6, SeqEqual DEF n
  <2> QED BY <2>7 DEF b, n, s
<1> HIDE DEF r
<1> QED BY <1>10, <1>11, <1>12

(* The cache and its index file. *)
PcInv ==
  /\ Held(cache) /\ Within(cache)
  /\ puts \in Int /\ Balanced(cache, puts)
  /\ index \in Seq(PcEntries) /\ Distinct(index)

LEMMA PcInitially == PcInit => PcInv
<1> SUFFICES ASSUME PcInit PROVE PcInv OBVIOUS
<1>1. PICK p \in PcPolicies : cache = EmptyCache(p) BY DEF PcInit
<1>2. index = <<>> /\ puts = 0 /\ Len(<<>>) = 0 /\ <<>> \in Seq(PcEntries)
  BY DEF PcInit
<1>3. Distinct(<<>>) BY <1>2 DEF Distinct
<1> QED BY <1>1, <1>2, <1>3, EmptyEffect DEF PcInv

LEMMA PcStep == PcInv /\ [PcNext]_pcVars => PcInv'
<1> SUFFICES ASSUME PcInv, [PcNext]_pcVars PROVE PcInv' OBVIOUS
<1>0. /\ Held(cache) /\ Within(cache) /\ puts \in Int /\ Balanced(cache, puts)
      /\ index \in Seq(PcEntries) /\ Distinct(index) BY DEF PcInv
<1>1. ASSUME NEW e \in PcEntries, PcPut(e) PROVE PcInv'
  <2>1. CASE Fits(cache, e) BY <1>1, <1>0, <2>1, CachePutEffect DEF PcPut, PcInv
  <2>2. CASE ~Fits(cache, e) BY <1>0, <1>1, <2>2 DEF PcPut, PcInv
  <2> QED BY <2>1, <2>2
<1>2. ASSUME NEW k, PcGet(k) PROVE PcInv' BY <1>2, <1>0, TouchEffect DEF PcGet, PcInv
<1>3. ASSUME NEW k, NEW actual, PcVerify(k, actual) PROVE PcInv'
  <2> DEFINE c == Touch(cache, k)
             z == [RemoveKey(c, k) EXCEPT !.invalidations = @ + 1]
  <2>1. puts' = puts /\ index' = index /\ k \in KeysOf(cache.entries)
    BY <1>3 DEF PcVerify
  <2>2. cache' = c \/ cache' = z
    <3>1. cache' = IF EntryOf(cache.entries, k).observed = actual THEN c ELSE z
      BY <1>3, Zenon DEF PcVerify
    <3> HIDE DEF c, z
    <3> QED BY <3>1
  <2>3. /\ Held(c) /\ Within(c) /\ Balanced(c, puts)
        /\ KeysOf(cache.entries) \subseteq KeysOf(c.entries) BY <1>0, TouchEffect
  <2> HIDE DEF c
  <2>4. Held(z) /\ Within(z) /\ Balanced(z, puts) BY <1>0, <2>1, <2>3, DropEffect
  <2> HIDE DEF z
  <2> QED BY <1>0, <2>1, <2>2, <2>3, <2>4 DEF PcInv
<1>4. ASSUME NEW m, PcRetainManifest(m) PROVE PcInv'
  BY <1>4, <1>0, RetainedEffect DEF PcRetainManifest, PcInv
<1>5. ASSUME PcFlush PROVE PcInv'
  <2> DEFINE z == [cache EXCEPT !.dirty = 0]
  <2>1. cache' = z /\ puts' = puts /\ index' = cache.entries BY <1>5 DEF PcFlush
  <2>2. Held(z) /\ Within(z) /\ Balanced(z, puts) BY <1>0, CleanEffect
  <2>3. cache.entries \in Seq(PcEntries) /\ Distinct(cache.entries)
    BY <1>0, CacheFields DEF Held
  <2> HIDE DEF z
  <2> QED BY <1>0, <2>1, <2>2, <2>3 DEF PcInv
<1>6. ASSUME NEW p \in PcPolicies, PcRestart(p) PROVE PcInv'
  <2>1. /\ cache' = Reload(p, index) /\ puts' = Len(index) /\ index' = index
        /\ \A i \in 1..Len(index) : index[i].size <= p.max_entry_bytes
    BY <1>6 DEF PcRestart
  <2>2. /\ Held(Reload(p, index)) /\ Within(Reload(p, index))
        /\ Balanced(Reload(p, index), Len(index)) BY <1>0, <2>1, ReloadEffect
  <2>3. Len(index) \in Int BY <1>0
  <2> QED BY <1>0, <2>1, <2>2, <2>3 DEF PcInv
<1>7. CASE UNCHANGED pcVars BY <1>0, <1>7 DEF PcInv, pcVars
<1> QED BY <1>1, <1>2, <1>3, <1>4, <1>5, <1>6, <1>7 DEF PcNext

LEMMA PcInvAccounted == PcInv => CacheAccounted
<1> SUFFICES ASSUME PcInv PROVE CacheAccounted OBVIOUS
<1>1. Held(cache) /\ Within(cache) /\ Balanced(cache, puts) BY DEF PcInv
<1>2. cache.entries \in Seq(PcEntries) /\ Distinct(cache.entries)
  BY <1>1, CacheFields DEF Held
<1>3. Cardinality(KeysOf(cache.entries)) = Len(cache.entries) BY <1>2, KeysCounted
<1> QED BY <1>1, <1>3 DEF CacheAccounted, Held, Within, Balanced

LEMMA PcInvRecent == PcInv => PutKeepsNewest /\ ReloadKeepsRecent
<1> SUFFICES ASSUME PcInv PROVE PutKeepsNewest /\ ReloadKeepsRecent OBVIOUS
<1>0. /\ Held(cache) /\ Within(cache) /\ puts \in Int /\ Balanced(cache, puts)
      /\ index \in Seq(PcEntries) /\ Distinct(index) BY DEF PcInv
<1>1. ASSUME NEW e \in PcEntries, PcPut(e), Fits(cache, e)
      PROVE  cache'.entries # <<>> /\ cache'.entries[Len(cache'.entries)] = e
  <2> DEFINE q == PutEntry(cache, e)
  <2>1. cache' = q BY <1>1 DEF PcPut
  <2>2. Len(q.entries) # 0 /\ q.entries[Len(q.entries)] = e
    BY <1>0, <1>1, CachePutEffect
  <2> HIDE DEF q
  <2>3. Len(<<>>) = 0 OBVIOUS
  <2> QED BY <2>1, <2>2, <2>3
<1>2. ASSUME NEW p \in PcPolicies, PcRestart(p)
      PROVE  LET n == Len(cache'.entries)
             IN cache'.entries = SubSeq(index, Len(index) - n + 1, Len(index))
  <2>1. /\ cache' = Reload(p, index)
        /\ \A i \in 1..Len(index) : index[i].size <= p.max_entry_bytes
    BY <1>2 DEF PcRestart
  <2> DEFINE r == Reload(p, index)
  <2>2. r.entries = SubSeq(index, Len(index) - Len(r.entries) + 1, Len(index))
    BY <1>0, <2>1, ReloadEffect
  <2> HIDE DEF r
  <2>3. cache' = r BY <2>1 DEF r
  <2> QED BY <2>2, <2>3
<1> QED BY <1>1, <1>2 DEF PutKeepsNewest, ReloadKeepsRecent

\* engine/search/cache.py, ReplayPrefixCache: the byte counter and the tallies
\* are right after every step, a put never evicts its own entry and a restart
\* brings back the most recent end of the index, for every set of entries and
\* of valid policies and any number of operations.
THEOREM CacheSafety == PcSpec => RecentEntriesKept
<1>1. PcSpec => []PcInv BY PcInitially, PcStep, PTL DEF PcSpec
<1>2. PcInv /\ PcInv' /\ [PcNext]_pcVars
        => [CacheAccounted' /\ PutKeepsNewest /\ ReloadKeepsRecent]_pcVars
  <2>1. PcInv' => CacheAccounted' BY PcInvAccounted, PTL
  <2> QED BY <2>1, PcInvRecent
<1> QED BY <1>1, <1>2, PTL DEF PcSpec, RecentEntriesKept


(* Sums over finite sets. *)
Pick(s) == CHOOSE x \in s : TRUE

\* h has the sum of f over each subset of D.
SumAt(h, f, s) == IF s = {} THEN 0 ELSE f[Pick(s)] + h[s \ {Pick(s)}]
PartSumsOver(h, f, D) == h = [s \in SUBSET D |-> SumAt(h, f, s)]
PartSums(f, D) == CHOOSE h : PartSumsOver(h, f, D)

LEMMA SumForm ==
  ASSUME NEW f, NEW D
  PROVE  SumFunctionOnSet(f, D) = PartSums(f, D)[D]
BY DEF SumFunctionOnSet, FoldFunctionOnSet, MapThenFoldSet, PartSums, PartSumsOver,
  SumAt, Pick

\* A set that with all the smaller ones holds a subset of D holds them all.
LEMMA SubsetsInduct ==
  ASSUME NEW D, IsFiniteSet(D), NEW P,
         ASSUME NEW s \in SUBSET D, \A r \in SUBSET s : r # s => r \in P PROVE s \in P
  PROVE  \A s \in SUBSET D : s \in P
<1> DEFINE T == {s \in SUBSET D : s \notin P}
           card == {Cardinality(s) : s \in T}
<1> SUFFICES ASSUME T # {} PROVE FALSE OBVIOUS
<1>1. \A s \in SUBSET D : IsFiniteSet(s) /\ Cardinality(s) \in Nat
  BY FS_Subset, FS_CardinalityType
<1>2. PICK n \in card : \A k \in card : n <= k
  <2>1. card \in SUBSET Nat /\ card # {} BY <1>1
  <2> HIDE DEF card
  <2> QED BY <2>1, LeastOf
<1>3. PICK s \in T : Cardinality(s) = n OBVIOUS
<1>4. ASSUME NEW r \in SUBSET s, r # s PROVE r \in P
  BY <1>1, <1>4, <1>3, <1>2, FS_Subset, SMTT(30)
<1>5. s \in P BY <1>4
<1> QED BY <1>5

LEMMA PickIs == \A s : s # {} => Pick(s) \in s
BY DEF Pick

LEMMA PartSumsExist ==
  ASSUME NEW D, IsFiniteSet(D), NEW f, \A x \in D : f[x] \in Int
  PROVE  \E h \in [SUBSET D -> Int] : PartSumsOver(h, f, D)
<1> DEFINE upTo(h, n) == \A s \in SUBSET D : Cardinality(s) <= n => h[s] = SumAt(h, f, s)
           m == Cardinality(D)
           bad == {n \in 0..m : ~ \E h \in [SUBSET D -> Int] : upTo(h, n)}
<1>1. \A s \in SUBSET D : IsFiniteSet(s) /\ Cardinality(s) \in Nat /\ Cardinality(s) <= m
  BY FS_Subset, FS_CardinalityType
<1>2. m \in Nat BY FS_CardinalityType
<1>3. bad = {}
  <2> SUFFICES ASSUME bad # {} PROVE FALSE OBVIOUS
  <2>1. PICK n \in bad : \A k \in bad : n <= k
    <3>1. bad \in SUBSET Nat BY <1>2
    <3> HIDE DEF bad
    <3> QED BY <3>1, LeastOf
  <2>2. n # 0
    <3> DEFINE h == [s \in SUBSET D |-> 0]
    <3>1. h \in [SUBSET D -> Int] OBVIOUS
    <3>2. ASSUME NEW s \in SUBSET D, Cardinality(s) <= 0 PROVE h[s] = SumAt(h, f, s)
      BY <1>1, <3>2, FS_EmptySet DEF SumAt
    <3> HIDE DEF h
    <3>3. upTo(h, 0) BY <3>2
    <3> QED BY <2>1, <3>1, <3>3
  <2>3. n - 1 \in 0..m /\ n - 1 \notin bad
    <3>1. n \in 0..m BY <2>1
    <3>2. n - 1 \in 0..m /\ ~ (n <= n - 1) BY <1>2, <2>2, <3>1
    <3> HIDE DEF bad
    <3> QED BY <2>1, <3>2
  <2>4. PICK h \in [SUBSET D -> Int] : upTo(h, n - 1) BY <2>3
  <2> DEFINE g == [s \in SUBSET D |-> IF Cardinality(s) <= n - 1 THEN h[s] ELSE SumAt(h, f, s)]
  <2>5. ASSUME NEW s \in SUBSET D PROVE SumAt(h, f, s) \in Int BY PickIs DEF SumAt
  <2>6. g \in [SUBSET D -> Int] BY <2>5
  <2>7. ASSUME NEW s \in SUBSET D, Cardinality(s) <= n PROVE g[s] = SumAt(g, f, s)
    <3>1. g[s] = SumAt(h, f, s) BY <2>4
    <3>2. CASE s = {} BY <3>1, <3>2 DEF SumAt
    <3>3. CASE s # {}
      <4> DEFINE r == s \ {Pick(s)}
      <4>1. Pick(s) \in s /\ r \in SUBSET D BY <3>3, PickIs
      <4>2. Cardinality(r) = Cardinality(s) - 1 BY <1>1, <4>1, FS_RemoveElement
      <4>3. Cardinality(r) <= n - 1 BY <1>1, <1>2, <2>1, <2>7, <4>2
      <4>4. g[r] = h[r] BY <4>1, <4>3
      <4> HIDE DEF g
      <4> QED BY <3>1, <3>3, <4>4 DEF SumAt
    <3> QED BY <3>2, <3>3
  <2> HIDE DEF g
  <2>8. upTo(g, n) BY <2>7
  <2> QED BY <2>1, <2>6, <2>8
<1>4. PICK h \in [SUBSET D -> Int] : upTo(h, m)
  <2>1. m \in 0..m BY <1>2
  <2> QED BY <1>3, <2>1
<1>5. \A s \in SUBSET D : h[s] = SumAt(h, f, s) BY <1>1, <1>4
<1>6. PartSumsOver(h, f, D) BY <1>5 DEF PartSumsOver
<1> QED BY <1>6

LEMMA PartSumsAre ==
  ASSUME NEW D, IsFiniteSet(D), NEW f, \A x \in D : f[x] \in Int
  PROVE  /\ \A s \in SUBSET D : PartSums(f, D)[s] \in Int
         /\ PartSums(f, D)[{}] = 0
         /\ \A s \in SUBSET D : \A x \in s :
              PartSums(f, D)[s] = f[x] + PartSums(f, D)[s \ {x}]
<1> DEFINE h == PartSums(f, D)
<1>1. PartSumsOver(h, f, D) BY PartSumsExist DEF PartSums
<1> HIDE DEF h
<1>2. ASSUME NEW s \in SUBSET D PROVE h[s] = SumAt(h, f, s) BY <1>1 DEF PartSumsOver
<1>3. h[{}] = 0 BY <1>2 DEF SumAt
<1>4. ASSUME NEW s \in SUBSET D, s # {}
      PROVE  Pick(s) \in s /\ h[s] = f[Pick(s)] + h[s \ {Pick(s)}]
  BY <1>2, <1>4, PickIs DEF SumAt
<1> DEFINE P == {s \in SUBSET D : h[s] \in Int}
           Q == {s \in SUBSET D : \A x \in s : h[s] = f[x] + h[s \ {x}]}
<1>5. \A s \in SUBSET D : s \in P
  <2>1. ASSUME NEW s \in SUBSET D, \A r \in SUBSET s : r # s => r \in P PROVE s \in P
    <3>1. CASE s = {} BY <1>3, <3>1
    <3>2. CASE s # {}
      <4>1. Pick(s) \in s /\ h[s] = f[Pick(s)] + h[s \ {Pick(s)}] BY <1>4, <3>2
      <4>2. s \ {Pick(s)} \in P BY <2>1, <4>1
      <4> QED BY <4>1, <4>2
    <3> QED BY <3>1, <3>2
  <2> HIDE DEF P
  <2> QED BY <2>1, SubsetsInduct
<1>6. \A s \in SUBSET D : s \in Q
  <2>1. ASSUME NEW s \in SUBSET D, \A r \in SUBSET s : r # s => r \in Q PROVE s \in Q
    <3> SUFFICES ASSUME NEW x \in s PROVE h[s] = f[x] + h[s \ {x}] OBVIOUS
    <3> DEFINE p == Pick(s)
               t == s \ {p, x}
    <3>1. p \in s /\ h[s] = f[p] + h[s \ {p}] BY <1>4
    <3> HIDE DEF p
    <3>2. CASE x = p BY <3>1, <3>2
    <3>3. CASE x # p
      <4>1. s \ {p} \in Q /\ x \in s \ {p} /\ (s \ {p}) \ {x} = t BY <2>1, <3>1, <3>3
      <4>2. s \ {x} \in Q /\ p \in s \ {x} /\ (s \ {x}) \ {p} = t BY <2>1, <3>1, <3>3
      <4>3. h[s \ {p}] = f[x] + h[t] BY <4>1
      <4>4. h[s \ {x}] = f[p] + h[t] BY <4>2
      <4>5. h[t] \in Int /\ f[x] \in Int /\ f[p] \in Int BY <1>5, <3>1
      <4> QED BY <3>1, <4>3, <4>4, <4>5
    <3> QED BY <3>2, <3>3
  <2> HIDE DEF Q
  <2> QED BY <2>1, SubsetsInduct
<1> QED BY <1>3, <1>5, <1>6 DEF h

\* A sum of values between two bounds.
LEMMA SumBounded ==
  ASSUME NEW D, IsFiniteSet(D), NEW f, NEW lo \in Int, NEW hi \in Int,
         \A x \in D : f[x] \in Int /\ lo <= f[x] /\ f[x] <= hi
  PROVE  /\ SumFunctionOnSet(f, D) \in Int
         /\ lo * Cardinality(D) <= SumFunctionOnSet(f, D)
         /\ SumFunctionOnSet(f, D) <= hi * Cardinality(D)
<1> DEFINE h == PartSums(f, D)
           P == {s \in SUBSET D : lo * Cardinality(s) <= h[s] /\ h[s] <= hi * Cardinality(s)}
<1>1. /\ \A s \in SUBSET D : h[s] \in Int
      /\ h[{}] = 0
      /\ \A s \in SUBSET D : \A x \in s : h[s] = f[x] + h[s \ {x}] BY PartSumsAre
<1>2. \A s \in SUBSET D : IsFiniteSet(s) /\ Cardinality(s) \in Nat
  BY FS_Subset, FS_CardinalityType
<1> HIDE DEF h
<1>3. ASSUME NEW s \in SUBSET D, \A r \in SUBSET s : r # s => r \in P PROVE s \in P
  <2>1. CASE s = {} BY <1>1, <2>1, FS_EmptySet
  <2>2. CASE s # {}
    <3>1. PICK x \in s : TRUE BY <2>2
    <3> DEFINE r == s \ {x}
    <3>2. r \in P BY <1>3, <3>1
    <3>3. Cardinality(r) = Cardinality(s) - 1 BY <1>2, <3>1, FS_RemoveElement
    <3>4. h[s] = f[x] + h[r] BY <1>1, <3>1
    <3>5. /\ lo * Cardinality(r) = lo * Cardinality(s) - lo
          /\ hi * Cardinality(r) = hi * Cardinality(s) - hi
      <4>1. ASSUME NEW a \in Int, NEW n \in Nat PROVE a * (n - 1) = a * n - a OBVIOUS
      <4> QED BY <1>2, <3>3, <4>1
    <3>6. /\ f[x] \in Int /\ lo <= f[x] /\ f[x] <= hi
          /\ h[r] \in Int /\ h[s] \in Int
          /\ lo * Cardinality(s) \in Int /\ hi * Cardinality(s) \in Int
      BY <1>1, <1>2, <3>1
    <3>7. lo * Cardinality(r) <= h[r] /\ h[r] <= hi * Cardinality(r) BY <3>2
    <3>8. lo * Cardinality(s) <= h[s] /\ h[s] <= hi * Cardinality(s)
      BY <3>4, <3>5, <3>6, <3>7
    <3> QED BY <3>8
  <2> QED BY <2>1, <2>2
<1> HIDE DEF P
<1>4. \A s \in SUBSET D : s \in P BY <1>3, SubsetsInduct
<1>5. lo * Cardinality(D) <= h[D] /\ h[D] <= hi * Cardinality(D) BY <1>4 DEF P
<1> QED BY <1>1, <1>5, SumForm DEF h

Twofold(D, n) == D \cup {k + n : k \in D}

\* Values that are there twice sum up to twice as much.
LEMMA SumDoubled ==
  ASSUME NEW n \in Nat, NEW D, D \subseteq 1..n, NEW f, NEW g,
         \A k \in D : f[k] \in Int /\ g[k] = f[k] /\ g[k + n] = f[k]
  PROVE  /\ SumFunctionOnSet(f, D) \in Int
         /\ SumFunctionOnSet(g, Twofold(D, n)) = 2 * SumFunctionOnSet(f, D)
<1> DEFINE Twice(s) == s \cup {k + n : k \in s}
           E == Twofold(D, n)
           h == PartSums(f, D)
           i == PartSums(g, E)
           P == {s \in SUBSET D : i[Twice(s)] = 2 * h[s]}
<1>0. E = Twice(D) BY DEF Twofold
<1>1. \A k \in D : k \in 1..n OBVIOUS
<1>2. IsFiniteSet(D) /\ IsFiniteSet(E)
  <2>1. IsFiniteSet(1..n) /\ IsFiniteSet(1..(n + n)) BY FS_Interval
  <2>2. D \subseteq 1..n /\ E \subseteq 1..(n + n)
    <3>1. \A k \in D : k \in 1..(n + n) /\ k + n \in 1..(n + n) BY <1>1
    <3> QED BY <1>0, <3>1
  <2> HIDE DEF E
  <2> QED BY ONLY <2>1, <2>2, FS_Subset
<1>3. /\ \A x \in D : f[x] \in Int
      /\ \A x \in E : g[x] \in Int
      /\ \A s \in SUBSET D : Twice(s) \in SUBSET E BY <1>0
<1> HIDE DEF E, P, Twice
<1>4. /\ \A s \in SUBSET D : h[s] \in Int
      /\ h[{}] = 0
      /\ \A s \in SUBSET D : \A x \in s : h[s] = f[x] + h[s \ {x}]
  BY ONLY <1>2, <1>3, PartSumsAre
<1>5. /\ \A s \in SUBSET E : i[s] \in Int
      /\ i[{}] = 0
      /\ \A s \in SUBSET E : \A x \in s : i[s] = g[x] + i[s \ {x}]
  BY ONLY <1>2, <1>3, PartSumsAre
<1> HIDE DEF h, i
<1>8. ASSUME NEW s \in SUBSET D, \A r \in SUBSET s : r # s => r \in P PROVE s \in P
  <2>1. CASE s = {}
    <3>1. Twice(s) = {} /\ h[s] = 0 BY <1>4, <2>1 DEF Twice
    <3>2. i[Twice(s)] = 2 * h[s] BY ONLY <1>5, <3>1
    <3> QED BY <3>2 DEF P
  <2>2. CASE s # {}
    <3>1. PICK x \in s : TRUE BY <2>2
    <3> DEFINE r == s \ {x}
               t == Twice(s)
    <3>2. r \in P BY <1>8, <3>1
    <3>3. x \in 1..n /\ x + n # x /\ \A k \in s : k \in 1..n /\ k # x + n /\ k + n # x
      BY <1>1, <3>1
    <3>4. t \in SUBSET E /\ x \in t /\ t \ {x} \in SUBSET E /\ x + n \in t \ {x}
      BY <1>3, <3>1, <3>3 DEF Twice
    <3>5. (t \ {x}) \ {x + n} = Twice(r) BY <3>3 DEF Twice
    <3> HIDE DEF t
    <3>6. i[t] = g[x] + i[t \ {x}] /\ i[t \ {x}] = g[x + n] + i[Twice(r)]
      BY ONLY <1>5, <3>4, <3>5
    <3>7. h[s] = f[x] + h[r] /\ g[x] = f[x] /\ g[x + n] = f[x] /\ f[x] \in Int /\ h[r] \in Int
      BY <1>4, <3>1
    <3>8. i[Twice(r)] = 2 * h[r] BY <3>2 DEF P
    <3>9. i[t] = 2 * h[s] BY ONLY <3>6, <3>7, <3>8
    <3> QED BY <3>9 DEF t, P
  <2> QED BY <2>1, <2>2
<1>9. D \in P BY <1>2, <1>8, SubsetsInduct
<1>10. i[E] = 2 * h[D] BY <1>0, <1>9 DEF P
<1>11. SumFunctionOnSet(f, D) = h[D] /\ SumFunctionOnSet(g, E) = i[E]
  BY SumForm DEF h, i
<1> QED BY <1>4, <1>10, <1>11 DEF E

\* What is there twice is twice as many.
LEMMA CardinalityDoubled ==
  ASSUME NEW n \in Nat, NEW D, D \subseteq 1..n
  PROVE  Cardinality(D) \in Nat /\ Cardinality(Twofold(D, n)) = 2 * Cardinality(D)
<1> DEFINE S == {k + n : k \in D}
           b == [k \in D |-> k + n]
<1>1. \A k \in D : k \in 1..n OBVIOUS
<1>2. IsFiniteSet(D) /\ Cardinality(D) \in Nat
  <2>1. IsFiniteSet(1..n) BY FS_Interval
  <2> QED BY <2>1, FS_Subset, FS_CardinalityType
<1>3. b \in Bijection(D, S)
  <2>1. b \in [D -> S] OBVIOUS
  <2>2. \A x, y \in D : b[x] = b[y] => x = y BY <1>1
  <2>3. \A j \in S : \E k \in D : b[k] = j OBVIOUS
  <2> HIDE DEF b, S
  <2> QED BY <2>1, <2>2, <2>3 DEF Bijection, Injection, IsInjective, Surjection
<1>4. IsFiniteSet(S) /\ Cardinality(S) = Cardinality(D)
  <2> HIDE DEF b, S
  <2> QED BY <1>2, <1>3, FS_Bijection DEF ExistsBijection
<1>5. D \cap S = {} BY <1>1
<1>6. Twofold(D, n) = D \cup S BY DEF Twofold
<1> HIDE DEF S
<1>7. Cardinality(D \cup S) = Cardinality(D) + Cardinality(S) - Cardinality({})
  BY <1>2, <1>4, <1>5, FS_Union
<1>8. Cardinality({}) = 0 BY FS_EmptySet
<1> QED BY <1>2, <1>4, <1>6, <1>7, <1>8

\* What is twice as much of twice as many is the same for each.
LEMMA DivDoubled ==
  ASSUME NEW a \in Int, NEW n \in Nat \ {0}
  PROVE  (2 * a) \div (2 * n) = a \div n
OBVIOUS

\* A quotient is between the bounds of each part.
LEMMA DivBounded ==
  ASSUME NEW a \in Int, NEW n \in Nat \ {0}, NEW lo \in Int, NEW hi \in Int,
         lo * n <= a, a <= hi * n
  PROVE  a \div n \in Int /\ lo <= a \div n /\ a \div n <= hi
OBVIOUS

\* Scaling keeps an order.
LEMMA ScaleMonotone ==
  ASSUME NEW a \in Int, NEW b \in Int, NEW k \in Nat, a <= b
  PROVE  a * k <= b * k
<1> DEFINE d == b - a
<1>1. d \in Nat /\ b = a + d OBVIOUS
<1> HIDE DEF d
<1>2. d * k \in Nat BY <1>1
<1>3. (a + d) * k = a * k + d * k /\ a * k \in Int BY <1>1
<1> QED BY <1>1, <1>2, <1>3

(* Pruning. *)
PrInv == prPolicy \in PrPolicies /\ evidence \in [PrActions -> PrEvidence]

\* Evidence that an assessment compares: current, known to be independent where
\* that matters, enough of it and within the bounds of the policy.
Compared(e) ==
  /\ e.data = "current" /\ (Guarded => e.known)
  /\ prPolicy.visits <= SampleCount(e) /\ ~OutOfBounds(e)

\* Only compared evidence prunes, and only by its bounds.
LEMMA PrunesIs ==
  ASSUME NEW c, NEW i, SampleCount(c) \in Nat, SampleCount(i) \in Nat, prPolicy.visits \in Nat
  PROVE  Prunes(c, i) <=> Compared(c) /\ Compared(i) /\ Dominated(c, i)
BY DEF Prunes, Verdict, Compared

\* What a policy and its evidence are.
LEMMA EvidenceIs ==
  ASSUME PrInv, NEW e \in PrEvidence
  PROVE  /\ Scale \in Nat \ {0}
         /\ prPolicy.low \in Int /\ prPolicy.high \in Int /\ prPolicy.low < prPolicy.high
         /\ prPolicy.margin \in Nat /\ prPolicy.visits \in Nat \ {0}
         /\ e = [data |-> e.data, known |-> e.known, samples |-> e.samples]
         /\ Len(e.samples) \in Nat /\ DOMAIN e.samples = 1..Len(e.samples)
         /\ \A k \in DOMAIN e.samples : e.samples[k].score \in Int
         /\ \A n \in 1..Len(e.samples) : Radius(prPolicy.method, n) \in Nat
<1>1. e \in [data : STRING, known : BOOLEAN, samples : Seq([unit : Nat, score : Int])]
  BY PruningAssumption
<1>2. e.samples \in Seq([unit : Nat, score : Int]) BY <1>1
<1>3. e = [data |-> e.data, known |-> e.known, samples |-> e.samples] BY <1>1
<1>5. Len(e.samples) \in Nat /\ DOMAIN e.samples = 1..Len(e.samples) BY <1>2
<1>6. ASSUME NEW k \in DOMAIN e.samples PROVE e.samples[k].score \in Int
  <2>1. e.samples[k] \in [unit : Nat, score : Int] BY <1>2, <1>5, ElementOfSeq
  <2> QED BY <2>1
<1>4. PolicyValid(prPolicy) /\ \A n \in 1..Len(e.samples) : Radius(prPolicy.method, n) \in Nat
  BY PruningAssumption DEF PrInv
<1> QED BY <1>3, <1>4, <1>5, <1>6, PruningAssumption DEF PolicyValid

\* The units of some evidence, and the samples of each.
LEMMA UnitsAre ==
  ASSUME PrInv, NEW e \in PrEvidence
  PROVE  /\ IsFiniteSet(UnitsOf(e)) /\ Cardinality(UnitsOf(e)) \in 0..Len(e.samples)
         /\ \A u \in UnitsOf(e) :
              /\ UnitSamples(e, u) \subseteq 1..Len(e.samples)
              /\ IsFiniteSet(UnitSamples(e, u))
              /\ Cardinality(UnitSamples(e, u)) \in Nat \ {0}
<1> DEFINE n == Len(e.samples)
           unit == [k \in 1..n |-> e.samples[k].unit]
<1>1. n \in Nat /\ DOMAIN e.samples = 1..n BY EvidenceIs
<1>2. IsFiniteSet(1..n) /\ Cardinality(1..n) = n BY <1>1, FS_Interval
<1>3. UnitsOf(e) = {unit[k] : k \in 1..n} BY <1>1 DEF UnitsOf
<1>4. IsFiniteSet(UnitsOf(e)) /\ Cardinality(UnitsOf(e)) <= n
  <2> HIDE DEF unit, n
  <2>1. UnitsOf(e) \in SUBSET UnitsOf(e) /\ unit \in Surjection(1..n, UnitsOf(e))
    BY <1>3 DEF unit, Surjection
  <2> QED BY <1>2, <2>1, FS_Surjection
<1>5. Cardinality(UnitsOf(e)) \in Nat BY <1>4, FS_CardinalityType
<1>6. ASSUME NEW u \in UnitsOf(e)
      PROVE  /\ UnitSamples(e, u) \subseteq 1..n
             /\ IsFiniteSet(UnitSamples(e, u))
             /\ Cardinality(UnitSamples(e, u)) \in Nat \ {0}
  BY <1>1, <1>2, FS_Subset, FS_CardinalityType, FS_EmptySet DEF UnitsOf, UnitSamples
<1> QED BY <1>1, <1>4, <1>5, <1>6

\* The mean of scores within the bounds is within the bounds.
LEMMA MeanBounded ==
  ASSUME PrInv, NEW e \in PrEvidence, Compared(e)
  PROVE  /\ SampleCount(e) \in 1..Len(e.samples)
         /\ MeanScore(e) \in Int
         /\ prPolicy.low * Scale * Scale <= MeanScore(e)
         /\ MeanScore(e) <= prPolicy.high * Scale * Scale
<1> DEFINE n == Len(e.samples)
           lo == prPolicy.low * Scale
           hi == prPolicy.high * Scale
           raw == RawScores(e)
           s == IF Guarded THEN UnitMeans(e) ELSE RawScores(e)
           m == Cardinality(DOMAIN s)
<1>1. /\ Scale \in Nat \ {0} /\ prPolicy.low \in Int /\ prPolicy.high \in Int
      /\ prPolicy.visits \in Nat \ {0}
      /\ n \in Nat /\ DOMAIN e.samples = 1..n
      /\ \A k \in 1..n : e.samples[k].score \in Int BY EvidenceIs
<1>2. lo \in Int /\ hi \in Int BY <1>1
<1>3. ASSUME NEW k \in 1..n PROVE raw[k] \in Int /\ lo <= raw[k] /\ raw[k] <= hi
  <2>1. e.samples[k].score \in prPolicy.low .. prPolicy.high
    BY <1>1 DEF Compared, OutOfBounds
  <2>2. raw[k] = e.samples[k].score * Scale BY <1>1 DEF RawScores
  <2>3. /\ e.samples[k].score \in Int /\ e.samples[k].score * Scale \in Int
        /\ prPolicy.low <= e.samples[k].score /\ e.samples[k].score <= prPolicy.high
    BY <1>1, <2>1
  <2> HIDE DEF raw
  <2> QED BY <1>1, <2>2, <2>3, ScaleMonotone
<1>4. ASSUME NEW u \in UnitsOf(e)
      PROVE  UnitMeans(e)[u] \in Int /\ lo <= UnitMeans(e)[u] /\ UnitMeans(e)[u] <= hi
  <2> DEFINE own == UnitSamples(e, u)
  <2>1. own \subseteq 1..n /\ IsFiniteSet(own) /\ Cardinality(own) \in Nat \ {0}
    BY UnitsAre
  <2>2. UnitMeans(e)[u] = SumFunctionOnSet(raw, own) \div Cardinality(own)
    BY DEF UnitMeans
  <2> HIDE DEF own, raw, lo, hi, n
  <2>3. /\ SumFunctionOnSet(raw, own) \in Int
        /\ lo * Cardinality(own) <= SumFunctionOnSet(raw, own)
        /\ SumFunctionOnSet(raw, own) <= hi * Cardinality(own)
    BY <1>3, <1>2, <2>1, SumBounded
  <2> QED BY <1>2, <2>1, <2>2, <2>3, DivBounded
<1>5. /\ IsFiniteSet(DOMAIN s) /\ m = SampleCount(e) /\ m \in 1..n
      /\ \A x \in DOMAIN s : s[x] \in Int /\ lo <= s[x] /\ s[x] <= hi
  <2>1. CASE Guarded BY <1>1, <1>4, <2>1, UnitsAre DEF UnitMeans, SampleCount, Compared
  <2>2. CASE ~Guarded
    <3>1. DOMAIN s = 1..n /\ s = raw BY <1>1, <2>2 DEF RawScores
    <3>2. IsFiniteSet(1..n) /\ Cardinality(1..n) = n BY <1>1, FS_Interval
    <3>3. m = SampleCount(e) BY <2>2, <3>1, <3>2 DEF SampleCount
    <3>4. m >= 1 BY <1>1, <3>1, <3>2, <3>3 DEF Compared
    <3> QED BY <1>1, <1>3, <3>1, <3>2, <3>3, <3>4
  <2> QED BY <2>1, <2>2
<1> DEFINE total == SumFunctionOnSet(s, DOMAIN s)
<1>6. MeanScore(e) = (total * Scale) \div m BY DEF MeanScore, SumFunction
<1> HIDE DEF s, lo, hi, m, n, total
<1>7. m \in Nat \ {0} BY <1>1, <1>5
<1>8. total \in Int /\ lo * m <= total /\ total <= hi * m
  BY <1>2, <1>5, SumBounded DEF total, m
<1>9. (lo * Scale) * m <= total * Scale /\ total * Scale <= (hi * Scale) * m
  BY <1>2, <1>7, <1>1, <1>8, ScaleMonotone
<1>10. total * Scale \in Int /\ lo * Scale \in Int /\ hi * Scale \in Int
  BY <1>1, <1>2, <1>8
<1>11. /\ (total * Scale) \div m \in Int
       /\ lo * Scale <= (total * Scale) \div m /\ (total * Scale) \div m <= hi * Scale
  BY <1>7, <1>9, <1>10, DivBounded
<1> QED BY <1>5, <1>6, <1>11 DEF lo, hi, n

\* The bounds of an interval are in order.
LEMMA IntervalOrdered ==
  ASSUME PrInv, NEW e \in PrEvidence, Compared(e)
  PROVE  Lower(e) \in Int /\ Upper(e) \in Int /\ Lower(e) <= Upper(e)
<1> DEFINE lo == prPolicy.low * Scale * Scale
           hi == prPolicy.high * Scale * Scale
           radius == Radius(prPolicy.method, SampleCount(e))
<1>1. MeanScore(e) \in Int /\ lo <= MeanScore(e) /\ MeanScore(e) <= hi BY MeanBounded
<1>2. radius \in Nat BY MeanBounded, EvidenceIs
<1>3. lo \in Int /\ hi \in Int BY EvidenceIs
<1>4. Lower(e) = HigherOf(lo, MeanScore(e) - radius) /\ Upper(e) = LowerOf(hi, MeanScore(e) + radius)
  BY DEF Lower, Upper
<1> HIDE DEF lo, hi, radius
<1> QED BY <1>1, <1>2, <1>3, <1>4 DEF HigherOf, LowerOf

\* Pruning is a strict order: each step leads to a higher interval.
LEMMA PruningOrders ==
  ASSUME PrInv
  PROVE  /\ \A c \in PrEvidence : ~Prunes(c, c)
         /\ \A c, i, j \in PrEvidence : Prunes(c, i) /\ Prunes(i, j) => Prunes(c, j)
<1>1. ASSUME NEW e \in PrEvidence PROVE SampleCount(e) \in Nat
  BY EvidenceIs, UnitsAre DEF SampleCount
<1>2. ASSUME NEW c \in PrEvidence, NEW i \in PrEvidence
      PROVE  /\ prPolicy.margin \in Nat
             /\ Prunes(c, i) <=> Compared(c) /\ Compared(i) /\ Upper(c) + prPolicy.margin < Lower(i)
  BY <1>1, EvidenceIs, PrunesIs DEF Dominated
<1>3. ASSUME NEW e \in PrEvidence, Compared(e)
      PROVE  Lower(e) \in Int /\ Upper(e) \in Int /\ Lower(e) <= Upper(e)
  BY <1>3, IntervalOrdered
<1>4. ASSUME NEW c \in PrEvidence PROVE ~Prunes(c, c) BY <1>2, <1>3
<1>5. ASSUME NEW c \in PrEvidence, NEW i \in PrEvidence, NEW j \in PrEvidence,
             Prunes(c, i), Prunes(i, j)
      PROVE  Prunes(c, j) BY <1>2, <1>5, <1>3
<1> QED BY <1>4, <1>5

LEMMA OneSurvives ==
  ASSUME PrInv
  PROVE  SomeActionSurvives
<1> DEFINE R == {ic \in PrActions \X PrActions : Prunes(evidence[ic[2]], evidence[ic[1]])}
<1>1. \A i, c \in PrActions : <<i, c>> \in R <=> Prunes(evidence[c], evidence[i])
  OBVIOUS
<1>2. \A c \in PrActions : evidence[c] \in PrEvidence BY DEF PrInv
<1>3. /\ \A p \in PrActions : <<p, p>> \notin R
      /\ \A p, q, r \in PrActions : <<p, q>> \in R /\ <<q, r>> \in R => <<p, r>> \in R
  <2> HIDE DEF R
  <2> QED BY <1>1, <1>2, PruningOrders
<1> HIDE DEF R
<1>4. PICK c \in PrActions : \A i \in PrActions : <<i, c>> \notin R
  BY <1>3, FirstExists, PruningAssumption
<1> QED BY <1>1, <1>4 DEF SomeActionSurvives

\* Running every sample again, in its own unit.
LEMMA AgainIs ==
  ASSUME PrInv, Guarded, NEW e \in PrEvidence
  PROVE  LET twice == Again(e) IN
         /\ twice.data = e.data /\ twice.known = e.known
         /\ UnitsOf(twice) = UnitsOf(e) /\ UnitMeans(twice) = UnitMeans(e)
         /\ OutOfBounds(twice) <=> OutOfBounds(e)
<1> DEFINE n == Len(e.samples)
           twice == Again(e)
<1>1. /\ Scale \in Nat \ {0} /\ n \in Nat /\ DOMAIN e.samples = 1..n
      /\ e = [data |-> e.data, known |-> e.known, samples |-> e.samples]
      /\ \A k \in 1..n : e.samples[k].score \in Int BY EvidenceIs
<1>2. twice.data = e.data /\ twice.known = e.known /\ twice.samples = e.samples \o e.samples
  BY <1>1 DEF Again
<1>3. /\ DOMAIN twice.samples = 1..(n + n)
      /\ \A k \in 1..n : /\ k \in 1..(n + n) /\ k + n \in 1..(n + n)
                        /\ twice.samples[k] = e.samples[k]
                        /\ twice.samples[k + n] = e.samples[k]
      /\ \A j \in 1..(n + n) : j \in 1..n \/ (\E k \in 1..n : j = k + n)
  <2>1. e.samples \in Seq([unit : Nat, score : Int]) BY PruningAssumption
  <2>2. /\ Len(e.samples \o e.samples) = n + n
        /\ DOMAIN (e.samples \o e.samples) = 1..(n + n)
        /\ \A j \in 1..(n + n) :
             (e.samples \o e.samples)[j] = IF j <= n THEN e.samples[j] ELSE e.samples[j - n]
    BY <2>1, ConcatProperties
  <2>3. \A k \in 1..n : /\ k \in 1..(n + n) /\ k + n \in 1..(n + n)
                       /\ k <= n /\ ~ (k + n <= n) /\ (k + n) - n = k BY <1>1
  <2>4. \A j \in 1..(n + n) : j \notin 1..n => j - n \in 1..n /\ j = (j - n) + n
    BY <1>1
  <2> QED BY <1>2, <2>2, <2>3, <2>4
<1> HIDE DEF twice, n
<1>4. /\ \A k \in 1..n : \E j \in 1..(n + n) : twice.samples[j] = e.samples[k]
      /\ \A j \in 1..(n + n) : \E k \in 1..n : twice.samples[j] = e.samples[k] BY <1>3
<1>5. UnitsOf(twice) = UnitsOf(e)
  <2>1. /\ UnitsOf(e) = {e.samples[k].unit : k \in 1..n}
        /\ UnitsOf(twice) = {twice.samples[j].unit : j \in 1..(n + n)}
    BY <1>1, <1>3 DEF UnitsOf
  <2> QED BY ONLY <1>4, <2>1
<1>6. OutOfBounds(twice) <=> OutOfBounds(e) BY <1>1, <1>3, <1>4 DEF OutOfBounds
<1>7. ASSUME NEW u \in UnitsOf(e) PROVE UnitMeans(twice)[u] = UnitMeans(e)[u]
  <2> DEFINE own == UnitSamples(e, u)
             all == UnitSamples(twice, u)
             raw == RawScores(e)
             again == RawScores(twice)
             total == SumFunctionOnSet(raw, own)
  <2>1. own \subseteq 1..n /\ Cardinality(own) \in Nat \ {0} BY UnitsAre DEF n
  <2>2. all = Twofold(own, n)
    <3>1. \A k \in 1..n : k \in own <=> e.samples[k].unit = u BY <1>1 DEF UnitSamples
    <3>2. \A j \in 1..(n + n) : j \in all <=> twice.samples[j].unit = u
      BY <1>3 DEF UnitSamples
    <3>3. all \subseteq 1..(n + n) BY <1>3 DEF UnitSamples
    <3> HIDE DEF own, all
    <3>4. \A k \in own : k \in all /\ k + n \in all BY <1>3, <2>1, <3>1, <3>2
    <3>5. ASSUME NEW j \in all PROVE j \in own \/ \E k \in own : j = k + n
      BY <1>3, <3>2, <3>3, <3>1
    <3> QED BY <3>4, <3>5 DEF Twofold
  <2>3. \A k \in own : raw[k] \in Int /\ again[k] = raw[k] /\ again[k + n] = raw[k]
    <3>1. \A k \in 1..n : raw[k] = e.samples[k].score * Scale BY <1>1 DEF RawScores
    <3>2. \A j \in 1..(n + n) : again[j] = twice.samples[j].score * Scale
      BY <1>3 DEF RawScores
    <3> HIDE DEF own, raw, again
    <3>3. ASSUME NEW k \in own
          PROVE  raw[k] \in Int /\ again[k] = raw[k] /\ again[k + n] = raw[k]
      <4>1. k \in 1..n BY <2>1
      <4>2. e.samples[k].score \in Int /\ Scale \in Int BY <1>1, <4>1
      <4> QED BY ONLY <1>3, <3>1, <3>2, <4>1, <4>2
    <3> QED BY <3>3
  <2>4. /\ UnitMeans(e)[u] = total \div Cardinality(own)
        /\ UnitMeans(twice)[u] = SumFunctionOnSet(again, all) \div Cardinality(all)
    BY <1>5 DEF UnitMeans
  <2> HIDE DEF own, all, raw, again
  <2>5. /\ total \in Int
        /\ SumFunctionOnSet(again, all) = 2 * total /\ Cardinality(all) = 2 * Cardinality(own)
    <3>1. n \in Nat /\ own \subseteq 1..n BY <1>1, <2>1
    <3>2. /\ SumFunctionOnSet(raw, own) \in Int
          /\ SumFunctionOnSet(again, Twofold(own, n)) = 2 * SumFunctionOnSet(raw, own)
      BY ONLY <2>3, <3>1, SumDoubled
    <3>3. Cardinality(Twofold(own, n)) = 2 * Cardinality(own)
      BY ONLY <3>1, CardinalityDoubled
    <3> QED BY ONLY <2>2, <3>2, <3>3 DEF total
  <2> HIDE DEF total
  <2>6. (2 * total) \div (2 * Cardinality(own)) = total \div Cardinality(own)
    BY <2>1, <2>5, DivDoubled
  <2> QED BY <2>4, <2>5, <2>6
<1>8. UnitMeans(twice) = UnitMeans(e) BY <1>5, <1>7 DEF UnitMeans
<1> QED BY <1>2, <1>5, <1>6, <1>8 DEF twice

LEMMA RepeatsPruneNothing ==
  ASSUME PrInv
  PROVE  RepeatsAddNothing
<1> SUFFICES ASSUME Guarded, NEW c \in PrActions, NEW i \in PrActions,
                    Prunes(Again(evidence[c]), Again(evidence[i]))
             PROVE  Prunes(evidence[c], evidence[i]) BY DEF RepeatsAddNothing
<1>1. ASSUME NEW e \in PrEvidence
      PROVE  /\ SampleCount(e) \in Nat /\ SampleCount(Again(e)) = SampleCount(e)
             /\ Lower(Again(e)) = Lower(e) /\ Upper(Again(e)) = Upper(e)
             /\ Compared(Again(e)) <=> Compared(e)
  <2>1. SampleCount(e) = Cardinality(UnitsOf(e)) /\ SampleCount(Again(e)) = Cardinality(UnitsOf(Again(e)))
    BY DEF SampleCount
  <2>2. SampleCount(e) \in Nat /\ SampleCount(Again(e)) = SampleCount(e)
    BY <2>1, AgainIs, EvidenceIs, UnitsAre
  <2>3. MeanScore(Again(e)) = MeanScore(e) BY AgainIs DEF MeanScore
  <2>4. Lower(Again(e)) = Lower(e) /\ Upper(Again(e)) = Upper(e)
    BY <2>2, <2>3 DEF Lower, Upper
  <2>5. Compared(Again(e)) <=> Compared(e) BY <2>2, AgainIs DEF Compared
  <2> QED BY <2>2, <2>4, <2>5
<1>2. evidence[c] \in PrEvidence /\ evidence[i] \in PrEvidence BY DEF PrInv
<1>3. prPolicy.visits \in Nat BY <1>2, EvidenceIs
<1> QED BY <1>1, <1>2, <1>3, PrunesIs DEF Dominated

\* engine/search/pruning.py: for any finite set of sibling actions, any evidence
\* and any valid policy, a repeated run in the same sampling unit prunes nothing
\* that was kept, and an action survives when each is assessed against all others.
THEOREM EvidenceSafety == PrSpec => []EvidenceCounted
<1>1. PrInit => PrInv BY DEF PrInit, PrInv
<1>2. PrInv /\ [PrNext]_prVars => PrInv'
  BY DEF PrInv, PrNext, Assess, ChooseUnexplored, Calls, prVars
<1>3. PrInv => EvidenceCounted BY OneSurvives, RepeatsPruneNothing DEF EvidenceCounted
<1> QED BY <1>1, <1>2, <1>3, PTL DEF PrSpec

=============================================================================
