-------------------------- MODULE MCSearchExecutor --------------------------
(* Experiments over every decision graph of three states whose action lists *)
(* come from Lists, under the budgets and strategies of Plans.              *)
EXTENDS SearchExecutor

CONSTANT PlanNames

Lists == {<<>>, <<2, 3>>, <<3, Fail>>, <<Fail, 2>>, <<3, 1>>}
Graphs == [1..3 -> Lists]

Base == [mode |-> "depth_first", root |-> 1, next |-> [s \in 1..3 |-> <<>>],
         exact |-> 1..3, legal |-> {2, 3}, success |-> {3},
         score |-> <<0, 1, 0>>, replay_count |-> 1, timed |-> FALSE,
         max_depth |-> NoLimit, max_nodes |-> NoLimit,
         max_replays |-> NoLimit, target_score |-> NoLimit,
         stop_on_success |-> FALSE, width |-> 1, simulations |-> 3,
         wide |-> FALSE, rollout_last |-> FALSE]

DepthFirst == [Base EXCEPT !.max_nodes = 6]
Beam == [Base EXCEPT !.mode = "beam", !.max_depth = 3]
Mcts == [Base EXCEPT !.mode = "mcts", !.max_depth = 3, !.legal = {3}]

Plans ==
  [dfs |-> DepthFirst,
   dfs_depth |-> [DepthFirst EXCEPT !.max_depth = 1],
   dfs_open |-> [DepthFirst EXCEPT !.max_depth = 2, !.exact = {},
                                   !.max_nodes = NoLimit],
   dfs_mixed |-> [DepthFirst EXCEPT !.exact = {2, 3}, !.max_nodes = 5],
   dfs_replays |-> [DepthFirst EXCEPT !.max_replays = 3, !.replay_count = 2],
   dfs_goal |-> [DepthFirst EXCEPT !.stop_on_success = TRUE],
   dfs_timed |-> [DepthFirst EXCEPT !.timed = TRUE, !.max_nodes = 4],
   dfs_raises |-> [DepthFirst EXCEPT !.root = Fail],
   dfs_score |-> [DepthFirst EXCEPT !.max_nodes = NoLimit, !.success = {}],
   dfs_home |-> [DepthFirst EXCEPT !.legal = {1, 2}, !.success = {1}],
   beam |-> Beam,
   beam_wide |-> [Beam EXCEPT !.width = 2, !.exact = {}],
   beam_nodes |-> [Beam EXCEPT !.max_nodes = 4, !.width = 2],
   beam_replays |-> [Beam EXCEPT !.max_replays = 4, !.replay_count = 2],
   beam_goal |-> [Beam EXCEPT !.target_score = 1, !.width = 2],
   beam_timed |-> [Beam EXCEPT !.timed = TRUE, !.max_depth = 2],
   mcts |-> Mcts,
   mcts_wide |-> [Mcts EXCEPT !.wide = TRUE, !.rollout_last = TRUE,
                              !.simulations = 4],
   mcts_open |-> [Mcts EXCEPT !.exact = {}, !.max_nodes = 8],
   mcts_replays |-> [Mcts EXCEPT !.max_replays = 5, !.replay_count = 2,
                                 !.exact = {3}],
   mcts_goal |-> [Mcts EXCEPT !.stop_on_success = TRUE],
   mcts_timed |-> [Mcts EXCEPT !.timed = TRUE, !.max_depth = 2,
                               !.simulations = 2]]

MCExperiments ==
  {[Plans[n] EXCEPT !.next = g] : n \in PlanNames, g \in Graphs}

=============================================================================
