CONSTANTS
  NoLimit = NoLimit
  Pools = {1, 2}
  PlanNames = {"dfs", "dfs_depth", "dfs_open", "dfs_mixed", "dfs_replays", "dfs_goal",
    "dfs_timed", "dfs_raises", "dfs_home", "dfs_score", "beam", "beam_wide", "beam_nodes",
    "beam_replays", "beam_goal", "beam_timed", "mcts", "mcts_wide",
    "mcts_open", "mcts_replays", "mcts_goal", "mcts_timed"}
  Experiments <- MCExperiments
SPECIFICATION Spec
INVARIANTS
  SearchCorrect
  PoolIndependent
PROPERTY
  SearchTerminates
CHECK_DEADLOCK FALSE
