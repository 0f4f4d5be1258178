CONSTANTS
  FwThreads = {"t1"}
  FwCalls = 3
  MaxRetries = 1
  Submissions <- MCSubmissions
  PpPools <- McPools
  FailurePool = 4
  PpRetries = 1
  PcEntries <- MCEntries
  PcPolicies <- MCPolicies
  PcSteps = 5
  SmBudgets <- MCBudgets
  Unlimited = Unlimited
  SmScores = {0, 1}
  SmTransitions = {"t", "u"}
  SmNodes = 4
  Interruptions <- McInterruptions
  ChainWindows <- McChain
  IdleWindows <- McIdle
  Asks <- McAsks
  MaxPrefix = 4
  RouteStates = {1, 2}
  MaxEvents = 2
  Versions = {"v1", "v2"}
  BaselineHand <- McBase
  TrialHands <- McHands
  MaxTrials = 3
  ViewCards <- McViewCards
  CardCodes = {20, 30}
  RealCode <- McRealCode
  OtherCodes <- McOtherCodes
  FirstLayout <- McLayout
  MaxViewSteps = 2
  MaxViewRetries = 1
  SampleWeights <- McWeights
  PrActions = {1, 2, 3}
  PrEvidence <- McEvidence
  PrPolicies <- McPruningPolicies
  Radius <- McRadius
  Scale = 12
  PrCalls = 1
SPECIFICATION Spec
INVARIANTS
  AttemptsAccounted
  EvidenceCounted
  OffersTraced
  HiddenStaysHidden
PROPERTIES
  RecentEntriesKept
  BudgetDecided
  ReportConsistent
CHECK_DEADLOCK FALSE
