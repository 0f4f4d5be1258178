CONSTANTS
  w1 = w1
  op1 = op1
  Jobs = {1, 2}
  JobSpec <- ReplaySpec
  Workers = {w1}
  Operators = {op1}
  Accepts <- AcceptAll
  LeaseSeconds = 1
  ArtifactSets = {1}
  Positions = {11, 12, 13, 14, 21, 22, 23, 24}
  Units = {0, 1}
  Totals = {1}
  MaxClock = 3
  MaxLag = 0
  LastClaim = 1
  Total <- TotalUnits
  FinalUnits <- EndUnits
  MaxHosts = 2
SPECIFICATION WorkerFairSpec
INVARIANT
  WorkerCorrect
PROPERTIES
  TreeDownBeforeTransition
  SupervisorEnds
CHECK_DEADLOCK FALSE
