CONSTANTS
  w1 = w1
  w2 = w2
  op1 = op1
  s1 = s1
  s2 = s2
  Jobs = {1}
  JobSpec <- SoloSpec
  Workers = {w1}
  Operators = {op1}
  Accepts <- AcceptAll
  LeaseSeconds = 2
  ArtifactSets = {1, 2}
  Positions = {}
  Units = {}
  Totals = {}
  MaxClock = 4
  MaxLag = 0
  LastClaim = 2
  Stores = {s1}
  StoreOf <- SharedStore
  Items = {1, 2}
  Contents <- TwoAndOne
  MaxCrashes = 1
SPECIFICATION StoreFairSpec
INVARIANT
  StoreCorrect
PROPERTY
  StagingCollected
CHECK_DEADLOCK FALSE
