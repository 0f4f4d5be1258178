CONSTANTS
  w1 = w1
  w2 = w2
  op1 = op1
  s1 = s1
  s2 = s2
  Jobs = {1, 2}
  JobSpec <- PairSpec
  Workers = {w1, w2}
  Operators = {op1}
  Accepts <- AcceptOwn
  LeaseSeconds = 2
  ArtifactSets = {1}
  Positions = {}
  Units = {}
  Totals = {}
  MaxClock = 2
  MaxLag = 0
  LastClaim = 2
  Stores = {s1, s2}
  StoreOf <- OwnStores
  Items = {1}
  Contents <- OneEach
  MaxCrashes = 0
SPECIFICATION StoreSpec
CHECK_DEADLOCK FALSE
INVARIANTS
  OtherStoresIgnored
