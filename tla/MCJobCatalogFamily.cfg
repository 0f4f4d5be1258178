CONSTANTS
  w1 = w1
  w2 = w2
  op1 = op1
  op2 = op2
  Accepts <- AcceptAll
  LeaseSeconds = 2
  Jobs = {1, 2, 3}
  Workers = {w1}
  Operators = {op1}
  JobSpec <- FamilySpec
  ArtifactSets = {1}
  Positions = {}
  Units = {}
  Totals = {}
  MaxClock = 5
  MaxLag = 0
  LastClaim = 3
SPECIFICATION Spec
CHECK_DEADLOCK FALSE
INVARIANTS
  DependencyOrder
PROPERTIES
  ImplementsLifecycle
