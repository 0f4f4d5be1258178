CONSTANTS
  w1 = w1
  w2 = w2
  op1 = op1
  op2 = op2
  Accepts <- AcceptAll
  LeaseSeconds = 2
  Jobs = {1}
  Workers = {w1, w2}
  Operators = {op1}
  JobSpec <- SoloSpec
  ArtifactSets = {1, 2}
  Positions = {1}
  Units = {0}
  Totals <- UnknownOnly
  MaxClock = 6
  MaxLag = 1
  LastClaim = 3
SPECIFICATION FairSpec
CHECK_DEADLOCK FALSE
INVARIANTS
  TypeOK
  LeaseMatchesAttempt
  AttemptsDistinct
  AttemptBudget
  RetryBeforeDeadline
  BoundedRecovery
PROPERTIES
  CommitByOwner
  AttemptEnds
