CONSTANTS
  w1 = w1
  op1 = op1
  Jobs = {1}
  JobSpec <- OneExport
  Workers = {w1}
  Operators = {op1}
  Accepts <- AcceptExports
  LeaseSeconds = 2
  ArtifactSets = {1}
  Positions = {10, 11, 12}
  Units = {1}
  Totals = {1}
  MaxClock = 5
  MaxLag = 0
  LastClaim = 3
  RowCount <- OneRow
  MaxHosts = 2
SPECIFICATION ExportFairSpec
INVARIANT
  ExportCorrect
PROPERTY
  ExportSettles
CHECK_DEADLOCK FALSE
