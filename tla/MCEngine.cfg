CONSTANTS
  Duels = {d1, d2}
  OdSteps = 2
  OdCalls = 4
  OdCallbacks = 2
  CiCards = {1, 2}
  CiOwner <- McOwner
  CiTokens = {2}
  Spots <- McSpots
  CiScans = 5
  CiBatch = 2
  Batches <- McBatches
  Values = {1, 2}
  MaxFields = 64
  ByteMax = 2
  WordMax = 3
  FrontierLimit = 9
  CoreOutputs <- McCoreOutputs
  Scripts <- McScripts
  GivenPrefixes <- McPrefixes
  TurnLimit = 2
  ResponseBudget = 5
  MaxPrefix = 3
  MaxLinks = 2
  MaxEvents = 5
  StateHashes = {s1, s2}
  FrameBatches <- McFrameBatches
  Seeded <- Alternate
  MaxDraws = 2
  MaxOutputs = 3
  Verifiers = {v1, v2}
  NamedParts = {n1, n2}
  HiddenParts = {h1, h2}
  ReplaceAttempts = 2
  MaxUpgrades = 1
  Experiments <- McExperiments
  Binaries = {"b1", "b2"}
  Repositories <- McRepositories
  MaxRuns = 3
  MaxEdits = 1
  Null = Null
  RdRuns <- McRuns
  RdChanged <- McChanged
  RdDropped <- McDropped
  RdEdits = 2
SPECIFICATION Spec
INVARIANTS
  SessionAccounted
  SelectionsExact
  RouteFaithful
  LifecyclesGrouped
  RecordsTrusted
  ReportsTrusted
PROPERTIES
  CardsFollowed
  BootstrapRecovers
SYMMETRY McDuels
CHECK_DEADLOCK FALSE
