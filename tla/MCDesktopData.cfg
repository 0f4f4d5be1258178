CONSTANTS
  Parts = {"service", "shell", "result", "snapshot", "query", "comparison", "corpus"}
  DeckIds = {"d1", "d2", "d3"}
  DeckCards <- McDeckCards
  Contents = {"c1", "c2"}
  ContentCards <- McContentCards
  Calls = {1, 2}
  Shells = {1, 2}
  MaxDecks = 2
  MaxDesktopRetries = 1
  MaxProfiles = 2
  RouteChoices <- McRoutes
  PreferenceRules <- McRules
  MaxRoutes = 3
  MaxCandidates = 2
  r1 = r1  r2 = r2  rowA = rowA  rowB = rowB  rowC = rowC
  Procs = {p1, p2}
  Batches <- McSnapshotBatches
  MaxOps = 4
  MaxCrashes = 1
  QClients = {1}
  QExports = {1}
  QSources <- McSources
  QRequests <- McRequests
  QMaxLimit = 2
  MaxSyncRows = 3
  MaxScanRows = 4
  MaxOutputRows = 3
  QCalls = 4
  CmpOffers <- McOffers
  CmpRequests <- McComparisons
  CmpEvidence <- McEvidence
  CmpSize = 3
  Ingesters = {1, 2}
  CcItems <- McItems
  CcSources = {1}
  CcTimes = {1, 2}
  CcIngests = 2
SPECIFICATION Spec
INVARIANTS
  ResultsOpen
  StorageKept
  AnalyticsAgree
PROPERTIES
  DesktopIntact
  ImplementsView
SYMMETRY McProcs
CHECK_DEADLOCK FALSE
