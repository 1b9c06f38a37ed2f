\* The bounds are used up, and a batch, look-up, title or scan runs once: the services may stop.
SPECIFICATION Spec
CONSTANTS
  d1 = d1
  d2 = d2
  Services = {"amenities", "movies", "intl", "rotation", "ledger", "cascade", "matcher", "reader", "audit"}
  Uploaded <- DeskRows
  Typed <- DeskSingles
  Requests <- DeskRequests
  KeyOrder <- TwoKeys
  KeyOf <- DeskKeys
  Procs = {"p"}
  SampleLimit = 1
  MaxMappings = 1
  MaxFaults = 1
  ProgressEvery = 2
  Callers = {"x", "y"}
  Slots = 2
  Cooldown = 2
  ProviderKeys = 2
  TableAtStart = {TRUE, FALSE}
  MaxCalls = 3
  RollupSize = 2
  Rollups = {"t", "u"}
  MaxFailures = 1
  Indexes <- SomeIndexes
  Strings <- SomeStrings
  Ignored <- SaysNothing
  Stopword <- The
  VipWord <- Vip
  MinLen = 2
  CircuitOf <- SomeCircuits
  Titles = {1, 2}
  Ghosts = {9}
  Modes = {"enforce", "log_only"}
  MatchConfidences = {40, 95}
  ReadConfidences = {40, 60, 90}
  NRules = 3
  ChunkSize = 2
  Channels <- Mails
SYMMETRY RequestSymmetry
INVARIANTS TypeOK EveryMissIsReviewed ApprovalIsInTheEngine KeysAreHeldFairly LedgerIsExact EveryRuleIsReported
INVARIANTS CascadeKeepsTheBest CircuitRulesHold
INVARIANTS RefusedRowsStayOut AcceptedRowsAreEndorsed ConflictsAreReviewed
CHECK_DEADLOCK FALSE
