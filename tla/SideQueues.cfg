\* The services end: a job that is over takes no further step.
SPECIFICATION FairSpec
CONSTANTS
  ShowtimeBatches = {"b1", "b2"}
  Showings = {1, 2, 3}
  ShowingsOf <- OneEach
  Cap = 1
  Ladder = 1
  AbortAfter = 2
  GoogleSays = {"T"}
  SiteSays = {"F", "U"}
  ShowtimeFaults = 1
  KeySlots = 1
  Cooldown = 1
  ProviderKeys = 1
  TableAtStart = {TRUE}
  Images = {1, 2, 3}
  LobbyTakers = {"s", "t"}
  Window = 2
  Refill = 1
  Attempts = 2
  MaxErrors = 2
  MaxChunks = 3
INVARIANTS TypeOK  TotalsAddUp
PROPERTIES EveryJobEnds FilmsReachTheIndex SyncsGoOn
CHECK_DEADLOCK FALSE
