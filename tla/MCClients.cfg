SPECIFICATION MCSpec
CONSTANTS
  Principals = {p1, p2}
  Operators = {o1, o2}
  MaxClients = 4
  MaxCalls = 3
  RetryCount = 1
  MaxChains = 2
  MaxWrites = 4
  MaxConns = 3
  Procs = {p, q}
  Issuers = {i, j}
  MaxTokens = 2
  Keys = {k1, k2}
  MaxRequests = 3
  ToolNames = {a, b}
  MaxSyncs = 4
  PaletteRuns = {run1, run2}
  MaxIds = 4
  MaxKeys = 1
  HubCapacity = 2
  RowCapacity = 2
  MaxHappenings = 4
  ServerNames = {n1, n2}
  FirstServer = n1
  Bases = {b1, b2}
  MaxMessages = 4
  MaxDeltas = 2
  DefaultBase = b1
  MaxRuns = 2
  MaxTurns = 4
  MaxSlips = 1
INVARIANT NoClientLost
INVARIANT NothingPaidTwice
INVARIANT SyncedIsMirrored
INVARIANT OrphansNeedOverlap
INVARIANT FileHasLastTokens
INVARIANT ReplayIsFaithful
INVARIANT PageHasCatalog
INVARIANT SentIsGrounded
INVARIANT ComposerIsTrue
PROPERTY NoSessionLeaks
PROPERTY NeverGoesBack
PROPERTY ShowsTheDisk
PROPERTY EndsTogether
CHECK_DEADLOCK FALSE
