SPECIFICATION MCSpec
CONSTANTS
  Principals = {p1}
  Operators = {o1}
  MaxClients = 1
  MaxCalls = 1
  RetryCount = 1
  MaxChains = 2
  MaxWrites = 1
  MaxConns = 1
  Procs = {p}
  Issuers = {i}
  MaxTokens = 1
  Keys = {k1}
  MaxRequests = 1
  ToolNames = {a}
  MaxSyncs = 1
  PaletteRuns = {run1}
  MaxIds = 4
  MaxKeys = 2
  HubCapacity = 1
  RowCapacity = 1
  MaxHappenings = 0
  ServerNames = {n1, n2}
  FirstServer = n1
  Bases = {b1, b2}
  MaxMessages = 4
  MaxDeltas = 2
  DefaultBase = b1
  MaxRuns = 2
  MaxTurns = 4
  MaxSlips = 1
INVARIANT TypedTextIsKept
CHECK_DEADLOCK FALSE
