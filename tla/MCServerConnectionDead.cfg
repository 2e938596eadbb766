SPECIFICATION MCSpec
CONSTANTS
  c1 = c1
  c2 = c2
  u1 = u1
  s1 = s1
  s2 = s2
  None = None
  Cycles <- MCCycles
  MaxClients = 6
  Configs <- DropConfigs
  Uris <- MCUris
  Streams <- MCStreams
  MaxEdition = 1
  MaxGen = 1
  Regimes <- MCRegimes
INVARIANT ReadyIsLive
CHECK_DEADLOCK FALSE
