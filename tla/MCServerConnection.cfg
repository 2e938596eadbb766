SPECIFICATION MCSpec
CONSTANTS
  c1 = c1
  c2 = c2
  u1 = u1
  s1 = s1
  s2 = s2
  None = None
  Cycles <- MCCycles
  MaxClients = 6
  Configs <- MCConfigs
  Uris <- MCUris
  Streams <- MCStreams
  MaxEdition = 3
  MaxGen = 4
  Regimes <- MCRegimes
INVARIANT NeverStranded
INVARIANT NoLeakedLink
INVARIANT ReadsOfThisSession
INVARIANT ObservedStaySubscribed
INVARIANT NothingStale
PROPERTY RetriesInTurn
PROPERTY NoGap
PROPERTY Settles
PROPERTY EndsHearing
CHECK_DEADLOCK FALSE
