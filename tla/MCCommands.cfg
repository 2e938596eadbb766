SPECIFICATION MCSpec
CONSTANTS
  Daemons = {d1, d2}
  Callers = {c1, c2}
  MaxEnds = 1
  MaxLines = 4
  Lines <- MCLines
  Registered = {"srv"}
  Catalogs <- MCCatalogs
  MaxDeploys = 1
  Shells = {sh1, sh2}
  Names = {n1, n2}
  Entries = {e1}
  MaxVerbs = 3
  MaxKills = 1
  r1 = r1
  r2 = r2
  k1 = k1
  k2 = k2
  Requests <- MCRequests
  Servers <- MCKeys
  MaxConns = 3
  Configs <- MCConfigs
  Offers <- MCOffers
  Uses = {{}, {"r"}}
  Schemas <- MCSchemas
  Height <- MCHeight
  Values <- MCValues
  MaxMoves = 1
INVARIANT PoolIsKept
INVARIANT VerdictIsSound
INVARIANT OneFaultNeverSurfaces
INVARIANT NothingCutShort
INVARIANT SentAsWritten
INVARIANT ToldIsFound
PROPERTY ComesUp
CHECK_DEADLOCK FALSE
