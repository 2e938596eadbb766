SPECIFICATION MCSpec
CONSTANTS
  Daemons = {d1, d2}
  Callers = {c1, c2}
  MaxEnds = 0
  MaxLines = 1
  Lines <- MCFewLines
  Registered = {"srv"}
  Catalogs <- MCFewCatalogs
  MaxDeploys = 0
  Shells = {sh1}
  Names = {n1}
  Entries = {e1}
  MaxVerbs = 0
  MaxKills = 0
  r1 = r1
  r2 = r2
  k1 = k1
  k2 = k2
  Requests <- MCRequests
  Servers <- MCKeys
  MaxConns = 1
  Configs <- SharedConfigs
  Offers <- MCFewOffers
  Uses = {{}, {"r"}}
  Schemas <- MCSchemas
  Height <- MCHeight
  Values <- MCValues
  MaxMoves = 0
INVARIANT OneDaemon
CHECK_DEADLOCK FALSE
