SPECIFICATION MCSpec
CONSTANTS
  c1 = c1
  c2 = c2
  c3 = c3
  Callers <- MCCallers
  MaxVersion = 3
  Configs <- MCConfigs
  Setups <- MCSetups
  MaxKey = 2
  MaxRules = 2
  MaxEdits = 2
  MaxAsks = 1
INVARIANT FreshOrOvertaken
INVARIANT NothingUnapproved
INVARIANT ResultIsTheTasks
PROPERTY NothingMisreported
PROPERTY QueriesSettle
PROPERTY HandleSettles
CHECK_DEADLOCK FALSE
