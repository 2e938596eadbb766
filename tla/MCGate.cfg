SPECIFICATION MCSpec
CONSTANTS
  o1 = o1
  o2 = o2
  o3 = o3
  k1 = k1
  Ops <- MCOps
  Keys <- MCKeys
  keyOf <- OneTenant
  Concurrency = 1
  Threshold = 2
  Configs <- MCConfigs
  Servers <- MCServers
  Gates <- MCGates
INVARIANT SlotsAreForRequests
INVARIANT DiscoveryIsEnforced
PROPERTY NeverMisrouted
PROPERTY CallsSettle
PROPERTY Recovers
CHECK_DEADLOCK FALSE
