SPECIFICATION RegistrySpec
CONSTANTS
  PoolModels = {"x", "y"}
  Repos = {"r1", "r2"}
  MaxClicks = 4
  MaxExits = 2
  Slugs = {"a", "b"}
  Paths <- MCPaths
  Prices <- MCPrices
  EnvKey = FALSE
  MaxOps = 3
  MaxFaults = 1
  MaxCrashes = 1
  MaxClock = 6
CHECK_DEADLOCK FALSE
INVARIANTS
  RegistryAgrees
  ActivePriceIsLatest
PROPERTIES
  StepsSpareOthers
  PanelsSettle
