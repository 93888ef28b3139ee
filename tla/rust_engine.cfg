SPECIFICATION FairSpec
CONSTANTS
  a = a
  b = b
  l1 = l1
  l2 = l2
  g1 = g1
  g2 = g2
  Models = {a, b}
  Ram <- MCRam
  Configs <- MCConfigs
  Budget = 3
  Loaders = {l1, l2}
  Resident = {a}
  Requests = {g1, g2}
  ModelOf <- MCModelOf
  MaxPerModel = 1
  BatchMax = 1
  QueueCap = 1
  ChanCap = 1
  MaxTokens = 2
CHECK_DEADLOCK FALSE
INVARIANTS
  EngineCountsAgree
PROPERTIES
  NeverEvictsActive
  StreamsEnd
