SPECIFICATION FairHubSpec
CONSTANTS
  j1 = j1
  j2 = j2
  first = first
  second = second
  Jobs = {j1, j2}
  Shards = {first, second}
  FileOf <- MCFileOf
  FirstShard = first
  MaxConcurrent = 1
  MaxAttempts = 2
  MaxDisturbances = 1
  Corrupts = TRUE
CHECK_DEADLOCK FALSE
INVARIANTS
  ActiveIsAttended
  SlotsUsedExactly
  FinalIsVerified
PROPERTIES
  EveryDownloadSettles
