SPECIFICATION FairSpec
CONSTANTS
  r1 = r1
  r2 = r2
  Requests = {r1, r2}
  Limit = 3
  Estimate <- MCEstimate
  Actuals = {1, 2}
  Queued = {r1}
  Clients = {"v1"}
  Grants = {1}
  Faults <- BeforeCommit
  MaxTries = 2
  MaxCrashes = 0
  MaxPeriods = 1
CHECK_DEADLOCK FALSE
INVARIANTS
  WithinQuota
  ReserveIsOutstanding
PROPERTIES
  ChatSettles
