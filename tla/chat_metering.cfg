SPECIFICATION Spec
CONSTANTS
  r1 = r1
  r2 = r2
  Requests = {r1, r2}
  Limit = 3
  Estimate <- MCEstimate
  Actuals = {1, 3}
  Queued = {r1, r2}
  Clients = {"v1", "anusandhan"}
  Grants = {}
  Faults <- EveryStretch
  MaxTries = 2
  MaxCrashes = 1
  MaxPeriods = 1
CHECK_DEADLOCK FALSE
SYMMETRY Symmetry
INVARIANTS
  TypeOK
  LedgerMatchesEntries
  ChargeMatchesUsage
  SettledWhenDone
PROPERTIES
  MeterSpec
