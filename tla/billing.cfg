SPECIFICATION FairSpec
CONSTANTS
  e1 = e1
  e2 = e2
  Events = {e1, e2}
  Micros <- MCMicros
  Cent = 2
  Asked <- MCAsked
  PeriodTicks = 1
  MaxTime = 2
  MaxCrashes = 1
  MaxCalls = 2
CHECK_DEADLOCK FALSE
INVARIANTS
  InvoiceIsRight
  RollOverIsSafe
PROPERTIES
  EndedIsInvoiced
