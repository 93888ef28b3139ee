SPECIFICATION FairSpec
CONSTANTS
  c1 = c1
  c2 = c2
  b1 = b1
  b2 = b2
  d1 = d1
  d2 = d2
  q1 = q1
  q2 = q2
  r1 = r1
  r2 = r2
  Models = {1, 2, 3}
  Catalogue <- MCCatalogue
  Policies <- MCPolicies
  MaxEdits = 1
  Customers = {c1, c2}
  Bases = {b1, b2}
  Docs = {d1, d2}
  Owner <- MCOwner
  NChunks = 2
  TopK = 2
  CharBudget = 2
  Context = 3
  Floor = 1
  MaxText = 7
  MaxChars = 3
  Tenants = {c1, c2}
  Calls = {q1, q2}
  CallOf <- MCCallOf
  Windows = 2
  Target = 90
  LatencyTarget = 3
  CreditMicros = 1
  Cases = 2
  MaxRuns = 3
  Paid = {r1, r2}
  MaxJobs = 2
CHECK_DEADLOCK FALSE
INVARIANTS
  RoutedAsAllowed
  RetrievalIsSound
  WorkIsAccounted
PROPERTIES
  ChunkingIsFaithful
  JobsRerunSafely
