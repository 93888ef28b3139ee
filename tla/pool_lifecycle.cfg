SPECIFICATION FairSpec
CONSTANTS
  a = a
  b = b
  c = c
  Models = {a, b, c}
  Ram <- MCRam
  Budget = 2
  Protected = {}
  Leased = {a}
  Callers = {u, v}
  u = u
  v = v
  MaxSpawns = 2
  MaxUnloads = 1
CHECK_DEADLOCK FALSE
INVARIANTS
  ChildrenAccounted
  RunsOnlyWhenReady
  CountsAreExact
PROPERTIES
  EveryCallerEnds
