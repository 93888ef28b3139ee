SPECIFICATION Spec
CONSTANTS
  c1 = c1
  c2 = c2
  c3 = c3
  Requests = {c1, c2, c3}
  Callers = {c1, c2, c3}
  InFlight <- MCInFlight
  Mixes <- MCMixes
  Rpm = 1
  MaxConcurrent = 1
  VoicePerHour = 1
  Quota = 2
  Cost = 2
  MaxExpiries = 1
  MaxSessions = 2
  MaxPolls = 1
SYMMETRY Interchangeable
CHECK_DEADLOCK FALSE
INVARIANTS
  LimitsHold
  CapturesAreSound
