SPECIFICATION FairSpec
CONSTANTS
  s1 = s1
  s2 = s2
  Panels = {p1, p2}
  Uploads = {u1, u2}
  Selections = {s1, s2}
  Default = s1
  Remote = {s2}
  TextLen <- MCTextLen
  Configs <- MCConfigs
  NTurns = 2
  Workers = {1, 2}
  Rate = 1
  MaxPolls = 1
  MaxJobs = 2
  MaxChoices = 2
  MaxRestarts = 1
  NoText = NoText
  Garbled = Garbled
  NoSelection = NoSelection
CHECK_DEADLOCK FALSE
INVARIANTS
  SelectionIsSound
  TurnsAreWhole
  AnswerClosesUpload
PROPERTIES
  EveryoneIsAnswered
