SPECIFICATION FairSpec
CONSTANTS
  r1 = r1
  r2 = r2
  r3 = r3
  NoRun = NoRun
  Runs = {r1}
  MaxSessions = 1
  MaxLines = 1
  PipeCap = 1
  ChanCap = 1
PROPERTIES
  CancelKillsGroup
