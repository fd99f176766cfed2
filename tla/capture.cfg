SPECIFICATION RunSpec
CONSTANTS
  NoFile = NoFile
  Caps <- SmallCaps
  Lengths = {0, 1, 3}
  MaxLines = 3
  Names <- MCNames
  Chars <- MCChars
  Values <- MCValues
  NeverPersist <- MCNeverPersist
  Inherited <- MCInherited
  Envs <- MCEnvs
  Dirs = {d1, d2}
  BadName = BadName
  NoDir = NoDir
CONSTRAINT OneAtATime
CHECK_DEADLOCK FALSE
INVARIANTS
  TypeOK
  Bounded
  NothingLost
  FitsLeavesNoFile
  StdoutTypeOK
  
  NoDumpInOutput
  
  
