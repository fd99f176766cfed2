SPECIFICATION StreamSpec
CONSTANTS
  r1 = r1
  NoRun = NoRun
  Runs = {r1}
  MaxSessions = 1
  MaxLines = 1
  PipeCap = 1
  ChanCap = 1
  WireCap = 1
INVARIANTS
  NoSendAfterClose
  
  StreamTypeOK
  
  StreamEndsWithDone
PROPERTIES
  AnswersOnceQuiet
  StreamCloses
  AbandonedRunEnds
