SPECIFICATION Spec
CONSTANTS
  r1 = r1
  r2 = r2
  r3 = r3
  NoRun = NoRun
  Runs = {r1, r2}
  MaxSessions = 2
  MaxLines = 1
  PipeCap = 1
  ChanCap = 1
CONSTRAINT FewLines
SYMMETRY Interchangeable
INVARIANTS
  TypeOK
  ReadsItsWrites
  CancelledLeavesNoTrace
  SessionsSeparate
  StateFromOneRun
