SPECIFICATION Spec
CONSTANTS
  NoFile = NoFile
  Caps <- SmallCaps
  Lengths = {0, 1, 3}
  MaxLines = 4
CHECK_DEADLOCK FALSE
INVARIANTS
  DegradesToUncapped
