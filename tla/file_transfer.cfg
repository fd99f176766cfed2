SPECIFICATION Spec
CONSTANTS
  Walk <- MCWalk
  Contents <- MCContents
  Sources <- MCSources
  Priors <- MCPriors
INVARIANTS
  TypeOK
  RoundTrip
  SuccessIsWhole
  OthersUntouched
  NoHalfFile
CHECK_DEADLOCK FALSE
