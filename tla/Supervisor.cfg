SPECIFICATION FairSpec
CONSTANTS
  Loop <- MCLoop
  Main = "main"
  Clears = {"heartbeat"}
  Unasked = {"skill"}
  ErrCap = 3
  RegisterRevokes = FALSE
  MaxRevokes = 1
INVARIANTS
  NoSenderBlocks
  OnlyGuardIsCutOff
PROPERTIES
  ShutdownCompletes
  SessionRecovers
CHECK_DEADLOCK FALSE
