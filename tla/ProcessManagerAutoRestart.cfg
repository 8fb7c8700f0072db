SPECIFICATION FairSpec
CONSTANTS
  Caller <- MCCaller
  Boot = "boot"
  Ops <- MCOps
  MaxLaunch = 2
PROPERTIES
  CrashedIsRestarted
CHECK_DEADLOCK FALSE
