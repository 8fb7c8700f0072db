SPECIFICATION FairSpec
CONSTANTS
  Caller <- MCCaller
  Boot = "boot"
  Ops <- MCOps
  MaxLaunch = 2
INVARIANTS
  SingleGateway
  StatusMatchesCmd
  WaiterIsWoken
PROPERTIES
  ImplementsLifecycle
  EveryCallReturns
CHECK_DEADLOCK FALSE
