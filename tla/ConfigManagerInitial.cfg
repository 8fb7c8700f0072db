SPECIFICATION Spec
CONSTANTS
  Model <- MCModel
  Rest <- MCRest
  Rev = {"r1", "r2"}
  Content <- MCContent
  Normal <- MCNormal
  InitialRev = "r1"
  NoRev = "none"
  NoModel = "unset"
  Torn = Torn
  MaxEdits = 0
  MaxCrashes = 0
INVARIANTS
  RecordedWasActivated
CHECK_DEADLOCK FALSE
