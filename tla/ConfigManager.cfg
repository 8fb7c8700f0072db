SPECIFICATION FairSpec
CONSTANTS
  Model <- MCModel
  Rest <- MCRest
  Rev = {"r1", "r2"}
  Content <- MCContent
  Normal <- MCNormal
  InitialRev = "none"
  NoRev = "none"
  NoModel = "unset"
  Torn = Torn
  MaxEdits = 2
  MaxCrashes = 2
INVARIANTS
  TypeOK
  BaselineFollowsRevision
  GuardKeepsRevision
  InjectionSurvives
  RecordedWasActivated
  AckedSurvives
PROPERTIES
  GuardRestores
CHECK_DEADLOCK FALSE
