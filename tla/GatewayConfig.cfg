SPECIFICATION JointSpec
CONSTANTS
  Model <- MCModel
  Rest = {"rest"}
  Rev = {"r1", "r2"}
  Content <- MCContent
  Normal <- MCNormal
  InitialRev = "none"
  NoRev = "none"
  NoModel = "unset"
  Torn = Torn
  Unread = Unread
  MaxEdits = 1
  MaxCrashes = 1
  MaxLaunch = 3
INVARIANTS
  ReloadServes
  RestoredIsServed
  TornLoadIsReplaced
CHECK_DEADLOCK FALSE
