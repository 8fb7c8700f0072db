SPECIFICATION FairSpec
CONSTANTS
  c1 = c1
  c2 = c2
  Command <- MCTwo
  CommandType <- MCApplyAndSkill
  NoCommand = NoCommand
  MaxCrashes = 1
INVARIANTS
  SucceededTookEffect
  RecordedFirst
  RepeatedOnlyIfBroken
PROPERTIES
  EveryCommandFinishes
  ImplementsDelivery
CHECK_DEADLOCK FALSE
