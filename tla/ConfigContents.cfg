SPECIFICATION Spec
CONSTANTS
  Seed <- MCSeed
  Environment <- MCEnvironment
  Rev = {"r1"}
  Revision <- MCRevision
  EditTree <- MCEditTree
  EditPath <- MCEditPath
  Channel = {"slack", "feishu"}
  Bundled = {"feishu"}
  Prefix <- MCPrefix
  UserDir <- MCUserDir
  MaxEdits = 2
  MaxStarts = 3
INVARIANTS
  TypeOK
  NormalSettles
  EnvironmentInjected
  ChannelSurvives
PROPERTIES
  GuardIsExact
  BaselineSurvivesRestart
  StartIsExact
CHECK_DEADLOCK FALSE
