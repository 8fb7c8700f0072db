SPECIFICATION Spec
CONSTANTS
  agents = agents
  openclaw = openclaw
  skills = skills
  shell = shell
  browser = browser
  Walk <- MCWalk
  Desktop <- MCDesktop
  ConfigFile = openclaw
  AsRoot = TRUE
  MaxStarts = 3
  MaxEdits = 2
INVARIANTS
  InstalledOnce
CHECK_DEADLOCK FALSE
