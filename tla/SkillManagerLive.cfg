SPECIFICATION FairSpec
CONSTANTS
  s1 = s1
  m1 = m1
  m2 = m2
  v1 = v1
  v2 = v2
  Skill <- MCOne
  Content <- MCContent
  Version <- MCVersion
  Absent = Absent
  Partial = Partial
  Unreadable = Unreadable
  None = None
  MaxOps = 1
  MaxEdits = 1
  MaxFaults = 1
PROPERTIES
  Converges
CHECK_DEADLOCK FALSE
