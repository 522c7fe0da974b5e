SPECIFICATION FairSpec
CONSTANTS
  None = None
  m1 = m1
  m2 = m2
  g1 = g1
  Machines = {m1, m2}
  Groups = {g1}
  Room = 1
  BackoffCap = 60
  Scenes <- AllScenes
INVARIANTS
  GroupWithinDesired
  LineageBounded
PROPERTIES
  UpkeepRestores
CHECK_DEADLOCK FALSE
