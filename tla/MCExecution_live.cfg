SPECIFICATION FairSpec
CONSTANTS
  None = None
  m1 = m1
  m2 = m2
  l1 = l1
  l2 = l2
  Leases = {l1}
  Machines = {m1}
  Setups <- RecoverySetups
  MaxCalls = 1
PROPERTIES
  RecoveryCompletes
  TeardownCloses
CHECK_DEADLOCK FALSE
