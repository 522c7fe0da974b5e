SPECIFICATION Spec
CONSTANTS
  None = None
  m1 = m1
  m2 = m2
  l1 = l1
  l2 = l2
  Leases = {l1, l2}
  Machines = {m1, m2}
  Setups <- AllSetups
  MaxCalls = 1
INVARIANTS
  TeardownFollowsStop
  RecoveredHoldsNoStray
  StartedOnce
  RunsBehindBarrier
CHECK_DEADLOCK FALSE
