SPECIFICATION ShapeSpec
CONSTANTS
  None = None
  Whole = Whole
  m1 = m1
  m2 = m2
  n1 = n1
  n2 = n2
  p1 = p1
  Shapes = {"gang", "moving", "timed"}
  Leases = {l1, l2}
  Bindings = {1, 2}
  Nodes = {m1, m2, n1, n2}
  Machines = {m1, m2}
  Providers = {p1}
  Graphs <- LifecycleGraphs
  ClaimSets <- LifecycleClaims
  Expiries = {1, 2}
  Deadlines = {1}
  ControlledNodes = {m1}
  AgreementInputs = {TRUE, FALSE}
  Replaying = FALSE
  MaxQuantity = 1
  MaxRevision = 2
  MaxTime = 1
  MaxEpoch = 1
  MaxSession = 2
  MaxFence = 0
VIEW KernelView
SYMMETRY LeaseSymmetry
INVARIANTS
  RetiredIsIdle
PROPERTIES
  ActivateAfterAllPrepared
  TeardownRequested
  OpenBindingKeepsMachine
  ImplementsGrants
  TimedReplayAgrees
CHECK_DEADLOCK FALSE
