SPECIFICATION ShapeSpec
CONSTANTS
  None = None
  Whole = Whole
  m1 = m1
  m2 = m2
  n1 = n1
  n2 = n2
  p1 = p1
  Shapes = {"tree", "endpoint"}
  Leases = {l1, l2, l3}
  Bindings = {1, 2}
  Nodes = {m1, n1}
  Machines = {m1}
  Providers = {p1}
  Graphs <- AuthorityGraphs
  ClaimSets <- AuthorityClaims
  Expiries = {1}
  Deadlines = {0}
  ControlledNodes = {}
  AgreementInputs = {TRUE}
  Replaying = FALSE
  MaxQuantity = 2
  MaxRevision = 2
  MaxTime = 0
  MaxEpoch = 2
  MaxSession = 1
  MaxFence = 1
VIEW KernelView
SYMMETRY LeaseSymmetry
INVARIANTS
  CapacityRespected
  ChildrenFitParent
  ExclusiveEndpoint
  OpenHasNewestFence
PROPERTIES
  NothingRevives
CHECK_DEADLOCK FALSE
