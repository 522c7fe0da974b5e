SPECIFICATION Spec
CONSTANTS
  alice = alice
  bob = bob
  Graph <- TwoMachines
  SearchBudget = 4096
  Scale = 1000
  Normalized = {}
  Setups <- AllSetups
INVARIANTS
  NoOvercommit
  HopelessBlocksNobody
  PlanMakesRoom
PROPERTIES
  OrderRespected
CHECK_DEADLOCK FALSE
