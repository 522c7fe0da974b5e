SPECIFICATION FairSpec
CONSTANTS
  alice = alice
  bob = bob
  Graph <- TwoMachines
  SearchBudget = 4096
  Scale = 1000
  Normalized = {}
  Setups <- SingleMachine
PROPERTIES
  FrontIsServed
CHECK_DEADLOCK FALSE
