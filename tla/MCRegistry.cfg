SPECIFICATION RegistrySpec
CONSTANTS
  None = None
  a = a
  b = b
  d = d
  hostWriter = hostWriter
  deviceWriter = deviceWriter
  enforce = enforce
  degraded = degraded
  Ids = {a, b, d}
  Writers = {hostWriter, deviceWriter}
  Contracts = {enforce}
  Healths = {degraded}
  Values <- AllValues
  Claimable <- Capacities
  Updates <- Unowned
  Batches <- Fragments
  Changes <- ContractChanges
  Assignments <- Adoptions
  MaxBatches = 2
  MaxRevision = 3
  g = g
  h = h
  numa = numa
  numb = numb
  hostA = hostA
  hostB = hostB
  Unset = Unset
  Leases = {1, 2}
  Hosts = {hostA, hostB}
  DeviceIds = {g, h}
  Kinds = {"gpu", "nic"}
  Paths = {1, 2}
  Sites = {numa, numb}
  Reports <- Inventories
  Legacy <- Snapshots
  Own = Own
  Other = Other
  MaxNodes = 3
INVARIANTS
  Grounded
  VanishedIsUnheld
PROPERTIES
  OwnershipKept
  DevicesAreKept
CHECK_DEADLOCK FALSE
