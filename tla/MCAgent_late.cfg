SPECIFICATION AgentSpec
CONSTANTS
  None = None
  e1 = e1
  e2 = e2
  Parts = {"link"}
  Machines = {m1}
  Machine = m1
  Bindings = {1, 2, 3, 4}
  Endpoints = {e1, e2}
  Generations <- Issued
  MaxSession = 2
  MaxEpoch = 2
  MaxDialIns = 1
  MaxCalls = 2
  MaxTimeouts = 1
INVARIANT
  HeldIsGranted
VIEW AgentView
