SPECIFICATION ClaimsSpec
CONSTANTS
  Graph <- TwoMachines
  SearchBudget = 4096
  Requests <- Covered
  Blockable = {2, 11}
  None = None
  Number = {1, 2}
  Numbers <- NodeNumbers
  PseudoPaths <- Pseudo
  MemberClaims <- Claimed
  big = big
  flat = flat
  nulldev = nulldev
  fulldev = fulldev
  gpu0 = gpu0
  gpu1 = gpu1
  ctl = ctl
  gone = gone
INVARIANTS
  SelectionIsExact
  MembersKeepToClaims
  FilterDecides
CHECK_DEADLOCK FALSE
