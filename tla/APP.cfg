SPECIFICATION Spec
CONSTANTS
  s1 = s1
  s2 = s2
  States = {s1, s2}
  Slots = {r1, r2}
  Roles = {"member", "chair"}
  RolesOf <- MCRolesOf
  Needs <- MCNeeds
  Timeout = 1
  Expiry = 1
  MaxClock = 2
  NoState = NoState
  SecretWritable = FALSE
  MaxStarts = 2
  MaxRecords = 2
SYMMETRY MCSymmetry
INVARIANT StatesUsedOnce LogIsInOrder ServicesFollow
CHECK_DEADLOCK FALSE
