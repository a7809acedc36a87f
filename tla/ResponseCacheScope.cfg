\* Paths and scopes as part of the key.  Expected to be violated.
SPECIFICATION Spec
CONSTANTS
  c1 = c1
  c2 = c2
  c3 = c3
  None = None
  Nodes = {1, 2, 3, 4, 5, 6}
  Json <- Bodies
  Clients = {c1, c2}
  Requests <- AlikeRequests
  L1_TTL = 1
  EVICT_LIMIT = 1
  I64_MAX = 5
  MaxClock = 1
  MaxRestarts = 1
INVARIANT TargetSeparates
