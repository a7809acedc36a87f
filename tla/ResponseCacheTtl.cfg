\* An answer is served after its ttl.
SPECIFICATION Spec
CONSTANTS
  c1 = c1
  c2 = c2
  c3 = c3
  None = None
  Nodes = {1, 2, 3, 4, 5, 6}
  Json <- Bodies
  Clients = {c1, c2}
  Requests <- OneKey
  L1_TTL = 3
  EVICT_LIMIT = 1
  I64_MAX = 5
  MaxClock = 2
  MaxRestarts = 1
INVARIANT TtlRespected
