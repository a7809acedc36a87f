\* A refund in a new window locks the bucket.
SPECIFICATION Spec
CONSTANTS
  r1 = r1
  r2 = r2
  r3 = r3
  k1 = k1
  k2 = k2
  p1 = p1
  None = None
  WordSize = 4096
  DEFAULT_TOKEN_PREDEDUCT = 2
  InitialVersion = 1
  KeyOf <- ThreeOfOneKey
  ProjectOf <- ThreeOfOneProject
  Requests = {r1, r2, r3}
  Versions = {1}
  Limits <- TokenCap
  TokenUsages = {0, 3}
  MaxWindow = 1
INVARIANT BucketNotLocked
