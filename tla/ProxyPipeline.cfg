\* Two requests of every kind against every upstream body.
SPECIFICATION FairSpec
CONSTANTS
  None = None
  NonInt = NonInt
  Requests = {r1, r2}
  Inputs <- AllKinds
  Keys = {"k"}
  Responses <- Bodies
  MaxInFlight = 1
  BudgetAmount = 1
  MAX_LOG_BODY_BYTES = 1
  MAX_CACHEABLE_BODY_BYTES = 2
  PROXY_BODY_CHANNEL = 1
INVARIANTS
  UpstreamBounded CacheComplete LoggedOnce ChargedOnce UsageReported
  NotOverstated OneId
PROPERTY SlotsFreed
