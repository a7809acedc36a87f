\* Two requests of one project, two configurations, one minute rollover; and three
\* records and two flushes, where ids repeat and inserts may fail.
SPECIFICATION BothSpec
CONSTANTS
  r1 = r1
  r2 = r2
  r3 = r3
  k1 = k1
  k2 = k2
  p1 = p1
  None = None
  WordSize = 4096
  DEFAULT_TOKEN_PREDEDUCT = 2
  InitialVersion = 1
  KeyOf <- TwoKeys
  ProjectOf <- OneProject
  Requests = {r1, r2}
  Versions = {1, 2}
  Limits <- TwoVersions
  TokenUsages = {0, 3}
  MaxWindow = 1
  a = a
  b = b
  c = c
  Records = {a, b, c}
  IdOf <- Repeated
  Flushers = {f1, f2}
  CHANNEL_CAPACITY = 2
  BATCH_MAX_ROWS = 2
  InsertFails = {TRUE, FALSE}
INVARIANTS
  TypeOK SlotsMatchPermits ConcurrencyRespected RpmRespected TpmLedgerBalances
  NothingElseLost FlushDurable
PROPERTIES ImplementsSemaphore PermitsReturned Settled
