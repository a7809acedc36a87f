\* Three recordings and a check over two periods, where the counter store may
\* fail; and three requests for two slots, with one fault.
SPECIFICATION CountersSpec
CONSTANTS
  s1 = s1
  s2 = s2
  s3 = s3
  c1 = c1
  Budgets <- Layered
  Spenders = {s1, s2, s3}
  Checkers = {c1}
  ProjectOf <- Project
  KeyOf <- Keyed
  CostOf <- Costs
  StoreFails = {TRUE, FALSE}
  MaxPeriod = 1
  None = None
  r1 = r1
  r2 = r2
  r3 = r3
  r4 = r4
  Requests = {r1, r2, r3}
  MaxSlots = 2
  Ttl = 2
  U32 = 8
  MaxFaults = 1
  MaxDebt = 2
INVARIANTS
  FiredIffCrossed EveryMatchCharged BlockedOnceCrossed SlotsExact DeniedAtCap
