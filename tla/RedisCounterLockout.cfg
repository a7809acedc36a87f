\* The key expires under two permits; no fault.
SPECIFICATION SlotSpec
CONSTANTS
  r1 = r1
  r2 = r2
  r3 = r3
  r4 = r4
  None = None
  Requests = {r1, r2, r3, r4}
  MaxSlots = 2
  Ttl = 2
  U32 = 8
  MaxFaults = 0
  MaxDebt = 2
SYMMETRY Interchangeable
INVARIANT DeniedOnlyAtCap
