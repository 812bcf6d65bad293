CONSTANTS
  b1 = b1
  b2 = b2
  b3 = b3
  r1 = r1
  r2 = r2
  r3 = r3
  r4 = r4
  r5 = r5
  None = None
  Batch = {b1, b2, b3}
  Reader = {r1, r2, r3, r4, r5}
  Items <- McItems
  Concurrency <- McConcurrency
  Limit = 2
SPECIFICATION FairSpec
CHECK_DEADLOCK FALSE
INVARIANTS SlotsCounted CeilingUntilEarlyEnd
PROPERTIES RunsInOrder EveryCallLeaves
