\* Four processes, no more than there are slots.
SPECIFICATION Spec
CONSTANTS
  p1 = p1
  p2 = p2
  p3 = p3
  p4 = p4
  Proc = {p1, p2, p3, p4}
  MaxLocks = 4
INVARIANTS
  SemaphoresBalance
  WritersExclusive
