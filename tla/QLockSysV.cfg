\* Three processes, room for two readers, so that the third has to wait.
SPECIFICATION FairSpec
CONSTANTS
  Proc = {p1, p2, p3}
  MaxLocks = 2
  p1 = p1
  p2 = p2
  p3 = p3
CHECK_DEADLOCK FALSE
INVARIANTS
  UnitsConserved
  Exclusive
PROPERTIES
  ImplementsRWLock
  ReadersServed
