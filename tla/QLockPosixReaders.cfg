\* A reader and a writer are enough.
SPECIFICATION Spec
CONSTANTS
  p1 = p1
  p2 = p2
  Proc = {p1, p2}
  MaxLocks = 2
INVARIANT ReadersExcludeWriters
