\* An enter event under way when its window is destroyed.
SPECIFICATION Spec
CONSTANTS
  w1 = w1
  w2 = w2
  c1 = c1
  c2 = c2
  k1 = k1
  Window = {w1, w2}
  Client = {c1, c2}
  Key = {k1}
  NoWindow = NoWindow
  NoKey = NoKey
  Owner <- OneEach
  Server <- Servers
  MaxWire = 3
CHECK_DEADLOCK FALSE
INVARIANT EntersFindWindow
