\* Two windows of two clients under three kinds of compositor, one key.
SPECIFICATION FairSpec
CONSTANTS
  w1 = w1
  w2 = w2
  c1 = c1
  c2 = c2
  k1 = k1
  Window = {w1, w2}
  Client = {c1, c2}
  Key = {k1}
  NoWindow = NoWindow
  NoKey = NoKey
  Owner <- OneEach
  Server <- Servers
  MaxWire = 2
CHECK_DEADLOCK FALSE
INVARIANTS
  TypeOK
  NoStrayEvents
  InputStaysHome
  
PROPERTY
  RepeatStops
