\* Three windows of a client that keeps to the rules.
SPECIFICATION Spec
CONSTANTS
  w1 = w1
  w2 = w2
  w3 = w3
  Window = {w1, w2, w3}
  NoWindow = NoWindow
  Freed = Freed
  Placement <- OverlappingPlacements
  Step <- NoStep
  Format = {"rgb"}
  ScreenWidth = 4
  QtShell = TRUE
  AlphaModifier = FALSE
SYMMETRY WindowSymmetry
CONSTRAINT PoliteWithOneSpecial
CHECK_DEADLOCK FALSE
INVARIANTS
  StackIsMap
  FreshUnlessOpacity
  OpaqueOccludesCells
  ChildrenHaveToplevel
PROPERTIES
  RestackReachesCompositor
  ZonesKept
