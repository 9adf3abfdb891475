\* Two windows whose regions overlap.
SPECIFICATION Spec
CONSTANTS
  w1 = w1
  w2 = w2
  Window = {w1, w2}
  NoWindow = NoWindow
  Freed = Freed
  Placement <- OverlappingPlacements
  Step <- NoStep
  Format = {"rgb"}
  ScreenWidth = 4
  QtShell = TRUE
  AlphaModifier = FALSE
CHECK_DEADLOCK FALSE
INVARIANT OpaqueOccludesColumns
