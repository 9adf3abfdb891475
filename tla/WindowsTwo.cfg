\* Two windows, every command, whatever the client does.
SPECIFICATION Spec
CONSTANTS
  w1 = w1
  w2 = w2
  Window = {w1, w2}
  NoWindow = NoWindow
  Freed = Freed
  Placement <- TwoPlacements
  Step <- StepOne
  Format = {"rgb", "premultiplied"}
  ScreenWidth = 4
  QtShell = TRUE
  AlphaModifier = TRUE
SYMMETRY WindowSymmetry
CHECK_DEADLOCK FALSE
INVARIANTS
  TypeOK
  ToldIsVisible
  HiddenStaysHidden
  
