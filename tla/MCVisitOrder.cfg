\* The pass ends when the functions visited have been lowered.
CONSTANTS
  f = f
  g = g
  h = h
  Functions <- MCFunctions
  Widths = {2, 4}
  Modules <- MCModules
SPECIFICATION FairSpec
INVARIANTS TypeOK CallersFirst VisitedOnce CallMaskAgrees
PROPERTIES MaskWidthFixed EveryFunctionLowered
CHECK_DEADLOCK FALSE
