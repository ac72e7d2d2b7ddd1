CONSTANTS
  MaxSimdWidth = 32
  SourceFunctions <- MCLoopInIf
SPECIFICATION Spec
INVARIANTS JIPFound
CHECK_DEADLOCK FALSE
