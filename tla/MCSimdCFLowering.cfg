\* The pass alone; it stops when the function is lowered or found in error.
CONSTANTS
  MaxSimdWidth = 32
  SourceFunctions <- MCGraphs
SPECIFICATION Spec
INVARIANTS TypeOK ForwardToJoins JumpsToLiveJoins WidthsMatch
CHECK_DEADLOCK FALSE
