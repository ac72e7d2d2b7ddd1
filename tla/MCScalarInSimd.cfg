\* A scalar if in a simd if.
CONSTANTS
  Width = 2
  MaxSimdWidth = 32
  Channels = {1, 2, 3}
  MaxConds = 3
  MaxBlocks = 32
  SourceFunctions <- MCScalarInSimd
SPECIFICATION ExecSpec
INVARIANT PredicatedWhenDiverged
