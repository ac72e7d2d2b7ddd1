\* Nested simd branches of two widths.
CONSTANTS
  MaxSimdWidth = 32
  SourceFunctions <- MCNested
SPECIFICATION Spec
INVARIANT OneWidthPerResumeMask
CHECK_DEADLOCK FALSE
