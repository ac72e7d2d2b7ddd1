\* Structured code and small graphs: the lowered function implements the source
\* and returns; structured simd code is predicated.
CONSTANTS
  Width = 2
  MaxSimdWidth = 32
  Channels = {1, 2, 3}
  MaxConds = 3
  MaxBlocks = 32
  SourceFunctions <- MCSources
SPECIFICATION ExecFairSpec
INVARIANTS PredicatedInSimdCode LanesInStructuredCode
PROPERTIES ImplementsSource Returns
