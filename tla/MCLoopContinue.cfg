\* The continue of some lanes in a scalar loop.
CONSTANTS
  Width = 2
  MaxSimdWidth = 32
  Channels = {1, 2, 3}
  MaxConds = 3
  MaxBlocks = 32
  SourceFunctions <- MCLoopContinue
SPECIFICATION ExecSpec
PROPERTY ImplementsSource
