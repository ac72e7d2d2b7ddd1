CONSTANTS
  Channels = {c1, c2, c3}
  Narrow = {c1, c2}
  NoBlock = NoBlock
  Blocks <- MCBlocks
  Programs <- MCPrograms
SPECIFICATION Spec
INVARIANTS TypeOK MaskPartition
PROPERTY ImplementsArch
CHECK_DEADLOCK FALSE
