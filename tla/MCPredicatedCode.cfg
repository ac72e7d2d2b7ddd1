\* Statements of CM code in simd ifs and in subroutines with a call mask.
CONSTANTS
  Width = 2
  Channels = {1, 2, 3}
  Variables <- MCVariables
  Allocas <- MCAllocas
  MaskVariables = {51, 52, 53}
  Arguments <- MCArguments
  Scalars = {11}
  GivenPred = 6
  SourceFunctions <- MCFunctions
SPECIFICATION Spec
INVARIANTS TypeOK LanesOnTheirOwn
PROPERTY EMComesBack
