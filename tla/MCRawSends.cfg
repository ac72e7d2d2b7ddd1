\* The declarations predicateSend asks for.
CONSTANTS
  Tables <- SendsTable
  LLVMVersions = {16}
SPECIFICATION Spec
INVARIANT SendsDeclaredAsDocumented
CHECK_DEADLOCK FALSE
