CONSTANTS
  Tables <- AllTables
  LLVMVersions = {16, 23}
SPECIFICATION Spec
INVARIANTS
  TypeOK
  EntriesIntact
  SignatureRoundTrip
  OverloadTablesAgree
  AttributesOwn
  VoidCallsSurvive
  SupportedAsDeclared
  OverloadListsMatch
  OperandNumbersAgree
CHECK_DEADLOCK FALSE
