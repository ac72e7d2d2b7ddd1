CONSTANTS
  Modules <- MCModules
  Libraries <- MCLibraries
  Overloaded <- MCOverloaded
  Suffixes <- MCSuffixes
  AddressConvert <- MCAddressConvert
  ConvertTypes <- MCConvertTypes
  Caches = {TRUE, FALSE}
  MaxDeclarations = 2
SPECIFICATION Spec
INVARIANTS
  KernelsRestored
  SurfacesRestored
  PointersRestored
  AttributesRestored
  AdaptorsIdempotent
  TypesRestored
  NamesFound
  CacheIsLookup
  CacheCoherent
  StaleNumberHarmless
  AttributesOfTheIntrinsic
CHECK_DEADLOCK FALSE
