\* Every entry of the registry, a device flashed at most once meanwhile.
SPECIFICATION BuildSpec
CONSTANTS
  MaxReflashes = 1
INVARIANTS
  BackendFitsDevice
PROPERTIES
  VersionIsOptional
  BuildEnds
CHECK_DEADLOCK FALSE
