\* Collections one after the other while the device goes through three states.
SPECIFICATION Spec
CONSTANTS
  Command <- MCCommand
  Field <- MCField
  Locations <- MCLocations
  Finds <- MCFinds
  Key <- MCKey
  Atom <- MCAtom
  MaxDepth = 2
  Values <- MCValues
  Paths <- MCPaths
  Missing = Missing
  Failed = Failed
  NoValue = NoValue
  LastState = 2
INVARIANTS
  AnsweredIsFresh
  MergeIsOverlay
PROPERTIES
  CacheNeverGoesBack
CHECK_DEADLOCK FALSE
