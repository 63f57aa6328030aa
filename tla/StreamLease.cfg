\* Three overlapping __anext__ calls on a stream of two items.
SPECIFICATION LeaseSpec
CONSTANTS
  Call = {c1, c2, c3}
  Items = 2
INVARIANTS
  ItemsOwned
  StopsEarlyOnlyIfCut
PROPERTIES
  CancelReleases
  NoCallWaits
CHECK_DEADLOCK FALSE
