\* Three concurrent calls on a client of either discipline, two expiries.
SPECIFICATION Spec
CONSTANTS
  c1 = c1
  c2 = c2
  c3 = c3
  Caller <- MCCaller
  NoCaller = NoCaller
  Web <- MCWeb
  MaxExpiries = 2
INVARIANTS
  SharedLogin
  ExecutedOnce
  UnauthorizedWhy
PROPERTIES
  EveryCallEnds
CHECK_DEADLOCK FALSE
