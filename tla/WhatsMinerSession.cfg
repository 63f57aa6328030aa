\* A read and a write, of either backend, with any passwords; one lock, two
\* expiries.
SPECIFICATION Spec
CONSTANTS
  Read = {r1}
  Write = {w1}
  MaxLocks = 1
  MaxExpiries = 2
INVARIANTS
  ExecutedOnce
  RejectedWhy
PROPERTIES
  OpenedForWrites
  CallEnds
CHECK_DEADLOCK FALSE
