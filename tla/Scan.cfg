\* Four addresses, up to two at a time, one of them hung, and a caller that may stall.
SPECIFICATION Spec
CONSTANTS
  N = 4
  Kinds = {"scan", "stream", "stream_with_ip"}
  Limits = {0, 1, 2}
  Retries = 3
  CheckPort = TRUE
  Ports = 2
  Supported = {1, 2, 4}
  Hung = {2}
INVARIANTS
  ItemsOnce
  FoundUnlessStalled
PROPERTIES
  HungHoldOnlyTheirSlots
CHECK_DEADLOCK FALSE
