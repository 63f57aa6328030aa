\* get_is_mining on the axes.
SPECIFICATION Spec
CONSTANTS
  Table <- Axe
  Callers <- TwoCallers
  Halves <- TwoHalves
  Quotas <- MCQuotas
  U32 = 256
  MaxTroubles = 0
INVARIANTS
  IsMiningAlone
CHECK_DEADLOCK FALSE
