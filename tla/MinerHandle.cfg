\* Two readers that keep coming, two password changes, and getters, with a
\* backend of either kind.
SPECIFICATION Spec
CONSTANTS
  Reader = {r1, r2}
  Writer = {w1, w2}
  Getter = g
  First = p0
INVARIANTS
  KnowsThePassword
PROPERTIES
  SuccessIsReal
  AuthStableForReaders
  EveryCallEnds
CHECK_DEADLOCK FALSE
