\* Every backend, one thing that goes wrong, at most two calls and one read.
SPECIFICATION Spec
CONSTANTS
  Table <- Backends
  Callers <- TwoCallers
  Halves <- TwoHalves
  Quotas <- MCQuotas
  U32 = 256
  MaxTroubles = 1
INVARIANTS
  AnswersAreReal
  PoolsAreWhole
  TargetReadsBack
  PauseResumeKeepsTuning
  ReadingIsOfOneMoment
  FieldsStandAlone
  LossOnlyRemoves
  RowsAreBoards
  EpicRatiosAreShares
PROPERTIES
  NothingElseIsWritten
CHECK_DEADLOCK FALSE
