\* The default registry: identification timeout of 4 units, window of 2.
SPECIFICATION Spec
CONSTANTS
  Firmware <- MCFirmware
  Stock <- MCStock
  Rank <- MCRank
  NoFirmware = NoFirmware
  Command <- MCCommand
  CommandsOf <- MCCommandsOf
  Reply <- MCReply
  RepliesOf <- MCRepliesOf
  NoReply = NoReply
  Unanswered = Unanswered
  Accepts <- MCAccepts
  IdTimeout = 4
  UpgradeWindow = 2
  UnboundedBuild <- MCUnboundedBuild
INVARIANTS
  NoHiddenFirmware
  WindowHonoured
PROPERTIES
  Returns
  ImplementsPromise
CHECK_DEADLOCK FALSE
