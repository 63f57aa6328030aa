\* The identification timeout does not bound the whole of get_miner.
SPECIFICATION Spec
CONSTANTS
  Firmware <- MCFirmware
  Stock <- MCStock
  Rank <- MCRank
  NoFirmware = NoFirmware
  Command <- MCCommand
  CommandsOf <- MCCommandsOf
  Reply <- MCReply
  RepliesOf <- MCRepliesOf
  NoReply = NoReply
  Unanswered = Unanswered
  Accepts <- MCAccepts
  IdTimeout = 4
  UpgradeWindow = 2
  UnboundedBuild <- MCUnboundedBuild
PROPERTIES
  AlwaysReturns
CHECK_DEADLOCK FALSE
