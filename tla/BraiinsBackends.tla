--------------------------- MODULE BraiinsBackends ---------------------------
(***************************************************************************)
(* The five Braiins OS backends (asic-rs-firmwares/braiins/src/backends):  *)
(* 21.09, 25.03 and 25.05 talk GraphQL, 25.07 and 26.04 the web API.       *)
(***************************************************************************)
EXTENDS TelemetryTables, ControlSteps

BraiinsV2109Commands ==
  {"system", "boards", "tuning", "pools", "events", "version", "lan"}

(* Mode, targets and limit are tagged parts of one answer. *)
BraiinsV2109Locations ==
  Locate("version", {"ApiVersion"})
  \union Locate("system", {"FirmwareVersion", "Hostname", "LightFlashing", "Uptime", "Hashrate",
                           "ExpectedHashrate", "Fans", "Wattage", "IsMining"})
  \union Locate("lan", {"Mac"})
  \union Locate("boards", {"Hashboards"})
  \union Locate("pools", {"Pools"})
  \union Locate("tuning", {"TuningTarget"})
  \union Locate("events", {"Messages"})

BraiinsV2109Identity ==
  Plain("lan", {"Mac"})
  ++ Plain("system", {"Hostname", "FirmwareVersion"})
  ++ Plain("version", {"ApiVersion"})

(* childSolvers is an array. *)
BraiinsV2109Boards ==
  Rows("expected",
       Parts({"hashrate", "expected_hashrate", "board_temperature", "intake_temperature",
              "outlet_temperature", "working_chips", "voltage", "frequency"},
             <<"Hashboards", "boards">>, "position"))

(* A fan without rpm keeps its place in the array. *)
BraiinsV2109Fans ==
  [Fans |-> Rows("reported", Parts({"rpm"}, <<"Fans", "system">>, "position"))]

(* The solver is null while bosminer is stopped. *)
BraiinsV2109Readings ==
  Plain("system", {"Hashrate", "ExpectedHashrate", "Wattage", "LightFlashing", "Uptime"})
  ++ [TuningTarget |-> Given("TuningTarget", <<"tuning">>)]
  ++ [ScaledTuningTarget |-> Given("TuningTarget", <<"tuning">>)]
  ++ Lists("events", {"Messages"})
  ++ [IsMining |-> Reader(Tells(<<"IsMining", "system">>), "no")]

BraiinsV2109Pools == Lists("pools", {"Pools"})

(* A command of its own applies the pools that were stored. *)
BraiinsV2109Pooling ==
  [set_pools |-> <<Send({"pools"}, ResultFlag),
                   Send({"active_pools"}, IsOk)>>]

BraiinsV2109Control ==
  Each({"light_on", "light_off"}, {"light"}, IsOk)
  ++ Each({"set_power_limit"}, {"target"}, IsOk)
  ++ Each({"restart"}, {"boots"}, IsOk)
  ++ Each({"pause", "resume"}, {"running"}, IsOk)
  ++ Each({"factory_reset"}, {"reset"}, Must)

-----------------------------------------------------------------------------
BraiinsV2503Commands == BraiinsV2109Commands
BraiinsV2503Locations == BraiinsV2109Locations
BraiinsV2503Identity == BraiinsV2109Identity

BraiinsV2503Boards ==
  Rows("expected", BraiinsV2109Boards.parts
                     ++ Parts({"serial_number"}, <<"Hashboards", "boards">>, "position"))

BraiinsV2503Fans == BraiinsV2109Fans
BraiinsV2503Readings == BraiinsV2109Readings
BraiinsV2503Pools == BraiinsV2109Pools
BraiinsV2503Pooling == BraiinsV2109Pooling
BraiinsV2503Control == BraiinsV2109Control

BraiinsV2505Commands == BraiinsV2109Commands
BraiinsV2505Locations == BraiinsV2109Locations
BraiinsV2505Identity == BraiinsV2109Identity
BraiinsV2505Boards == BraiinsV2503Boards
BraiinsV2505Fans == BraiinsV2109Fans
BraiinsV2505Readings == BraiinsV2109Readings
BraiinsV2505Pools == BraiinsV2109Pools
BraiinsV2505Pooling == BraiinsV2109Pooling
BraiinsV2505Control == BraiinsV2109Control

-----------------------------------------------------------------------------
BraiinsV2507Commands ==
  {"network", "version", "details", "locate", "stats", "tuner_state", "configuration", "pools",
   "cooling", "hashboards", "events"}

BraiinsV2507Locations ==
  Locate("network", {"Mac", "Hostname"})
  \union Locate("version", {"ApiVersion"})
  \union Locate("details", {"FirmwareVersion", "ExpectedHashrate", "IsMining", "Uptime",
                            "ControlBoardVersion", "SerialNumber"})
  \union Locate("stats", {"Hashrate", "Wattage"})
  \union Locate("cooling", {"Fans"})
  \union Locate("hashboards", {"Hashboards"})
  \union Locate("locate", {"LightFlashing"})
  \union Locate("pools", {"Pools"})
  \union Locate("configuration", {"TuningTarget"})
  \union Locate("tuner_state", {"TuningTarget"})
  \union Locate("events", {"Messages"})

BraiinsV2507Identity ==
  Plain("network", {"Mac", "Hostname"})
  ++ Plain("version", {"ApiVersion"})
  ++ Plain("details", {"FirmwareVersion"})

(* The entry whose id is the position and one. *)
BraiinsV2507Boards ==
  Rows("expected",
       Parts({"hashrate", "expected_hashrate", "board_temperature", "intake_temperature",
              "outlet_temperature", "working_chips", "serial_number", "voltage", "frequency"},
             <<"Hashboards", "hashboards">>, "id"))

BraiinsV2507Fans ==
  [Fans |-> Rows("reported", Parts({"rpm"}, <<"Fans", "cooling">>, "id"))]

BraiinsV2507Readings ==
  Plain("stats", {"Hashrate"})
  ++ Plain("details", {"ExpectedHashrate", "Uptime"})
  ++ Plain("locate", {"LightFlashing"})
  ++ [IsMining |-> Reader(Tells(<<"IsMining", "details">>), "no")]

(* The pools of the first group only. *)
BraiinsV2507Pools ==
  [Pools |-> Reader(<<Says({<<"Pools", "pools">>}, "given")>>, "group_without_pools")]

BraiinsV2507Details ==
  Plain("details", {"SerialNumber", "ControlBoardVersion"})
  ++ Plain("stats", {"Wattage"})
  ++ [TuningTarget |-> Given("TuningTarget", <<"configuration">>)]
  ++ [ScaledTuningTarget |-> Given("TuningTarget", <<"tuner_state">>)]
  ++ Lists("events", {"Messages"})

BraiinsV2507Control ==
  Each({"light_on", "light_off"}, {"light"}, IsOk)
  ++ Each({"set_power_limit"}, {"target"}, IsOk)
  ++ Each({"set_pools"}, {"pools"}, IsOk)
  ++ Each({"restart"}, {"boots"}, IsOk)
  ++ Each({"pause", "resume"}, {"running"}, IsOk)

-----------------------------------------------------------------------------
BraiinsV2604Commands == BraiinsV2507Commands
BraiinsV2604Locations == BraiinsV2507Locations
BraiinsV2604Identity == BraiinsV2507Identity
BraiinsV2604Boards == BraiinsV2507Boards
BraiinsV2604Fans == BraiinsV2507Fans
BraiinsV2604Readings == BraiinsV2507Readings
BraiinsV2604Pools == BraiinsV2507Pools
BraiinsV2604Details == BraiinsV2507Details

BraiinsV2604Control == BraiinsV2507Control ++ Each({"factory_reset"}, {"reset"}, IsOk)
=============================================================================
