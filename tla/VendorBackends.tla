--------------------------- MODULE VendorBackends ---------------------------
(***************************************************************************)
(* Auradine, Proto and SealMiner: one backend each (asic-rs-firmwares/     *)
(* {auradine,proto,sealminer}/src/backends).                               *)
(***************************************************************************)
EXTENDS TelemetryTables, ControlSteps

AuradineCommands ==
  {"version", "summary", "devs", "devdetails", "asccount", "pools", "ipreport", "fan", "led",
   "mode", "psu", "temperature", "voltage", "frequency"}

AuradineBoardCommands ==
  {"devs", "asccount", "ipreport", "temperature", "voltage", "frequency"}

AuradineLocations ==
  Locate("ipreport", {"Mac", "SerialNumber", "Hostname", "FirmwareVersion",
                      "ControlBoardVersion"})
  \union Locate("version", {"ApiVersion", "FirmwareVersion"})
  \union Locate("devdetails", {"ControlBoardVersion"})
  \union {<<"Hashboards", c>> : c \in AuradineBoardCommands}
  \union {<<"Chips", c>> : c \in {"temperature", "voltage", "frequency"}}
  \union Locate("summary", {"Hashrate", "ExpectedHashrate", "Wattage", "TuningTarget", "Uptime",
                            "IsMining"})
  \union Locate("mode", {"ExpectedHashrate", "TuningTarget", "IsMining"})
  \union Locate("fan", {"Fans"})
  \union Locate("psu", {"PsuFans", "Wattage"})
  \union Locate("led", {"LightFlashing", "Messages"})
  \union Locate("pools", {"Pools"})

AuradineConfigLocations == Locate("pools", {"PoolsConfig"})

(* The last answer wins where two commands answer. *)
AuradineIdentity ==
  Plain("ipreport", {"Mac", "SerialNumber", "Hostname"})
  ++ Plain("version", {"ApiVersion"})
  ++ [FirmwareVersion |-> Given("FirmwareVersion", <<"ipreport", "version">>)]
  ++ [ControlBoardVersion |-> Given("ControlBoardVersion", <<"ipreport", "devdetails">>)]

(* As many boards as are counted or seen under any id; serial numbers are  *)
(* an array.                                                               *)
AuradineBoards ==
  LET Of(command) == <<"Hashboards", command>>
  IN  Rows("seen",
           Parts({"hashrate"}, Of("devs"), "id")
           ++ PartsOf({"board_temperature", "intake_temperature", "outlet_temperature", "active"},
                      {{Of("devs")}, {Of("temperature")}}, "id")
           ++ Parts({"serial_number"}, Of("ipreport"), "position")
           ++ Parts({"voltage"}, Of("voltage"), "id")
           ++ Parts({"frequency"}, Of("frequency"), "id"))

(* A chip is known if any of the three commands names it; without chips in *)
(* the data, a board that is on has all of them.                           *)
AuradineChips ==
  LET Of(command) == <<"Chips", command>>
      Boards == {<<"Hashboards", c>> : c \in AuradineBoardCommands}
      Also(chips) == {{b, c} : b \in Boards, c \in chips}
  IN  PartsOf({"chip_temperature"}, Also({Of("temperature")}), "id")
      ++ PartsOf({"chip_voltage"}, Also({Of("voltage")}), "id")
      ++ PartsOf({"chip_frequency"}, Also({Of("frequency")}), "id")
      ++ PartsOf({"working_chips"},
                 Also({Of("temperature"), Of("voltage"), Of("frequency")})
                   \union {{<<"Hashboards", "devs">>}}, "id")

AuradineHashrates ==
  Plain("summary", {"Hashrate"})
  ++ [ExpectedHashrate |-> Given("ExpectedHashrate", <<"mode", "summary">>)]

AuradineFans ==
  [Fans |-> Rows("reported", Parts({"rpm"}, <<"Fans", "fan">>, "id")),
   PsuFans |-> Rows("reported", Parts({"rpm"}, <<"PsuFans", "psu">>, "number"))]

(* The mode says power, hashrate or name of the mode; a summary says how   *)
(* far a hashrate target is throttled.                                     *)
AuradineReadings ==
  [Wattage |-> Given("Wattage", <<"psu", "summary">>)]
  ++ [TuningTarget |-> Reader(ModeOrPower(<<"TuningTarget", "mode">>)
                                \o <<Says({<<"TuningTarget", "summary">>}, "hashrate")>>, "none")]
  ++ Plain("led", {"LightFlashing"})
  ++ Lists("led", {"Messages"})
  ++ Plain("summary", {"Uptime"})

(* Not asleep, else a hashrate, else the hashrate of another field. *)
AuradineStatus ==
  [IsMining |-> Reader(Tells(<<"IsMining", "mode">>) \o Tells(<<"IsMining", "summary">>)
                         \o Tells(<<"Hashrate", "summary">>), "no")]

AuradinePools == Lists("pools", {"Pools"})

AuradinePoolsConfig ==
  [PoolsConfig |-> Reader(<<Says({<<"PoolsConfig", "pools">>}, "given")>>, "empty")]

AuradineControl ==
  Each({"light_on", "light_off"}, {"light"}, Must)
  ++ Each({"set_power_limit"}, {"target"}, Must)
  ++ Each({"set_pools"}, {"pools"}, Must)
  ++ Each({"restart"}, {"boots"}, Must)
  ++ Each({"pause", "resume"}, {"running"}, Must)

-----------------------------------------------------------------------------
ProtoCommands ==
  {"system", "network", "mining", "hardware", "pools", "cooling", "errors", "telemetry",
   "mining_target"}

ProtoLocations ==
  Locate("network", {"Mac", "Hostname"})
  \union Locate("hardware", {"SerialNumber", "Hashboards"})
  \union Locate("system", {"ApiVersion", "FirmwareVersion", "ControlBoardVersion"})
  \union Locate("mining", {"Hashboards", "ExpectedHashrate", "TuningTarget", "Uptime", "IsMining"})
  \union Locate("telemetry", {"Hashboards", "Hashrate", "Wattage"})
  \union Locate("cooling", {"Fans"})
  \union Locate("errors", {"Messages"})
  \union Locate("pools", {"Pools"})

ProtoConfigLocations ==
  Locate("pools", {"PoolsConfig"})
  \union Locate("cooling", {"FanConfig"})
  \union Locate("mining_target", {"TuningConfig"})

ProtoIdentity ==
  Plain("network", {"Mac", "Hostname"})
  ++ Plain("hardware", {"SerialNumber"})
  ++ Plain("system", {"ApiVersion", "FirmwareVersion", "ControlBoardVersion"})

(* Only the slots that the hardware reports; the telemetry of a board has  *)
(* its serial number, else its index.                                      *)
ProtoBoards ==
  LET Hardware == <<"Hashboards", "hardware">>
      Telemetry == <<"Hashboards", "telemetry">>
  IN  Rows("reported",
           Parts({"working_chips", "serial_number"}, Hardware, "id")
           ++ PartsOf({"hashrate", "board_temperature", "intake_temperature",
                       "outlet_temperature", "voltage"}, {{Hardware, Telemetry}}, "serial")
           ++ PartsOf({"expected_hashrate"}, {{Hardware, Telemetry, <<"Hashboards", "mining">>}},
                      "serial"))

ProtoHashrates == Plain("telemetry", {"Hashrate"}) ++ Plain("mining", {"ExpectedHashrate"})

ProtoFans == [Fans |-> Rows("reported", Parts({"rpm"}, <<"Fans", "cooling">>, "id"))]

ProtoReadings ==
  Plain("telemetry", {"Wattage"})
  ++ [TuningTarget |-> Reader(<<Says({<<"TuningTarget", "mining">>}, "power")>>, "none")]
  ++ Plain("mining", {"Uptime"})
  ++ Lists("errors", {"Messages"})
  ++ [IsMining |-> Reader(Tells(<<"IsMining", "mining">>), "no")]
  ++ [LightFlashing |-> Never("none")]

ProtoPools == Lists("pools", {"Pools"})

ProtoSettings ==
  [PoolsConfig |-> Reader(<<Says({<<"PoolsConfig", "pools">>}, "given")>>, "empty"),
   TuningConfig |-> Reader(<<Says({<<"TuningConfig", "mining_target">>}, "power")>>, "error"),
   FanConfig |-> Reader(<<Says({<<"FanConfig", "cooling">>}, "given")>>, "error")]

(* The locate light goes off by itself: to switch it off nothing is sent. *)
ProtoControl ==
  Each({"light_on"}, {"light"}, Must)
  ++ [light_off |-> << >>]
  ++ Each({"set_power_limit", "tune_power"}, {"target"}, Must)
  ++ Each({"restart"}, {"boots"}, Must)
  ++ Each({"pause", "resume"}, {"running"}, Must)

ProtoConfiguration ==
  Each({"set_pools"}, {"pools"}, Must) ++ Each({"set_fan"}, {"fan"}, Must)

-----------------------------------------------------------------------------
SealMinerCommands ==
  {"stats", "summary", "pools", "version", "get_system_info", "psu_status"}

SealMinerLocations ==
  Locate("stats", {"Mac", "SerialNumber", "FirmwareVersion", "ControlBoardVersion", "Hashboards",
                   "ExpectedHashrate", "Fans", "PsuFans", "AverageTemperature", "Wattage",
                   "TuningTarget", "Uptime", "Messages"})
  \union Locate("get_system_info", {"Mac", "FirmwareVersion", "ControlBoardVersion",
                                    "LightFlashing"})
  \union Locate("version", {"ApiVersion"})
  \union Locate("summary", {"Hashrate"})
  \union Locate("psu_status", {"Wattage"})
  \union Locate("pools", {"Pools"})

SealMinerConfigLocations ==
  Locate("stats", {"TuningConfig"}) \union Locate("pools", {"PoolsConfig"})

SealMinerIdentity ==
  Plain("stats", {"SerialNumber"})
  ++ Plain("version", {"ApiVersion"})
  ++ [f \in {"Mac", "FirmwareVersion", "ControlBoardVersion"} |->
        Given(f, <<"get_system_info", "stats">>)]

(* The serial numbers are taken in the order they come. *)
SealMinerSerialsInOrder ==
  Rows("reported",
       Parts({"active", "hashrate", "expected_hashrate", "board_temperature", "intake_temperature",
              "outlet_temperature", "working_chips", "frequency", "tuned"},
             <<"Hashboards", "stats">>, "number")
       ++ Parts({"serial_number"}, <<"Hashboards", "stats">>, "position"))

(* "0 MHS(Sample)", "0 SN", ...: as many as "Board Count" says. *)
SealMinerBoards ==
  Rows("reported",
       Parts({"active", "hashrate", "expected_hashrate", "board_temperature", "intake_temperature",
              "outlet_temperature", "working_chips", "serial_number", "frequency", "tuned"},
             <<"Hashboards", "stats">>, "number"))

SealMinerHashrates == Plain("summary", {"Hashrate"}) ++ Plain("stats", {"ExpectedHashrate"})

SealMinerFans ==
  [Fans |-> Rows("reported", Parts({"rpm"}, <<"Fans", "stats">>, "number")),
   PsuFans |-> Rows("reported", Parts({"rpm"}, <<"PsuFans", "stats">>, "number"))]

(* It mines if it has a hashrate. *)
SealMinerReadings ==
  [Wattage |-> Given("Wattage", <<"psu_status", "stats">>)]
  ++ [TuningTarget |-> Reader(<<Says({<<"TuningTarget", "stats">>}, "power")>>, "none")]
  ++ Plain("get_system_info", {"LightFlashing"})
  ++ Lists("stats", {"Messages"})
  ++ Plain("stats", {"Uptime"})
  ++ [IsMining |-> Reader(Tells(<<"Hashrate", "summary">>), "no")]

SealMinerPools == Lists("pools", {"Pools"})

SealMinerTuningConfig ==
  [TuningConfig |-> Reader(<<Says({<<"TuningConfig", "stats">>}, "power")>>, "error")]

SealMinerReboot == Send({"boots"}, Ignored)

(* A restart of the mining process also ends a suspension. *)
SealMinerControl ==
  Each({"light_on", "light_off"}, {"light"}, IsOk)
  ++ [o \in {"set_power_limit", "tune_power"} |-> <<Send({"target"}, IsOk), SealMinerReboot>>]
  ++ Each({"restart"}, {"boots"}, IsOk)
  ++ Each({"pause"}, {"running"}, IsOk)
  ++ [resume |-> <<Read({"running"}, Ignored), DoneIf("running"), Send({"running"}, IsOk)>>]

(* Only the first group. *)
SealMinerSetPools == [set_pools |-> <<Send({"pools"}, IsOk), SealMinerReboot>>]
=============================================================================
