------------------------- MODULE ThirdPartyBackends -------------------------
(***************************************************************************)
(* The firmwares of third parties for AntMiner hardware: LuxMiner, VNish,  *)
(* ePIC and Marathon (asic-rs-firmwares/{luxminer,vnish,epic,marathon}/    *)
(* src/backends).                                                          *)
(***************************************************************************)
EXTENDS TelemetryTables, ControlSteps

(* LuxMiner asks for each board's voltage and chips by a command of its own*)
(* ("voltageget 0", "voltageget 1", ...), taken together here.             *)
LuxMinerCommands ==
  {"config", "version", "stats", "temps", "voltageget", "devs", "healthchipget", "summary",
   "pools", "power", "profiles", "events", "fans", "groups"}

LuxMinerBoardLocations ==
  Locate("stats", {"Hashboards"})
  \union Locate("temps", {"Hashboards"})
  \union Locate("voltageget", {"Hashboards"})
  \union Locate("devs", {"Hashboards"})
  \union Locate("healthchipget", {"Chips"})

LuxMinerLocations ==
  LuxMinerBoardLocations
  \union Locate("config", {"Mac", "Hostname", "LightFlashing", "SerialNumber",
                           "ControlBoardVersion", "TuningTarget"})
  \union Locate("fans", {"Fans"})
  \union Locate("version", {"ApiVersion", "FirmwareVersion"})
  \union Locate("summary", {"IsMining"})
  \union Locate("stats", {"Uptime", "Hashrate"})
  \union Locate("pools", {"Pools"})
  \union Locate("power", {"Wattage"})
  \union Locate("profiles", {"TuningTarget"})
  \union Locate("events", {"Messages"})
  \union Locate("devs", {"ExpectedHashrate"})
  \union Locate("temps", {"FluidTemperature"})

LuxMinerConfigLocations ==
  Locate("groups", {"PoolsConfig"}) \union Locate("pools", {"PoolsConfig"})

LuxMinerIdentity ==
  Plain("config", {"Mac", "Hostname"}) ++ Plain("version", {"ApiVersion", "FirmwareVersion"})

(* A voltage of zero is replaced by that of the power supply, which is the *)
(* same kind of answer.                                                    *)
LuxMinerBoards ==
  Rows("expected",
       Parts({"expected_hashrate", "serial_number"}, <<"Hashboards", "devs">>, "position")
       ++ Parts({"hashrate", "board_temperature", "working_chips", "frequency"},
                <<"Hashboards", "stats">>, "number")
       ++ PartsOf({"intake_temperature"},
                  {{<<"Hashboards", "stats">>}, {<<"Hashboards", "temps">>}}, "id")
       ++ Parts({"outlet_temperature"}, <<"Hashboards", "temps">>, "id")
       ++ Parts({"voltage"}, <<"Hashboards", "voltageget">>, "number")
       ++ Parts({"chips"}, <<"Chips", "healthchipget">>, "number"))

LuxMinerHashrates ==
  Plain("stats", {"Hashrate"}) ++ Plain("devs", {"ExpectedHashrate"})

LuxMinerFans ==
  [Fans |-> Rows("reported", Parts({"rpm"}, <<"Fans", "fans">>, "position"))]

LuxMinerReadings ==
  Plain("config", {"LightFlashing"})
  ++ Plain("stats", {"Uptime"})
  ++ [IsMining |-> Reader(Tells(<<"IsMining", "summary">>), "no")]

LuxMinerPools == Lists("pools", {"Pools"})

(* The name of the profile when its watts are not known. *)
LuxMinerNamesProfile ==
  Plain("config", {"SerialNumber", "ControlBoardVersion"})
  ++ Plain("power", {"Wattage"})
  ++ [TuningTarget |->
        Reader(<<Says({<<"TuningTarget", "config">>, <<"TuningTarget", "profiles">>},
                      "power"), Says({<<"TuningTarget", "config">>}, "mode")>>, "none")]

(* The watts of the profile that is set: both answers are needed. *)
LuxMinerDetails ==
  Plain("config", {"SerialNumber", "ControlBoardVersion"})
  ++ Plain("power", {"Wattage"})
  ++ [TuningTarget |->
        Reader(<<Says({<<"TuningTarget", "config">>, <<"TuningTarget", "profiles">>},
                      "power")>>, "none")]

LuxMinerMessages == Lists("events", {"Messages"})

LuxMinerFluid == Plain("temps", {"FluidTemperature"})

(* A group that cannot be removed is left where it is. *)
LuxMinerLeavesGroups ==
  <<Read({"pools"}, Ignored), Erase({"pools"}, Ignored), Erase({"pools"}, Ignored),
    Add({"pools"}, Must), Add({"pools"}, Must), Fill({"pools"}, Must), Fill({"pools"}, Must)>>

(* The groups that are read are removed one by one, the new ones added one *)
(* by one and then filled one by one, two of each here.  Without an answer *)
(* there are no groups to remove.                                          *)
LuxMinerSetPools ==
  <<Read({"pools"}, Ignored), Erase({"pools"}, Must), Erase({"pools"}, Must),
    Add({"pools"}, Must), Add({"pools"}, Must), Fill({"pools"}, Must), Fill({"pools"}, Must)>>

LuxMinerControl ==
  Each({"light_on", "light_off"}, {"light"}, IsOk)
  ++ Each({"restart"}, {"boots"}, Ignored)
  ++ Each({"pause", "resume"}, {"running"}, IsOk)
  ++ [set_pools |-> LuxMinerSetPools]

LuxMinerPoolsConfig ==
  [PoolsConfig |-> Reader(<<Says({<<"PoolsConfig", "groups">>, <<"PoolsConfig", "pools">>},
                                 "given")>>, "empty")]

-----------------------------------------------------------------------------
VnishCommands == {"info", "status", "summary", "chains", "factory_info"}

VnishLocations ==
  Locate("info", {"Mac", "Hostname", "ApiVersion", "FirmwareVersion", "ControlBoardVersion",
                  "SerialNumber", "Uptime"})
  \union Locate("factory_info", {"SerialNumber", "ExpectedHashrate"})
  \union Locate("summary", {"Hashrate", "ExpectedHashrate", "Wattage", "Fans", "Hashboards",
                            "Pools", "FluidTemperature"})
  \union Locate("chains", {"Hashboards", "Chips"})
  \union Locate("status", {"IsMining", "LightFlashing"})

VnishIdentity ==
  Plain("info", {"Mac", "Hostname", "ApiVersion", "FirmwareVersion", "ControlBoardVersion"})
  ++ [SerialNumber |-> Given("SerialNumber", <<"factory_info", "info">>)]

(* The chains of both answers are put into one list and merged by id; each *)
(* part comes from whichever has it.  The serial number of the miner stands*)
(* in for one the chain does not have.                                     *)
VnishBoards ==
  LET Chains == {<<"Hashboards", c>> : c \in {"summary", "chains"}}
      Also(sources) == {{chain, source} : chain \in Chains, source \in sources}
  IN  Rows("expected",
           PartsOf({"hashrate", "expected_hashrate", "board_temperature", "chip_temperature",
                    "intake_temperature", "outlet_temperature", "working_chips", "voltage",
                    "frequency"}, {{chain} : chain \in Chains}, "id")
           ++ PartsOf({"serial_number"},
                      {{chain} : chain \in Chains}
                        \union Also({<<"SerialNumber", c>> : c \in {"info", "factory_info"}}),
                      "id")
           ++ PartsOf({"tuned"}, Also({<<"IsMining", "status">>}), "id")
           ++ PartsOf({"chips"}, Also({<<"Chips", "chains">>}), "id"))

VnishReadings ==
  Plain("summary", {"Hashrate", "Wattage", "FluidTemperature"})
  ++ [ExpectedHashrate |-> Given("ExpectedHashrate", <<"factory_info", "summary">>)]
  ++ Plain("info", {"Uptime"})
  ++ Plain("status", {"LightFlashing"})
  ++ [IsMining |-> Reader(Tells(<<"IsMining", "status">>), "no")]

VnishFans ==
  [Fans |-> Rows("reported", Parts({"rpm"}, <<"Fans", "summary">>, "position"))]

VnishPools ==
  [Pools |-> Reader(<<Says({<<"Pools", "summary">>}, "given")>>, "group_without_pools")]

(* find_miner is told the state the light shall have and answers with the  *)
(* one it has; nothing is sent to a light that is found so.                *)
VnishLight ==
  [o \in {"light_on", "light_off"} |->
     <<Read({"light"}, Ignored), DoneIf("light"), Send({"light"}, ResultFlag)>>]

(* The preset that fits the limit is written into the overclock object as  *)
(* the settings have it, and looked at again.                              *)
VnishPower ==
  [set_power_limit |->
     <<Read({"preset"}, Must), Needs("preset", "false"), Read({"target", "overclock"}, Must),
       Rewrite({"target"}, {"overclock"}, Must), Read({"target"}, Must), Verify("target")>>]

VnishControl ==
  Each({"set_pools"}, {"pools"}, IsOk)
  ++ Each({"restart"}, {"boots"}, IsOk)
  ++ Each({"pause", "resume"}, {"running"}, IsOk)
  ++ Each({"factory_reset"}, {"reset"}, Must)

-----------------------------------------------------------------------------
EpicCommands ==
  {"summary", "network", "capabilities", "temps", "chip_temps", "voltages", "hashrate", "clocks",
   "hashratesplit_config"}

EpicLocations ==
  Locate("network", {"Mac"})
  \union Locate("summary", {"Hostname", "Uptime", "Wattage", "TuningTarget", "Fans", "Hashboards",
                            "Pools", "IsMining", "LightFlashing", "FirmwareVersion", "Hashrate",
                            "Messages"})
  \union Locate("temps", {"Hashboards"})
  \union Locate("capabilities", {"Hashboards", "ControlBoardVersion", "SerialNumber",
                                 "ExpectedHashrate"})
  \union {<<"Chips", c>> : c \in {"chip_temps", "voltages", "hashrate", "clocks"}}

EpicConfigLocations ==
  Locate("summary", {"FanConfig", "PoolsConfig", "ScalingConfig", "TuningConfig"})
  \union Locate("hashratesplit_config", {"PoolsConfig"})

EpicIdentity ==
  Plain("network", {"Mac"})
  ++ Plain("summary", {"Hostname", "FirmwareVersion"})
  ++ Plain("capabilities", {"SerialNumber", "ControlBoardVersion"})
  ++ [ApiVersion |-> Given("ApiVersion", <<"summary">>)]

(* Serial numbers come without an index and go to the boards that are on.  *)
(* Without chips in the data, a board that is on has all of them.          *)
EpicBoards ==
  LET Summary == <<"Hashboards", "summary">>
      Capabilities == <<"Hashboards", "capabilities">>
  IN  Rows("expected",
           Parts({"active", "hashrate", "voltage", "frequency", "board_temperature", "tuned"},
                 Summary, "id")
           ++ PartsOf({"expected_hashrate"}, {{Summary, Capabilities}}, "id")
           ++ PartsOf({"serial_number"}, {{Summary, Capabilities}}, "active")
           ++ Parts({"intake_temperature", "outlet_temperature"}, <<"Hashboards", "temps">>, "id"))

(* Chips are only there on the boards that are on; a chip works if it has  *)
(* a hashrate.                                                             *)
EpicChips ==
  LET OfBoards == <<"Hashboards", "summary">>
  IN  [p \in {"chip_temperature", "chip_voltage", "chip_frequency", "chip_hashrate"} |->
         LET source == <<"Chips", CASE p = "chip_temperature" -> "chip_temps"
                                    [] p = "chip_voltage" -> "voltages"
                                    [] p = "chip_frequency" -> "clocks"
                                    [] p = "chip_hashrate" -> "hashrate">>
         IN  [needs |-> {{OfBoards, source}}, key |-> "id", otherwise |-> "nothing"]]
      ++ PartsOf({"working_chips"}, {{OfBoards, <<"Chips", "hashrate">>}, {OfBoards}}, "id")

(* A sum over the boards that are there, zero if there are none.           *)
EpicHashrates ==
  [Hashrate |-> Reader(<<Says({<<"Hashrate", "summary">>}, "given")>>, "zero")]
  ++ Plain("capabilities", {"ExpectedHashrate"})

EpicFans ==
  [Fans |-> Rows("reported", Parts({"rpm"}, <<"Fans", "summary">>, "number"))]

EpicTuning ==
  [TuningTarget |-> Given("TuningTarget", <<"summary">>),
   ScaledTuningTarget |-> Given("TuningTarget", <<"summary">>)]

EpicReadings ==
  Plain("summary", {"Wattage", "LightFlashing", "Uptime"})
  ++ Lists("summary", {"Messages"})
  ++ [IsMining |-> Reader(Tells(<<"IsMining", "summary">>), "no")]

EpicPools ==
  [Pools |-> Reader(<<Says({<<"Pools", "summary">>}, "given")>>, "group_without_pools")]

(* The groups of the split if it is on, else the one group of the summary: *)
(* with only one of the answers the tags that tell them apart are there,   *)
(* and the missing half counts as absent.                                  *)
EpicPoolsConfig ==
  [PoolsConfig |->
     Reader(<<Says({<<"PoolsConfig", "hashratesplit_config">>, <<"PoolsConfig", "summary">>},
                   "given"),
              Says({<<"PoolsConfig", "summary">>}, "group_of_summary"),
              When("split", {<<"PoolsConfig", "hashratesplit_config">>}, "given"),
              Says({<<"PoolsConfig", "hashratesplit_config">>}, "group_without_pools")>>,
            "empty")]

EpicTuningConfig ==
  [f \in {"FanConfig", "ScalingConfig", "TuningConfig"} |->
     Reader(<<Says({<<f, "summary">>}, "given")>>, "error")]

(* The pools of one group or of the split are stored, then the split is    *)
(* switched off or on.                                                     *)
EpicSetPools == <<Send({"pools"}, ResultFlag), Send({"active_pools"}, ResultFlag)>>

EpicControl ==
  Each({"light_on", "light_off"}, {"light"}, ResultFlag)
  ++ [set_pools |-> EpicSetPools]
  ++ Each({"tune_power"}, {"target"}, ResultFlag)
  ++ Each({"set_fan"}, {"fan"}, ResultFlag)
  ++ Each({"restart"}, {"boots"}, ResultFlag)
  ++ Each({"pause", "resume"}, {"running"}, ResultFlag)
  ++ Each({"upgrade_firmware"}, {"firmware"}, Must)

-----------------------------------------------------------------------------
MarathonCommands ==
  {"overview", "network_config", "brief", "hashboards", "details", "miner_config", "fans",
   "locate_miner", "pools", "event_chart"}

MarathonLocations ==
  Locate("overview", {"Mac", "FirmwareVersion", "ControlBoardVersion"})
  \union Locate("network_config", {"Hostname"})
  \union Locate("brief", {"Hashrate", "ExpectedHashrate", "Wattage", "IsMining", "Uptime"})
  \union Locate("hashboards", {"Hashboards"})
  \union Locate("details", {"Hashboards", "Chips"})
  \union Locate("miner_config", {"TuningTarget"})
  \union Locate("fans", {"Fans"})
  \union Locate("locate_miner", {"LightFlashing"})
  \union Locate("pools", {"Pools"})
  \union Locate("event_chart", {"Messages"})

MarathonConfigLocations == Locate("miner_config", {"PoolsConfig"})

MarathonIdentity ==
  Plain("overview", {"Mac", "FirmwareVersion", "ControlBoardVersion"})
  ++ Plain("network_config", {"Hostname"})

(* The temperatures are an array, looked at for the boards in the details. *)
MarathonBoards ==
  LET Details == <<"Hashboards", "details">>
  IN  Rows("expected",
           Parts({"hashrate", "expected_hashrate", "working_chips", "serial_number", "voltage",
                  "frequency"}, Details, "id")
           ++ PartsOf({"board_temperature", "intake_temperature"},
                      {{Details, <<"Hashboards", "hashboards">>}}, "position"))

MarathonChips == PartsOf({"chips"}, {{<<"Hashboards", "details">>, <<"Chips", "details">>}}, "id")

MarathonHashrates == Plain("brief", {"Hashrate", "ExpectedHashrate"})

(* The fans of the model table, without a speed, if none is reported. *)
MarathonFans ==
  [Fans |-> Rows("expected", Parts({"rpm"}, <<"Fans", "fans">>, "position"))]

MarathonReadings ==
  Plain("brief", {"Wattage", "Uptime"})
  ++ [TuningTarget |->
        Reader(<<Says({<<"TuningTarget", "miner_config">>}, "power")>>, "none")]
  ++ Plain("locate_miner", {"LightFlashing"})
  ++ Lists("event_chart", {"Messages"})
  ++ [IsMining |-> Reader(Tells(<<"IsMining", "brief">>), "no")]

MarathonPools ==
  [Pools |-> Reader(<<Says({<<"Pools", "pools">>}, "given")>>, "group_without_pools")]

MarathonPoolsConfig ==
  [PoolsConfig |-> Reader(<<Says({<<"PoolsConfig", "miner_config">>}, "given")>>, "empty")]

(* miner_config is one object that is always written whole. *)
MarathonConf == {"pools", "mode"}

(* The rest of the object is not what the device has. *)
MarathonSetUnread(cell) == <<Rewrite({cell}, MarathonConf \ {cell}, Must)>>

MarathonSetConf(cell) ==
  <<Read(MarathonConf, Must), Rewrite({cell}, MarathonConf \ {cell}, Must)>>

MarathonSetPools == [set_pools |-> MarathonSetConf("pools")]

(* Resume does not look for the mode before. *)
MarathonResumeAnyhow ==
  [pause |-> <<Read({"mode"}, Must), DoneIf("mode"), Needs("mode", "error")>>
               \o MarathonSetConf("mode"),
   resume |-> <<Read({"mode"}, Must), DoneIf("mode")>> \o MarathonSetConf("mode")]

(* Sleeping is a work mode; the one before is found in the history. *)
MarathonPause ==
  [pause |-> <<Read({"mode"}, Must), DoneIf("mode"), Needs("mode", "error")>>
               \o MarathonSetConf("mode"),
   resume |-> <<Read({"mode"}, Must), DoneIf("mode"), Read({"history"}, Must)>>
                \o MarathonSetConf("mode")]
=============================================================================
