-------------------------- MODULE AntMinerBackends --------------------------
(***************************************************************************)
(* The two backends of the AntMiner stock firmware (asic-rs-firmwares/     *)
(* antminer/src/backends).  The miner configuration is one object: v2020   *)
(* always writes it whole, so what the other operations set is read first  *)
(* and written back; v2023_07 writes only the keys it changes.  Sleeping   *)
(* is a value of the mode, next to the low, normal and high modes.         *)
(***************************************************************************)
EXTENDS TelemetryTables, ControlSteps

AntMinerV2020Commands ==
  {"version", "stats", "rpc_summary", "pools", "get_system_info", "get_blink_status",
   "get_miner_conf", "summary", "miner_type"}

AntMinerV2020Locations ==
  Locate("get_system_info", {"Mac", "FirmwareVersion", "Hostname", "SerialNumber"})
  \union Locate("version", {"ApiVersion"})
  \union Locate("miner_type", {"ControlBoardVersion"})
  \union Locate("rpc_summary", {"Hashrate"})
  \union Locate("stats", {"ExpectedHashrate", "Fans", "Hashboards", "Uptime", "Wattage"})
  \union Locate("get_blink_status", {"LightFlashing"})
  \union Locate("get_miner_conf", {"IsMining", "TuningTarget"})
  \union Locate("pools", {"Pools"})
  \union Locate("summary", {"Messages"})

AntMinerV2020ConfigLocations ==
  Locate("get_miner_conf", {"PoolsConfig", "TuningConfig", "FanConfig"})

AntMinerV2020Identity ==
  Plain("get_system_info", {"Mac", "Hostname", "FirmwareVersion"})
  ++ Plain("version", {"ApiVersion"})

(* chain_rate1, temp_pcb1, ... *)
AntMinerV2020Boards ==
  Rows("expected",
       Parts({"hashrate", "board_temperature", "working_chips", "frequency"},
             <<"Hashboards", "stats">>, "number"))

(* fan1, fan2, ...: the ones that turn, where they are. *)
AntMinerV2020Fans ==
  [Fans |-> Rows("reported", Parts({"rpm"}, <<"Fans", "stats">>, "number"))]

(* The mode, else whether it hashes. *)
AntMinerV2020Status ==
  Plain("rpc_summary", {"Hashrate"})
  ++ Plain("stats", {"ExpectedHashrate", "Uptime"})
  ++ Plain("get_blink_status", {"LightFlashing"})
  ++ [IsMining |-> Reader(Tells(<<"IsMining", "get_miner_conf">>)
                            \o Tells(<<"Hashrate", "rpc_summary">>), "no")]

AntMinerV2020Pools == Lists("pools", {"Pools"})

(* A sleeping miner has no mode among low, normal and high. *)
AntMinerV2020Mode(field) == When("mining", {<<field, "get_miner_conf">>}, "given")

(* parse_fluid_temperature wants an array where the location has an object.*)
AntMinerV2020Readings ==
  Plain("get_system_info", {"SerialNumber"})
  ++ Plain("miner_type", {"ControlBoardVersion"})
  ++ Plain("stats", {"Wattage"})
  ++ [o \in {"TuningTarget", "ScaledTuningTarget"} |->
        Reader(<<AntMinerV2020Mode("TuningTarget")>>, "none")]
  ++ [FluidTemperature |-> Never("none")]
  ++ Lists("summary", {"Messages"})

(* get_pools_config: no groups without an answer. *)
AntMinerV2020PoolsConfig ==
  [PoolsConfig |-> Reader(<<Says({<<"PoolsConfig", "get_miner_conf">>}, "given")>>, "empty")]

AntMinerV2020TuningConfig ==
  [TuningConfig |-> Reader(<<AntMinerV2020Mode("TuningConfig")>>, "error"),
   FanConfig |-> Reader(<<Says({<<"FanConfig", "get_miner_conf">>}, "given")>>, "error")]

(* What browser_miner_conf_payload copies into every set_miner_conf. *)
AntMinerV2020Conf == {"pools", "mode", "fan"}

AntMinerV2020SetConf(cell, fail) == Rewrite({cell}, AntMinerV2020Conf \ {cell}, fail)

AntMinerV2020Mining ==
  Each({"light_on", "light_off"}, {"light"}, IsOk)
  ++ Each({"restart"}, {"boots"}, IsOk)
  ++ [set_pools |-> <<Read(AntMinerV2020Conf, Must), AntMinerV2020SetConf("pools", IsOk)>>]
  ++ [o \in {"pause", "resume"} |->
        <<Read(AntMinerV2020Conf, Must), Needs("mode", "false"),
          AntMinerV2020SetConf("mode", Must), Read({"mode"}, Must), Verify("mode")>>]

AntMinerV2020Device ==
  Each({"factory_reset"}, {"reset"}, Must)
  ++ [upgrade_firmware |-> <<Read({"model"}, Must), Send({"firmware"}, Must)>>,
      tune_mode |-> <<Read(AntMinerV2020Conf, Must), Needs("mode", "error"),
                      AntMinerV2020SetConf("mode", Must)>>]

AntMinerV2020Fan ==
  [set_fan |-> <<Read(AntMinerV2020Conf, Must), AntMinerV2020SetConf("fan", Must)>>]

-----------------------------------------------------------------------------
(* The same requests and parsers as v2020. *)
AntMinerV2023Commands == AntMinerV2020Commands
AntMinerV2023Locations == AntMinerV2020Locations
AntMinerV2023ConfigLocations == AntMinerV2020ConfigLocations
AntMinerV2023Identity == AntMinerV2020Identity
AntMinerV2023Boards == AntMinerV2020Boards
AntMinerV2023Fans == AntMinerV2020Fans
AntMinerV2023Status == AntMinerV2020Status
AntMinerV2023Pools == AntMinerV2020Pools
AntMinerV2023Readings == AntMinerV2020Readings
AntMinerV2023PoolsConfig == AntMinerV2020PoolsConfig
AntMinerV2023TuningConfig == AntMinerV2020TuningConfig

(* The mode is read only to know the name of its key; nothing is verified. *)
AntMinerV2023Mining ==
  Each({"light_on", "light_off"}, {"light"}, IsOk)
  ++ Each({"restart"}, {"boots"}, IsOk)
  ++ Each({"set_pools"}, {"pools"}, IsOk)
  ++ [o \in {"pause", "resume"} |->
        <<Read({"mode"}, Must), Needs("mode", "false"), Send({"mode"}, IsOk)>>]

AntMinerV2023Device ==
  Each({"factory_reset"}, {"reset"}, Must)
  ++ [upgrade_firmware |-> <<Read({"model"}, Must), Send({"firmware"}, Must)>>,
      tune_mode |-> <<Read({"mode"}, Must), Needs("mode", "error"), Send({"mode"}, Must)>>]

AntMinerV2023Fan == Each({"set_fan"}, {"fan"}, Must)
=============================================================================
