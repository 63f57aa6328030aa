------------------------- MODULE WhatsMinerBackends -------------------------
(***************************************************************************)
(* The three WhatsMiner backends (asic-rs-firmwares/whatsminer/src/        *)
(* backends).  v1 only reads; v2 and v3 set the power limit and the power  *)
(* mode by separate commands, and the mode decides when it is not normal.  *)
(***************************************************************************)
EXTENDS TelemetryTables, ControlSteps

WhatsMinerV1Commands ==
  {"summary", "devs", "pools", "status", "get_version", "get_psu"}

WhatsMinerV1Locations ==
  Locate("summary", {"Mac", "ControlBoardVersion", "TuningTarget", "Fans", "Uptime",
                     "Wattage", "Hashrate", "ExpectedHashrate", "FluidTemperature", "Messages"})
  \union Locate("get_version", {"ApiVersion", "FirmwareVersion"})
  \union Locate("get_psu", {"PsuFans"})
  \union Locate("devs", {"Hashboards"})
  \union Locate("pools", {"Pools"})
  \union Locate("status", {"IsMining"})

WhatsMinerV1Identity ==
  Plain("summary", {"Mac", "ControlBoardVersion"})
  ++ Plain("get_version", {"ApiVersion", "FirmwareVersion"})

WhatsMinerBoardParts ==
  {"hashrate", "expected_hashrate", "board_temperature", "intake_temperature",
   "outlet_temperature", "working_chips", "frequency"}

WhatsMinerV1Boards ==
  Rows("expected",
       Parts(WhatsMinerBoardParts \union {"serial_number"}, <<"Hashboards", "devs">>, "position"))

(* An unreadable flag counts as mining. *)
WhatsMinerV1Readings ==
  Plain("summary", {"Hashrate", "ExpectedHashrate", "FluidTemperature", "Wattage",
                    "TuningTarget", "Uptime"})
  ++ Lists("summary", {"Messages"})
  ++ [IsMining |-> Reader(Tells(<<"IsMining", "status">>), "yes")]

(* "Fan Speed In" and "Fan Speed Out", and one fan of the power supply. *)
WhatsMinerV1Fans ==
  [Fans |-> Rows("reported", Parts({"rpm"}, <<"Fans", "summary">>, "number")),
   PsuFans |-> Rows("reported", Parts({"rpm"}, <<"PsuFans", "get_psu">>, "number"))]

(* One group, without pools when there is no answer. *)
WhatsMinerV1Pools ==
  [Pools |-> Reader(<<Says({<<"Pools", "pools">>}, "given")>>, "group_without_pools")]

WhatsMinerV1Control == << >>

-----------------------------------------------------------------------------
WhatsMinerV2Commands ==
  {"get_miner_info", "summary", "devs", "pools", "status", "get_version", "get_psu",
   "get_error_code"}

WhatsMinerV2Locations ==
  Locate("get_miner_info", {"Mac", "Hostname", "LightFlashing"})
  \union Locate("get_version", {"ApiVersion", "FirmwareVersion", "ControlBoardVersion"})
  \union Locate("summary", {"TuningTarget", "Fans", "Uptime", "Wattage", "Hashrate",
                            "ExpectedHashrate", "FluidTemperature"})
  \union Locate("get_psu", {"PsuFans"})
  \union Locate("devs", {"Hashboards"})
  \union Locate("pools", {"Pools"})
  \union Locate("status", {"IsMining"})
  \union Locate("get_error_code", {"Messages"})

WhatsMinerV2ConfigLocations == Locate("summary", {"TuningConfig"})

WhatsMinerV2Identity ==
  Plain("get_miner_info", {"Mac", "Hostname"})
  ++ Plain("get_version", {"ApiVersion", "FirmwareVersion", "ControlBoardVersion"})

WhatsMinerV2Boards == WhatsMinerV1Boards

WhatsMinerV2Readings ==
  Plain("summary", {"Hashrate", "ExpectedHashrate", "FluidTemperature", "Wattage", "Uptime"})
  ++ [TuningTarget |-> Reader(ModeOrPower(<<"TuningTarget", "summary">>), "none")]
  ++ Plain("get_miner_info", {"LightFlashing"})
  ++ Lists("get_error_code", {"Messages"})
  ++ [IsMining |-> Reader(Tells(<<"IsMining", "status">>), "yes")]

WhatsMinerV2Fans == WhatsMinerV1Fans

WhatsMinerV2Pools == WhatsMinerV1Pools

WhatsMinerV2TuningConfig ==
  [TuningConfig |-> Reader(ModeOrPower(<<"TuningConfig", "summary">>), "error")]

(* restart and pause cut the connection, so their result is not looked at. *)
WhatsMinerV2Control ==
  Each({"light_on", "light_off"}, {"light"}, IsOk)
  ++ Each({"set_power_limit"}, {"target"}, IsOk)
  ++ Each({"set_pools"}, {"pools"}, IsOk)
  ++ Each({"restart"}, {"boots"}, Ignored)
  ++ Each({"pause"}, {"running"}, Ignored)
  ++ Each({"resume"}, {"running"}, IsOk)

(* The mode is left as it is. *)
WhatsMinerV2LimitOnly ==
  [tune_mode |-> <<Send({"mode"}, MayNotAnswer)>>, tune_power |-> <<Send({"target"}, Must)>>]

(* A new limit takes effect in the normal mode, which is asked for after.  *)
WhatsMinerV2Tuning ==
  [tune_mode |-> <<Send({"mode"}, MayNotAnswer)>>,
   tune_power |-> <<Send({"target"}, Must), Send({"mode"}, Ignored)>>]

-----------------------------------------------------------------------------
WhatsMinerV3Commands == {"device_info", "status_summary", "status_pools", "status_edevs"}

(* The mode and the limit come from different commands. *)
WhatsMinerV3ConfigLocations ==
  Locate("device_info", {"TuningConfig"}) \union Locate("status_summary", {"TuningConfig"})

WhatsMinerV3Locations ==
  Locate("device_info", {"Mac", "ApiVersion", "FirmwareVersion", "ControlBoardVersion",
                         "SerialNumber", "Hostname", "LightFlashing", "PsuFans", "IsMining",
                         "Messages", "TuningTarget", "Hashboards"})
  \union Locate("status_summary", {"TuningTarget", "Fans", "Uptime", "Wattage", "Hashrate",
                                   "ExpectedHashrate", "FluidTemperature"})
  \union Locate("status_edevs", {"Hashboards"})
  \union Locate("status_pools", {"Pools"})

WhatsMinerV3Identity ==
  Plain("device_info", {"Mac", "Hostname", "ApiVersion", "FirmwareVersion",
                        "ControlBoardVersion"})

(* The serial numbers are numbered in the device information. *)
WhatsMinerV3Boards ==
  Rows("expected",
       Parts(WhatsMinerBoardParts, <<"Hashboards", "status_edevs">>, "position")
       ++ Parts({"serial_number"}, <<"Hashboards", "device_info">>, "number"))

(* A low or high mode, else the limit: each if its half was answered. *)
WhatsMinerV3Target(field) ==
  <<When("mode", {<<field, "device_info">>}, "mode"),
    Says({<<field, "status_summary">>}, "power")>>

WhatsMinerV3Readings ==
  Plain("status_summary", {"Hashrate", "ExpectedHashrate", "FluidTemperature", "Wattage",
                           "Uptime"})
  ++ [TuningTarget |-> Reader(WhatsMinerV3Target("TuningTarget"), "none")]
  ++ Plain("device_info", {"LightFlashing"})
  ++ Lists("device_info", {"Messages"})
  ++ [IsMining |-> Reader(Tells(<<"IsMining", "device_info">>), "yes")]

WhatsMinerV3Fans ==
  [Fans |-> Rows("reported", Parts({"rpm"}, <<"Fans", "status_summary">>, "number")),
   PsuFans |-> Rows("reported", Parts({"rpm"}, <<"PsuFans", "device_info">>, "number"))]

WhatsMinerV3Pools ==
  [Pools |-> Reader(<<Says({<<"Pools", "status_pools">>}, "given")>>, "group_without_pools")]

WhatsMinerV3TuningConfig ==
  [TuningConfig |-> Reader(WhatsMinerV3Target("TuningConfig"), "error")]

WhatsMinerV3Control ==
  Each({"light_on", "light_off"}, {"light"}, IsOk)
  ++ Each({"set_power_limit"}, {"target"}, IsOk)
  ++ Each({"set_pools"}, {"pools"}, IsOk)
  ++ Each({"restart"}, {"boots"}, Ignored)
  ++ Each({"pause", "resume"}, {"running"}, IsOk)

(* Each mode command is tried by the new protocol, then by the old one.    *)
WhatsMinerV3Tuning ==
  [tune_mode |-> <<SendOr({"mode"}, Ignored), Send({"mode"}, MayNotAnswer)>>,
   tune_power |-> <<Send({"target"}, Must), SendOr({"mode"}, Ignored), Send({"mode"}, Ignored)>>]
=============================================================================
