--------------------------- MODULE AvalonBackends ---------------------------
(***************************************************************************)
(* AvalonMiner: the A series and the Q (asic-rs-firmwares/avalonminer/src/ *)
(* backends).  pause and resume give the device a time, five seconds ahead *)
(* unless the caller says otherwise; here they are done when the device    *)
(* has accepted them.                                                      *)
(***************************************************************************)
EXTENDS TelemetryTables, ControlSteps

AvalonACommands == {"version", "stats", "devs", "pools"}

AvalonALocations ==
  Locate("version", {"Mac", "ControlBoardVersion", "SerialNumber", "ApiVersion",
                     "FirmwareVersion"})
  \union Locate("devs", {"Hashrate"})
  \union Locate("stats", {"ExpectedHashrate", "Hashboards", "Chips", "Wattage", "TuningTarget",
                          "Fans", "LightFlashing", "Uptime"})
  \union Locate("pools", {"Pools"})

AvalonAIdentity ==
  Plain("version", {"Mac", "SerialNumber", "ControlBoardVersion", "ApiVersion",
                    "FirmwareVersion"})

(* Arrays with an element per board, and numbered keys for the frequency   *)
(* and the chips; without the chips an active board has all it should.     *)
AvalonABoards ==
  Rows("expected",
       Parts({"hashrate", "board_temperature", "outlet_temperature", "intake_temperature",
              "voltage"}, <<"Hashboards", "stats">>, "position")
       ++ Parts({"frequency"}, <<"Hashboards", "stats">>, "number")
       ++ Parts({"chips"}, <<"Chips", "stats">>, "number")
       ++ Assumed({"working_chips"}, <<"Chips", "stats">>, "number"))

AvalonAHashrates == Plain("devs", {"Hashrate"}) ++ Plain("stats", {"ExpectedHashrate"})

(* Fan1, Fan2, ... are fans 1, 2, ...; everywhere else the first fan is 0. *)
AvalonAFans ==
  [Fans |-> Rows("reported", Parts({"rpm"}, <<"Fans", "stats">>, "from_one"))]

AvalonAReadings == Plain("stats", {"Wattage", "TuningTarget", "LightFlashing", "Uptime"})

AvalonAPools ==
  [Pools |-> Reader(<<Says({<<"Pools", "pools">>}, "given")>>, "group_without_pools")]

(* Anything but the expected status is Ok(false). *)
AvalonReply == ResultFlag

(* resume takes silence for success. *)
AvalonAPower ==
  Each({"restart"}, {"boots"}, AvalonReply)
  ++ Each({"pause"}, {"running"}, AvalonReply)
  ++ Each({"resume"}, {"running"}, [refused |-> "false", lost |-> "next"])

AvalonASettings ==
  Each({"light_on", "light_off"}, {"light"}, AvalonReply)
  ++ Each({"set_power_limit"}, {"target"}, AvalonReply)

-----------------------------------------------------------------------------
AvalonQCommands == AvalonACommands

AvalonQLocations ==
  Locate("version", {"Mac", "ApiVersion", "FirmwareVersion"})
  \union Locate("devs", {"Hashrate"})
  \union Locate("stats", {"ExpectedHashrate", "Hashboards", "Chips", "AverageTemperature",
                          "TuningTarget", "Wattage", "Fans", "LightFlashing", "Uptime"})
  \union Locate("pools", {"Pools"})

AvalonQIdentity == Plain("version", {"Mac", "ApiVersion", "FirmwareVersion"})

AvalonQBoards ==
  Rows("expected",
       Parts({"hashrate", "board_temperature", "intake_temperature"},
             <<"Hashboards", "stats">>, "position")
       ++ Parts({"chips"}, <<"Chips", "stats">>, "number")
       ++ Assumed({"working_chips"}, <<"Chips", "stats">>, "number"))

AvalonQHashrates == AvalonAHashrates
AvalonQFans == AvalonAFans
AvalonQReadings == AvalonAReadings
AvalonQPools == AvalonAPools

(* reboot exists, but restart is not implemented. *)
AvalonQPower == [o \in {"pause", "resume"} |-> AvalonAPower[o]]

AvalonQSettings == AvalonASettings
=============================================================================
