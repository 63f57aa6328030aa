---------------------------- MODULE AxeBackends -----------------------------
(***************************************************************************)
(* Bitaxe (AxeOS 2.0.0 and 2.9.0) and NerdAxe: miners of one board that    *)
(* answer nearly everything at once and that this library only reads       *)
(* (asic-rs-firmwares/bitaxe and nerdaxe, src/backends).                   *)
(***************************************************************************)
EXTENDS TelemetryTables

AxeFields ==
  {"Mac", "Hostname", "FirmwareVersion", "ApiVersion", "ControlBoardVersion", "Hashboards",
   "Hashrate", "ExpectedHashrate", "Fans", "AverageTemperature", "Wattage", "Uptime", "Pools"}

BitaxeV2Commands == {"system_info"}

BitaxeV2Locations == Locate("system_info", AxeFields \union {"Chips"})

BitaxeV2Identity ==
  Plain("system_info", {"Mac", "Hostname", "ApiVersion", "FirmwareVersion",
                        "ControlBoardVersion"})

AxeParts ==
  {"hashrate", "board_temperature", "intake_temperature", "outlet_temperature",
   "working_chips", "voltage", "frequency"}

(* expected_hashrate is computed from working_chips and frequency before   *)
(* those are read, so it is never there.                                   *)
BitaxeV2Boards ==
  Rows("single", Parts(AxeParts, <<"Hashboards", "system_info">>, "number")
                   ++ Parts({"chips"}, <<"Chips", "system_info">>, "number"))

(* The expected hashrate takes the frequency from the field of the boards, *)
(* and zero for what is missing; the miner mines if it has a hashrate.     *)
BitaxeV2Hashrates ==
  Plain("system_info", {"Hashrate"})
  ++ [ExpectedHashrate |->
        Reader(<<Says({<<"ExpectedHashrate", "system_info">>, <<"Hashboards", "system_info">>},
                      "given")>>, "zero")]

AxeFans(command) ==
  [Fans |-> Rows("single", Parts({"rpm"}, <<"Fans", command>>, "number"))]

BitaxeV2Fans == AxeFans("system_info")

(* The overheat mode is in the field of the boards. *)
BitaxeV2Readings ==
  Plain("system_info", {"Wattage", "Uptime"})
  ++ [Messages |-> Reader(<<Says({<<"Hashboards", "system_info">>}, "given")>>, "empty")]
  ++ [IsMining |-> Reader(Tells(<<"Hashrate", "system_info">>), "no")]

(* A main and a fallback pool, blank when there is no answer. *)
BitaxeV2Pools ==
  [Pools |-> Reader(<<Says({<<"Pools", "system_info">>}, "given")>>, "blank_pools")]

-----------------------------------------------------------------------------
BitaxeV29Commands == {"system_info", "system_asic"}

BitaxeV29Locations ==
  Locate("system_info", AxeFields) \union Locate("system_asic", {"Chips"})

BitaxeV29Identity == BitaxeV2Identity

BitaxeV29Boards ==
  Rows("single", Parts(AxeParts \union {"expected_hashrate"},
                       <<"Hashboards", "system_info">>, "number")
                   ++ Parts({"chips"}, <<"Chips", "system_asic">>, "number"))

BitaxeV29Hashrates == Plain("system_info", {"Hashrate", "ExpectedHashrate"})
BitaxeV29Fans == BitaxeV2Fans
BitaxeV29Readings == BitaxeV2Readings
BitaxeV29Pools == BitaxeV2Pools

-----------------------------------------------------------------------------
NerdAxeCommands == BitaxeV2Commands
NerdAxeLocations == BitaxeV2Locations
NerdAxeIdentity == BitaxeV2Identity

(* Here expected_hashrate is computed last. *)
NerdAxeBoards ==
  Rows("single", BitaxeV2Boards.parts
                   ++ Parts({"expected_hashrate"}, <<"Hashboards", "system_info">>, "number"))

NerdAxeHashrates == BitaxeV2Hashrates
NerdAxeFans == BitaxeV2Fans
NerdAxeReadings == BitaxeV2Readings
NerdAxePools == BitaxeV2Pools
=============================================================================
