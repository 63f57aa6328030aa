------------------------------ MODULE Backends ------------------------------
(***************************************************************************)
(* All backends of the firmwares, each put together the way the Miner trait*)
(* puts a backend together: locations, parsers and control operations      *)
(* (asic-rs-core/src/traits/miner.rs).  The tables themselves are in the   *)
(* modules of the firmwares.                                               *)
(***************************************************************************)
EXTENDS WhatsMinerBackends, AntMinerBackends, BraiinsBackends, AxeBackends, AvalonBackends,
        ThirdPartyBackends, VendorBackends

(* located: the locations of data and configuration.  readers: the parsers *)
(* of single values.  rows: what parse_hashboards and parse_fans return.   *)
(* operations: the requests of each control operation that is implemented. *)
Backend(name, commands, located, readers, boards, fans, operations) ==
  [name |-> name, commands |-> commands, located |-> located, readers |-> readers,
   rows |-> [Hashboards |-> boards] ++ fans, operations |-> operations]

(* A row with further parts, for those told in two definitions. *)
WithParts(rows, parts) == [rows EXCEPT !.parts = @ ++ parts]

WhatsMiner ==
  {Backend("WhatsMinerV1", WhatsMinerV1Commands,
           WhatsMinerV1Locations,
           WhatsMinerV1Identity ++ WhatsMinerV1Readings ++ WhatsMinerV1Pools,
           WhatsMinerV1Boards, WhatsMinerV1Fans, WhatsMinerV1Control),
   Backend("WhatsMinerV2", WhatsMinerV2Commands,
           WhatsMinerV2Locations \union WhatsMinerV2ConfigLocations,
           WhatsMinerV2Identity ++ WhatsMinerV2Readings ++ WhatsMinerV2Pools
               ++ WhatsMinerV2TuningConfig,
           WhatsMinerV2Boards, WhatsMinerV2Fans, WhatsMinerV2Control ++ WhatsMinerV2Tuning),
   Backend("WhatsMinerV3", WhatsMinerV3Commands,
           WhatsMinerV3Locations \union WhatsMinerV3ConfigLocations,
           WhatsMinerV3Identity ++ WhatsMinerV3Readings ++ WhatsMinerV3Pools
               ++ WhatsMinerV3TuningConfig,
           WhatsMinerV3Boards, WhatsMinerV3Fans, WhatsMinerV3Control ++ WhatsMinerV3Tuning)}

AntMiner ==
  {Backend("AntMinerV2020", AntMinerV2020Commands,
           AntMinerV2020Locations \union AntMinerV2020ConfigLocations,
           AntMinerV2020Identity ++ AntMinerV2020Status ++ AntMinerV2020Readings
               ++ AntMinerV2020Pools ++ AntMinerV2020PoolsConfig ++ AntMinerV2020TuningConfig,
           AntMinerV2020Boards, AntMinerV2020Fans,
           AntMinerV2020Mining ++ AntMinerV2020Device ++ AntMinerV2020Fan),
   Backend("AntMinerV2023", AntMinerV2023Commands,
           AntMinerV2023Locations \union AntMinerV2023ConfigLocations,
           AntMinerV2023Identity ++ AntMinerV2023Status ++ AntMinerV2023Readings
               ++ AntMinerV2023Pools ++ AntMinerV2023PoolsConfig ++ AntMinerV2023TuningConfig,
           AntMinerV2023Boards, AntMinerV2023Fans,
           AntMinerV2023Mining ++ AntMinerV2023Device ++ AntMinerV2023Fan)}

BraiinsBOSminer ==
  {Backend("BraiinsV2109", BraiinsV2109Commands,
           BraiinsV2109Locations,
           BraiinsV2109Identity ++ BraiinsV2109Readings ++ BraiinsV2109Pools,
           BraiinsV2109Boards, BraiinsV2109Fans, BraiinsV2109Control ++ BraiinsV2109Pooling),
   Backend("BraiinsV2503", BraiinsV2503Commands,
           BraiinsV2503Locations,
           BraiinsV2503Identity ++ BraiinsV2503Readings ++ BraiinsV2503Pools,
           BraiinsV2503Boards, BraiinsV2503Fans, BraiinsV2503Control ++ BraiinsV2503Pooling),
   Backend("BraiinsV2505", BraiinsV2505Commands,
           BraiinsV2505Locations,
           BraiinsV2505Identity ++ BraiinsV2505Readings ++ BraiinsV2505Pools,
           BraiinsV2505Boards, BraiinsV2505Fans, BraiinsV2505Control ++ BraiinsV2505Pooling)}

BraiinsWeb ==
  {Backend("BraiinsV2507", BraiinsV2507Commands,
           BraiinsV2507Locations,
           BraiinsV2507Identity ++ BraiinsV2507Readings ++ BraiinsV2507Details
               ++ BraiinsV2507Pools,
           BraiinsV2507Boards, BraiinsV2507Fans, BraiinsV2507Control),
   Backend("BraiinsV2604", BraiinsV2604Commands,
           BraiinsV2604Locations,
           BraiinsV2604Identity ++ BraiinsV2604Readings ++ BraiinsV2604Details
               ++ BraiinsV2604Pools,
           BraiinsV2604Boards, BraiinsV2604Fans, BraiinsV2604Control)}

Axe ==
  {Backend("BitaxeV2", BitaxeV2Commands,
           BitaxeV2Locations,
           BitaxeV2Identity ++ BitaxeV2Hashrates ++ BitaxeV2Readings ++ BitaxeV2Pools,
           BitaxeV2Boards, BitaxeV2Fans, << >>),
   Backend("BitaxeV29", BitaxeV29Commands,
           BitaxeV29Locations,
           BitaxeV29Identity ++ BitaxeV29Hashrates ++ BitaxeV29Readings ++ BitaxeV29Pools,
           BitaxeV29Boards, BitaxeV29Fans, << >>),
   Backend("NerdAxe", NerdAxeCommands,
           NerdAxeLocations,
           NerdAxeIdentity ++ NerdAxeHashrates ++ NerdAxeReadings ++ NerdAxePools,
           NerdAxeBoards, NerdAxeFans, << >>)}

Avalon ==
  {Backend("AvalonA", AvalonACommands,
           AvalonALocations,
           AvalonAIdentity ++ AvalonAHashrates ++ AvalonAReadings ++ AvalonAPools,
           AvalonABoards, AvalonAFans, AvalonAPower ++ AvalonASettings),
   Backend("AvalonQ", AvalonQCommands,
           AvalonQLocations,
           AvalonQIdentity ++ AvalonQHashrates ++ AvalonQReadings ++ AvalonQPools,
           AvalonQBoards, AvalonQFans, AvalonQPower ++ AvalonQSettings)}

ThirdParty ==
  {Backend("LuxMiner", LuxMinerCommands,
           LuxMinerLocations \union LuxMinerConfigLocations,
           LuxMinerIdentity ++ LuxMinerHashrates ++ LuxMinerReadings ++ LuxMinerDetails
               ++ LuxMinerMessages ++ LuxMinerFluid ++ LuxMinerPools ++ LuxMinerPoolsConfig,
           LuxMinerBoards, LuxMinerFans, LuxMinerControl),
   Backend("Vnish", VnishCommands,
           VnishLocations, VnishIdentity ++ VnishReadings ++ VnishPools,
           VnishBoards, VnishFans, VnishLight ++ VnishPower ++ VnishControl),
   Backend("Epic", EpicCommands,
           EpicLocations \union EpicConfigLocations,
           EpicIdentity ++ EpicHashrates ++ EpicTuning ++ EpicReadings ++ EpicPools
               ++ EpicPoolsConfig ++ EpicTuningConfig,
           WithParts(EpicBoards, EpicChips), EpicFans, EpicControl),
   Backend("Marathon", MarathonCommands,
           MarathonLocations \union MarathonConfigLocations,
           MarathonIdentity ++ MarathonHashrates ++ MarathonReadings ++ MarathonPools
               ++ MarathonPoolsConfig,
           WithParts(MarathonBoards, MarathonChips), MarathonFans,
           MarathonSetPools ++ MarathonPause)}

Vendors ==
  {Backend("Auradine", AuradineCommands,
           AuradineLocations \union AuradineConfigLocations,
           AuradineIdentity ++ AuradineHashrates ++ AuradineReadings ++ AuradineStatus
               ++ AuradinePools ++ AuradinePoolsConfig,
           WithParts(AuradineBoards, AuradineChips), AuradineFans, AuradineControl),
   Backend("Proto", ProtoCommands,
           ProtoLocations \union ProtoConfigLocations,
           ProtoIdentity ++ ProtoHashrates ++ ProtoReadings ++ ProtoPools ++ ProtoSettings,
           ProtoBoards, ProtoFans, ProtoControl ++ ProtoConfiguration),
   Backend("SealMiner", SealMinerCommands,
           SealMinerLocations \union SealMinerConfigLocations,
           SealMinerIdentity ++ SealMinerHashrates ++ SealMinerReadings ++ SealMinerPools
               ++ SealMinerTuningConfig,
           SealMinerBoards, SealMinerFans, SealMinerControl ++ SealMinerSetPools)}

Backends ==
  WhatsMiner \union AntMiner \union BraiinsBOSminer \union BraiinsWeb \union Axe \union Avalon
    \union ThirdParty \union Vendors
=============================================================================
