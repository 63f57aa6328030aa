------------------------------ MODULE Registry ------------------------------
(***************************************************************************)
(* default_firmware_registry with every firmware feature enabled, and what *)
(* each entry (asic-rs-firmwares/<firmware>/src/firmware.rs) says: whether *)
(* it is stock, the commands it is discovered by, the replies it           *)
(* identifies, and what its build_miner asks the device.                   *)
(*                                                                         *)
(* A reply is reduced to the marks the entries look for.  The text of an   *)
(* RPC reply is upper-cased before the search, so its marks are upper-case;*)
(* the marks of a web reply are texts of its body and header conditions.   *)
(*                                                                         *)
(*   model     requests tried in turn for the model                        *)
(*   lenient   a model name it does not know is built as an unknown model  *)
(*   version   requests tried in turn for the firmware version, if any     *)
(*   slices    cuts the version text by byte positions, which panics when  *)
(*             one is inside a character                                   *)
(*   backends  backend for each interval of versions, in increasing order  *)
(*   blind     backend without a version                                   *)
(*                                                                         *)
(* A request goes over RPC, GraphQL or the shared web client, which all    *)
(* have timeouts, or over a "client" of build_discovery_client, which has  *)
(* none.                                                                   *)
(***************************************************************************)
EXTENDS Sequences, Integers, TLC

(* FirmwareIdentification::identify_web: a text of the body, or a header   *)
(* of a reply with a given status.                                         *)
AnyStatus == 0
Body(text) == [status |-> AnyStatus, mark |-> text]
Header(code, text) == [status |-> code, mark |-> text]

(* The defaults of the traits: not stock, identify_rpc and identify_web    *)
(* false, one backend whatever the version, the version not asked for.     *)
EntryDefaults ==
  [stock |-> FALSE, rpc |-> {}, web |-> {}, lenient |-> FALSE,
   version |-> <<>>, slices |-> FALSE, hardware |-> FALSE]

Entry(own) ==
  [x \in DOMAIN EntryDefaults \union DOMAIN own |->
     IF x \in DOMAIN own THEN own[x] ELSE EntryDefaults[x]]

StockEntry(own) == [Entry(own) EXCEPT !.stock = TRUE]

Braiins == Entry(
  [commands |-> {"version", "/"},
   rpc |-> {"BOSMINER", "BOSER"},
   web |-> {Body("Braiins OS")},
   model |-> <<"graphql">>,
   version |-> <<"graphql">>,
   backends |-> <<"BraiinsV2109", "BraiinsV2503", "BraiinsV2505",
                  "BraiinsV2507", "BraiinsV2604">>,
   blind |-> "BraiinsV2109"])

LuxMiner == Entry(
  [commands |-> {"/", "version"},
   rpc |-> {"LUXMINER"},
   web |-> {Body("Luxor Firmware")},
   model |-> <<"rpc">>,
   backends |-> <<"LuxMinerV1">>,
   blind |-> "LuxMinerV1"])

Marathon == Entry(
  [commands |-> {"version"},
   rpc |-> {"MARAFW", "KAONSU"},
   web |-> {Header(401, "algorithm MD5")},
   model |-> <<"rpc">>,
   backends |-> <<"MaraV1">>,
   blind |-> "MaraV1"])

Vnish == Entry(
  [commands |-> {"/", "version"},
   rpc |-> {"VNISH"},
   web |-> {Body("AnthillOS")},
   model |-> <<"web">>,
   version |-> <<"web">>,
   backends |-> <<"VnishV120">>,
   blind |-> "VnishV120"])

EPic == Entry(
  [commands |-> {"/"},
   web |-> {Body("Miner Web Dashboard")},
   model |-> <<"client">>,
   lenient |-> TRUE,
   version |-> <<"client">>,
   backends |-> <<"PowerPlayV1">>,
   blind |-> "PowerPlayV1"])

(* The model is asked for over the API that the version calls for: a first *)
(* get_version decides which one, before the model ("gate" below).         *)
WhatsMiner == StockEntry(
  [commands |-> {"devdetails", "/"},
   rpc |-> {"BITMICRO", "BTMINER"},
   web |-> {Header(307, "location https"), Body("/cgi-bin/luci")},
   model |-> <<"rpc">>,
   version |-> <<"rpc">>,
   slices |-> TRUE,
   backends |-> <<"WhatsMinerV1", "WhatsMinerV2", "WhatsMinerV3">>,
   blind |-> "WhatsMinerV1"])

AntMiner == StockEntry(
  [commands |-> {"version", "/"},
   rpc |-> {"ANTMINER"},
   web |-> {Header(401, "realm antMiner")},
   model |-> <<"client">>,
   version |-> <<"client">>,
   backends |-> <<"AntMinerV2020", "AntMinerV202307">>,
   blind |-> "AntMinerV202307"])

SealMiner == StockEntry(
  [commands |-> {"version", "/"},
   rpc |-> {"BDMINER"},
   web |-> {Body("amazeui")},
   model |-> <<"rpc", "client">>,
   version |-> <<"rpc", "client">>,
   slices |-> TRUE,
   backends |-> <<"SealMinerV2025">>,
   blind |-> "SealMinerV2025"])

(* Its two backends are for two models, not for two versions. *)
AvalonMiner == StockEntry(
  [commands |-> {"version", "/"},
   rpc |-> {"AVALON"},
   web |-> {Body("Avalon")},
   model |-> <<"rpc">>,
   backends |-> <<"AvalonMiner">>,
   blind |-> "AvalonMiner"])

Auradine == StockEntry(
  [commands |-> {"version", "devdetails"},
   rpc |-> {"GCMINER", "FLUXOS"},
   model |-> <<"rpc">>,
   version |-> <<"rpc">>,
   backends |-> <<"AuradineV1">>,
   blind |-> "AuradineV1"])

NerdAxe == StockEntry(
  [commands |-> {"/"},
   web |-> {Body("Nerd")},
   model |-> <<"web">>,
   version |-> <<"web">>,
   backends |-> <<"NerdAxeV1">>,
   blind |-> "NerdAxeV1"])

Proto == StockEntry(
  [commands |-> {"/"},
   web |-> {Body("Proto OS")},
   model |-> <<"web">>,
   version |-> <<"web">>,
   hardware |-> TRUE,
   backends |-> <<"ProtoV1">>,
   blind |-> "ProtoV1"])

(* Its version is never asked for, so the second backend is never built. *)
Bitaxe == StockEntry(
  [commands |-> {"/"},
   web |-> {Body("AxeOS")},
   model |-> <<"web">>,
   backends |-> <<"Bitaxe290", "Bitaxe200", "Bitaxe290">>,
   blind |-> "Bitaxe290"])

-----------------------------------------------------------------------------
EntryOf ==
  [Braiins |-> Braiins, LuxMiner |-> LuxMiner, Marathon |-> Marathon,
   Vnish |-> Vnish, EPic |-> EPic, WhatsMiner |-> WhatsMiner,
   AntMiner |-> AntMiner, SealMiner |-> SealMiner,
   AvalonMiner |-> AvalonMiner, Auradine |-> Auradine, NerdAxe |-> NerdAxe,
   Proto |-> Proto, Bitaxe |-> Bitaxe]

Entries == <<"Braiins", "LuxMiner", "Marathon", "Vnish", "EPic",
             "WhatsMiner", "AntMiner", "SealMiner", "AvalonMiner", "Auradine",
             "NerdAxe", "Proto", "Bitaxe">>

EntrySet == DOMAIN EntryOf

Position == [f \in EntrySet |-> CHOOSE i \in DOMAIN Entries : Entries[i] = f]

RpcReply(ms) == [kind |-> "rpc", marks |-> ms, status |-> 200]
WebReply(s, ms) == [kind |-> "web", marks |-> ms, status |-> s]

(* What the discovery loops ask of an entry for a reply. *)
Identifies(f, r) ==
  IF r.kind = "rpc"
  THEN EntryOf[f].rpc \intersect r.marks # {}
  ELSE \E w \in EntryOf[f].web : w.mark \in r.marks /\ w.status \in {AnyStatus, r.status}

(* Entries whose build_miner may wait for a client that has no timeout. *)
BuildsWithoutTimeout ==
  {f \in EntrySet : \E i \in DOMAIN EntryOf[f].model : EntryOf[f].model[i] = "client"}
=============================================================================
