---------------------------- MODULE MCDiscovery -----------------------------
(***************************************************************************)
(* Discovery with the default registry.  The replies are those that tell   *)
(* its entries apart, the mixed ones included: a custom firmware whose     *)
(* version names the ANTMINER it runs on, a digest challenge that both     *)
(* Marathon and the stock AntMiner accept, a NerdAxe page that says AxeOS. *)
(***************************************************************************)
EXTENDS Discovery, Registry

VersionReplies ==
  {RpcReply(ms) : ms \in {{}, {"ANTMINER"}, {"LUXMINER", "ANTMINER"},
                          {"BOSMINER"}, {"GCMINER"}, {"KAONSU", "ANTMINER"}}}

DevDetailsReplies ==
  {RpcReply(ms) : ms \in {{"BITMICRO"}, {"ANTMINER"}, {"GCMINER"}, {"VNISH"}}}

WebReplies ==
  {WebReply(401, {"realm antMiner"}),
   WebReply(401, {"realm antMiner", "algorithm MD5"}),
   WebReply(307, {"location https"}),
   WebReply(200, {}),
   WebReply(200, {"AnthillOS"}),
   WebReply(200, {"Miner Web Dashboard"}),
   WebReply(200, {"Nerd", "AxeOS"})}

MCFirmware == EntrySet
MCStock == {f \in EntrySet : EntryOf[f].stock}
MCRank == Position
MCCommand == {"version", "devdetails", "/"}
MCCommandsOf == [f \in EntrySet |-> EntryOf[f].commands]
MCReply == VersionReplies \union DevDetailsReplies \union WebReplies
MCRepliesOf == [c \in MCCommand |->
  CASE c = "version" -> VersionReplies
    [] c = "devdetails" -> DevDetailsReplies
    [] OTHER -> WebReplies]
MCAccepts == [f \in EntrySet |-> {r \in MCReply : Identifies(f, r)}]
MCUnboundedBuild == BuildsWithoutTimeout
=============================================================================
