------------------------ MODULE OperationProperties ------------------------
(***************************************************************************)
(* What every backend promises of its control operations and its reads.    *)
(* The Miner trait promises it to the callers, the tables of the backends  *)
(* have to keep it; those that do not are named at the property.           *)
(***************************************************************************)
EXTENDS Operation, EpicSplit

Troubled == troubles > 0
Succeeded(c) == calls[c].end = "true"
Others(c) == Calls \ {c}
Overlapped(c) ==
  \E other \in Others(c) :
    Begun(other) /\ other \notin calls[c].after /\ c \notin calls[other].after
Alone(c) == ~Troubled /\ \A other \in Others(c) : ~Begun(other)

PoolCall(c) == calls[c].op = "set_pools"
OverlapsPools(c) ==
  \E other \in Others(c) :
    PoolCall(other) /\ other \notin calls[c].after /\ c \notin calls[other].after

(* Operations whose Ok(true) may be no more than a hope: the answer is     *)
(* ignored or need not come (a restart or a change of the mode cuts the    *)
(* connection; Avalon takes silence for a resume), or there is none: Proto *)
(* has no command that switches the light off.                             *)
MayOnlyHope ==
  {"WhatsMinerV2", "WhatsMinerV3", "LuxMiner"} \X {"restart"}
    \union {"WhatsMinerV2"} \X {"pause", "tune_mode"}
    \union {"WhatsMinerV3"} \X {"tune_mode"}
    \union {"AvalonA", "AvalonQ"} \X {"resume"}
    \union {<<"Proto", "light_off">>}

(* LuxMiner fills the first groups, whosever they are: when the groups were*)
(* not read, or are added and removed by another call or on the page of    *)
(* the miner at the same time, its pools join those of others.             *)
MayJoin(c) ==
  /\ backend.name = "LuxMiner" /\ PoolCall(c)
  /\ calls[c].read["pools"] = "unread" \/ OverlapsPools(c) \/ "pools" \in touched

(* Ok(true) of a control operation means the device has done all of it, or *)
(* was found so; an error or Ok(false) means that something went wrong:    *)
(* the device said no, lacks the setting, or another call came between.    *)
AnswersAreReal ==
  \A c \in Calls :
    /\ Succeeded(c) /\ <<backend.name, calls[c].op>> \notin MayOnlyHope /\ ~MayJoin(c) =>
         \A x \in Means(backend, calls[c].op) : x \in calls[c].did \/ AsWanted(c, x)
    /\ calls[c].end \in {"error", "false"} =>
         Troubled \/ lacks # "nothing" \/ Overlapped(c)

(* Backends whose set_pools_config takes several requests: storing first   *)
(* and switching over after, or removing, adding and filling groups.       *)
SwitchOver == {"BraiinsV2109", "BraiinsV2503", "BraiinsV2505", "Epic"}
ManyStepPools == SwitchOver \union {"LuxMiner"}

Quiet == \A c \in Calls : Begun(c) => Over(c)
Partial == Fragments \union {Half(c) : c \in Calls}

(* The last set_pools_config has succeeded, after all others were over, and*)
(* on LuxMiner with the groups it read.                                    *)
LastPools(c) ==
  /\ PoolCall(c) /\ Succeeded(c)
  /\ \A other \in Others(c) : PoolCall(other) => other \in calls[c].after
  /\ backend.name = "LuxMiner" => calls[c].read["pools"] # "unread"

(* When no call is under way and nobody changed the pools on the page of   *)
(* the miner: where they are one setting, they are all there.  Where they  *)
(* take several requests, the last set_pools_config, if it succeeded, has  *)
(* left its pools and no others and the miner mines on those, whatever was *)
(* left half done by the calls before it.                                  *)
PoolsAreWhole ==
  Quiet /\ "pools" \notin touched =>
    /\ backend.name # "LuxMiner" \/ (\A c \in Calls : ~PoolCall(c)) =>
         device["pools"] \notin Partial
    /\ backend.name \in SwitchOver /\ (\A c \in Calls : ~PoolCall(c)) =>
         device["active_pools"] = device["pools"]
    /\ \A c \in Calls : backend.name \in ManyStepPools /\ LastPools(c) =>
         /\ device["pools"] = Mark(c)
         /\ backend.name \in SwitchOver => device["active_pools"] = Mark(c)

(* What goes with an operation: WhatsMiner returns to the normal mode for  *)
(* a new limit, SealMiner reboots to use what was set.                     *)
Aside(name, op) ==
  {"history"}
    \union (IF op = "set_pools" THEN {"active_pools"} ELSE {})
    \union (IF op = "tune_power" /\ name \in {"WhatsMinerV2", "WhatsMinerV3"}
            THEN {"mode"} ELSE {})
    \union (IF op \in {"set_power_limit", "tune_power", "set_pools"} /\ name = "SealMiner"
            THEN {"boots"} ELSE {})

(* Backends that read a configuration object, change it and write all of   *)
(* it back.                                                                *)
Rewriters == {"AntMinerV2020", "Vnish", "Marathon"}

(* An operation changes what it is about and nothing else.  Where a whole  *)
(* object is written back, it undoes what somebody else has changed since  *)
(* it was read: it puts the setting back as the call found it.             *)
NothingElseIsWritten ==
  [][\A c \in Calls, x \in Cells :
       /\ calls'[c] # calls[c] /\ device'[x] # device[x]
       /\ x \notin Means(backend, calls[c].op) \union Aside(backend.name, calls[c].op)
       => /\ backend.name \in Rewriters /\ device'[x] = calls[c].read[x]
          /\ x \in touched \/ Overlapped(c)]_vars

(* The mode a WhatsMiner is in stays when its power limit is set.          *)
ModeStays(op) ==
  backend.name \in {"WhatsMinerV2", "WhatsMinerV3"} /\ op = "set_power_limit" /\ InMode(was)

(* After a call has set the limit or the mode, get_tuning_target reports   *)
(* what was set, where the backend reports a target at all.                *)
TargetReadsBack ==
  \A c \in Calls :
    /\ Succeeded(c) /\ Alone(c) /\ calls[c].op \in {"set_power_limit", "tune_power", "tune_mode"}
    /\ HasRead /\ reading.of = "TuningTarget" /\ reading.after = {c}
    /\ "TuningTarget" \in DOMAIN backend.readers /\ ~ModeStays(calls[c].op)
    => ReportedTarget(backend, "TuningTarget", reading.fields, reading.answers)
         = Wanted(c, IF calls[c].op = "tune_mode" THEN "mode" ELSE "target")

(* AntMiner sleeps in a work mode, and resume always asks for the normal.  *)
ForgetsItsMode == {"AntMinerV2020", "AntMinerV2023"}

(* pause followed by resume, and nothing else, leaves the device as it     *)
(* was: mining, with the same mode, target and pools.                      *)
PauseResumeKeepsTuning ==
  \A c, d \in Calls :
    /\ Succeeded(c) /\ calls[c].op = "pause"
    /\ Succeeded(d) /\ calls[d].op = "resume" /\ calls[d].after = {c}
    /\ \A other \in Calls \ {c, d} : ~Begun(other)
    /\ ~Troubled /\ Mining(was)
    => \A x \in Cells \ {"history"} :
         device[x] = was[x] \/ (x = "mode" /\ backend.name \in ForgetsItsMode)

(* The target a read reports was the one in force at some moment of it,    *)
(* whatever control operations did between its commands.  WhatsMinerV3     *)
(* takes the mode and the limit from two commands: when the mode changes   *)
(* between them, the two may not belong together.  Marathon reports the    *)
(* power target also in a mode that does not use it.                       *)
ReadingIsOfOneMoment ==
  HasRead /\ reading.of = "TuningTarget" =>
    \/ ReportedTarget(backend, "TuningTarget", reading.fields, reading.answers)
         \in seen \union {"none"}
    \/ /\ backend.name = "WhatsMinerV3"
       /\ \E a, b \in DOMAIN reading.answers :
            InMode(reading.answers[a]) /\ ~InMode(reading.answers[b])
    \/ backend.name = "Marathon" /\ \A a \in DOMAIN reading.answers : InMode(reading.answers[a])

-----------------------------------------------------------------------------
EverythingAnswered == [c \in Asked(backend, DataFields \union reading.fields) |-> device]
InFull(f) == Whole(backend, f, DataFields \union reading.fields, EverythingAnswered)
AsRead(f) == Whole(backend, f, reading.fields, reading.answers)

(* The fields some parsers look at and their getter does not collect: the  *)
(* axes and SealMiner conclude from the hashrate that the miner is mining, *)
(* the axes read from the boards that it overheats and compute the expected*)
(* hashrate from them, and the chains of VNish are tuned when the miner is *)
(* mining and have its serial number when they have none.                  *)
AlsoNeeds(name, f) ==
  CASE name \in {"BitaxeV2", "BitaxeV29", "NerdAxe", "SealMiner"} /\ f = "IsMining" -> {"Hashrate"}
    [] name \in {"BitaxeV2", "BitaxeV29", "NerdAxe"} /\ f = "Messages" -> {"Hashboards"}
    [] name \in {"BitaxeV2", "NerdAxe"} /\ f = "ExpectedHashrate" -> {"Hashboards"}
    [] name = "Vnish" /\ f = "Hashboards" -> {"IsMining", "SerialNumber"}
    [] OTHER -> {}

ReadFields ==
  {f \in Getters(backend) :
     Collects(f) \union AlsoNeeds(backend.name, f) \subseteq reading.fields}

(* A getter, get_data_filtered and get_data say the same of a field, when  *)
(* they collect what its parser needs.                                     *)
FieldsStandAlone ==
  HasRead /\ reading.of = "at_once" /\ reading.lost = {} =>
    \A f \in ReadFields : AsRead(f) = InFull(f)

(* Ways to say that nothing is known. *)
Blank == {"none", "empty", "error", "nothing", "assumed", "group_without_pools", "blank_pools"}

(* What parsers say instead, of the half that was answered: a miner is not *)
(* mining (for WhatsMiner it is) when that is unknown, a hashrate is then  *)
(* zero, the mode or the split counts as off.                              *)
Instead(name, f) ==
  CASE f = "IsMining" -> IF name \in {"WhatsMinerV1", "WhatsMinerV2", "WhatsMinerV3"}
                         THEN {"yes"} ELSE {"no"}
    [] f \in {"TuningTarget", "TuningConfig"} /\ name = "WhatsMinerV3" -> {"power"}
    [] f = "TuningTarget" /\ name = "Auradine" -> {"hashrate"}
    [] f = "PoolsConfig" /\ name = "Epic" -> {"group_of_summary"}
    [] f = "Hashrate" /\ name = "Epic" -> {"zero"}
    [] f = "ExpectedHashrate" /\ name \in {"BitaxeV2", "NerdAxe"} -> {"zero"}
    [] OTHER -> {}

(* A lost answer takes values out of a read and never changes one but in   *)
(* the few named ways: what is said is what would be said had everything   *)
(* been answered, or blank, or what this parser says instead.              *)
LossOnlyRemoves ==
  HasRead /\ reading.of = "at_once" =>
    \A f \in ReadFields : \A p \in DOMAIN InFull(f) :
      AsRead(f)[p] \in Blank \union Instead(backend.name, f) \union {InFull(f)[p]}

(* Backends that find some parts of a board by its number and some by its  *)
(* place in a list, or count the boards that are on: behind a board that is*)
(* off or not in the lists the two are of different boards.                *)
MixesBoards ==
  {"WhatsMinerV3", "AvalonA", "AvalonQ", "LuxMiner", "Epic", "Marathon", "Auradine"}

AllThere(slot) == 1..slot \subseteq reading.reported \intersect reading.on

(* The rows are boards: all parts of a row are of one board and no board   *)
(* is in two rows, also when a board is off or missing from the lists;     *)
(* with the backends above as far as all boards before are there and on.   *)
RowsAreBoards ==
  HasRead =>
  LET parts == backend.rows["Hashboards"].parts
      Entry(p, row) == EntryAt(parts[p].key, row, reading.reported, reading.on)
  IN  \A p, q \in DOMAIN parts, row, other \in Boards :
        /\ Entry(p, row) # 0 /\ Entry(q, other) # 0
        /\ backend.name \in MixesBoards => AllThere(row) /\ AllThere(other)
        => (Entry(p, row) = Entry(q, other) <=> row = other)

(* The ratios set_pools_config of ePIC sends for two or three groups are   *)
(* hundredths that add up to a hundred, whatever the quotas and also when  *)
(* their sum wraps around; otherwise each is the share of its quota to     *)
(* within one hundredth, and a group gets nothing only if that is all it   *)
(* should have.                                                            *)
(* (Asked of one read only, for the quotas do not depend on the state.)    *)
EpicRatiosAreShares ==
  /\ backend.name = "Epic" /\ reading.of = "at_once"
  /\ reading.fields = {"PoolsConfig"} /\ reading.lost = {}
  => SplitsByQuota

(* Python and Rust say of get_is_mining that it tells whether the miner is *)
(* mining; on its own it does not do that for every backend.               *)
IsMiningAlone ==
  HasRead /\ reading.fields = {"IsMining"} /\ reading.lost = {} /\ awaited = 0 =>
    (AsRead("IsMining").value = "yes" <=> Mining(device))
=============================================================================
