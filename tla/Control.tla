------------------------------- MODULE Control -------------------------------
(***************************************************************************)
(* Control operations on one miner (the setters of asic-rs-core/src/traits/*)
(* miner.rs as the backends implement them).  A call sends the requests of *)
(* its operation one after another and awaits each; between two of them    *)
(* anything may happen: a request is refused or its answer lost, the future*)
(* of the call is dropped, another task makes a call on the same device,   *)
(* somebody changes a setting on the page of the miner.                    *)
(***************************************************************************)
EXTENDS ControlSteps, Telemetry

CONSTANTS
  Table,          \* the backends: locations, readers, rows and operations of each
  Callers,        \* who may make a call: the value each of them sets
  Halves,         \* the same when only a part of it is there
  MaxTroubles     \* how often something goes wrong

VARIABLES
  backend,     \* the backend of the miner
  device,      \* the settings of the device
  was,         \* the settings it had at first
  lacks,       \* a setting this device does not have, or "nothing"
  calls,       \* the calls that are made
  awaited,     \* how many calls may be made
  troubles,    \* how often something has gone wrong
  touched      \* the settings that were changed on the page of the miner

cvars == <<backend, device, was, lacks, calls, awaited, troubles, touched>>

Calls == 1..Len(Callers)
Mark(c) == Callers[c]
Half(c) == Halves[c]

(* Groups of pools that are no caller's: there are none, one of those that *)
(* were, one or two without pools, or groups of several callers.           *)
Fragments == {"none", "fewer", "group", "groups", "mixed"}

(* What a caller sets can be told from what the model says of settings.    *)
ASSUME CallerAssumption ==
  /\ Callers \in Seq(STRING) /\ Halves \in [Calls -> STRING]
  /\ \A c \in Calls :
       /\ {Mark(c), Half(c)} \intersect (Fragments \union {"apply", "unread"}) = {}
       /\ Half(c) \notin {"old", "elsewhere"} \union {Mark(d) : d \in Calls}
  /\ MaxTroubles \in Nat

(* What an operation can set, and what it can only read.  Sleeping is a    *)
(* mode on some devices, on the others mining is stopped and started.      *)
Settings ==
  {"light", "running", "mode", "target", "pools", "active_pools", "fan", "boots", "reset",
   "firmware", "overclock"}
Facts == {"preset", "model", "history", "split"}
Cells == Settings \union Facts

Operations(b) == b.operations

(* The cells some step of the backend is about. *)
Used(b) ==
  UNION {UNION {Operations(b)[o][n].cells \union Operations(b)[o][n].kept :
                  n \in DOMAIN Operations(b)[o]} : o \in DOMAIN Operations(b)}

Needed(b) ==
  UNION {UNION {Operations(b)[o][n].cells : n \in {m \in DOMAIN Operations(b)[o] :
                                                     Operations(b)[o][m].does = "needs"}} :
           o \in DOMAIN Operations(b)}

(* A device sleeps in a mode if the backend pauses it that way. *)
SleepsInMode(b) ==
  /\ "pause" \in DOMAIN Operations(b)
  /\ \E n \in DOMAIN Operations(b)["pause"] : "mode" \in Operations(b)["pause"][n].cells

Modes(b) ==
  IF "mode" \notin Used(b) THEN {"normal"}
  ELSE {"normal", "low"} \union (IF SleepsInMode(b) THEN {"sleep"} ELSE {})

Device(running, mode, history, split) ==
  [[x \in Cells |-> "old"] EXCEPT !["light"] = "off", !["running"] = running,
                                 !["mode"] = mode, !["history"] = history, !["split"] = split]

(* What the operation is asked to do, whatever the backend makes of it. *)
Meant(sleeps, op) ==
  CASE op \in {"light_on", "light_off"} -> {"light"}
    [] op \in {"set_power_limit", "tune_power"} -> {"target"}
    [] op = "tune_mode" -> {"mode"}
    [] op = "set_pools" -> {"pools"}
    [] op \in {"pause", "resume"} -> IF sleeps THEN {"mode"} ELSE {"running"}
    [] op = "set_fan" -> {"fan"}
    [] op = "restart" -> {"boots"}
    [] op = "factory_reset" -> {"reset"}
    [] op = "upgrade_firmware" -> {"firmware"}

Means(b, op) == Meant(SleepsInMode(b), op)

Idle ==
  [op |-> "none", at |-> 1, read |-> [x \in Cells |-> "unread"], did |-> {}, end |-> "none",
   after |-> {}]

Begun(c) == calls[c].op # "none"
Over(c) == calls[c].end # "none"
Steps(c) == Operations(backend)[calls[c].op]
Due(c) == Begun(c) /\ ~Over(c) /\ calls[c].at \in DOMAIN Steps(c)
Current(c) == Steps(c)[calls[c].at]

(* What can be said of the state: the values a cell may have, the requests *)
(* an operation may consist of, the calls of those operations.             *)
Values ==
  {"off", "on", "mining", "paused", "normal", "low", "high", "sleep", "old", "elsewhere", "apply",
   "unread"} \union Fragments \union {Mark(c) : c \in Calls} \union {Half(c) : c \in Calls}

Names ==
  {"light_on", "light_off", "set_power_limit", "tune_power", "tune_mode", "set_pools", "pause",
   "resume", "set_fan", "restart", "factory_reset", "upgrade_firmware"}

Failures == {"error", "false", "next"}

Requests ==
  {s \in [does : {"write", "read", "erase", "add", "fill", "needs", "done_if", "verify"},
          cells : SUBSET Cells, kept : SUBSET Cells,
          fail : [refused : Failures, lost : Failures], then : {"next", "true"}] :
     s.cells \intersect s.kept = {}}

CallRecords ==
  [op : Names \union {"none"}, at : Nat \ {0}, read : [Cells -> Values], did : SUBSET Cells,
   end : {"none", "error", "false", "true", "dropped"}, after : SUBSET Calls]

ControlTypeOK ==
  /\ backend \in Table
  /\ device \in [Cells -> Values] /\ was \in [Cells -> Values]
  /\ lacks \in Cells \union {"nothing"}
  /\ calls \in [Calls -> CallRecords]
  /\ \A c \in Calls : IF Begun(c) THEN calls[c].op \in DOMAIN Operations(backend)
                      ELSE calls[c] = Idle
  /\ awaited \in 0..Len(Callers)
  /\ troubles \in 0..MaxTroubles
  /\ touched \in SUBSET Cells

ControlInit ==
  /\ backend \in Table
  /\ \E running \in {"mining", "paused"}, mode \in Modes(backend), split \in {"off", "on"} :
       /\ split = "on" => "hashratesplit_config" \in backend.commands
       /\ device = Device(running, mode, IF mode = "sleep" THEN "low" ELSE "none", split)
  /\ was = device
  /\ lacks \in {"nothing"} \union Needed(backend)
  /\ calls = [c \in Calls |-> Idle]
  /\ awaited \in 0..Len(Callers)
  /\ troubles = 0 /\ touched = {}

-----------------------------------------------------------------------------
(* The value a cell gets. *)
Wanted(c, x) ==
  CASE x = "light" -> IF calls[c].op = "light_on" THEN "on" ELSE "off"
    [] x = "running" -> IF calls[c].op = "pause" THEN "paused" ELSE "mining"
    [] x = "mode" ->
         CASE calls[c].op = "pause" -> "sleep"
           [] calls[c].op = "tune_mode" -> "high"
           [] calls[c].op = "resume" /\ calls[c].read["history"] \notin {"unread", "none"} ->
                calls[c].read["history"]
           [] OTHER -> "normal"
    [] OTHER -> Mark(c)

(* What was read is how the operation would leave it: to resume, anything  *)
(* but stopped.                                                            *)
AsWanted(c, x) ==
  IF calls[c].op = "resume" THEN calls[c].read[x] \notin {"unread", "sleep", "paused"}
  ELSE calls[c].read[x] = Wanted(c, x)

(* A device keeps the mode it had before it was put to sleep, and takes    *)
(* the pools that are stored when it is told to.                           *)
Settled(d) ==
  [d EXCEPT !["history"] = IF d["mode"] = "sleep" /\ device["mode"] # "sleep"
                           THEN device["mode"] ELSE @,
            !["active_pools"] = IF @ = "apply" THEN d["pools"] ELSE @]

Written(c, s) ==
  Settled([x \in Cells |->
             CASE x \in s.cells -> IF x = "active_pools" THEN "apply" ELSE Wanted(c, x)
               [] x \in s.kept -> calls[c].read[x]
               [] OTHER -> device[x]])

(* One group is removed; of the groups of several callers more than one    *)
(* goes, if it is those that were read.                                    *)
Erased(c, s) ==
  [x \in Cells |->
     CASE x \notin s.cells -> device[x]
       [] x \in s.cells /\ device[x] \in {"none", "fewer", "group"} -> "none"
       [] x \in s.cells /\ device[x] = "groups" -> "group"
       [] x \in s.cells /\ device[x] = "mixed" /\ calls[c].read[x] # "mixed" -> "mixed"
       [] OTHER -> "fewer"]

(* A group joins what is there. *)
Added(s) ==
  [x \in Cells |->
     CASE x \notin s.cells -> device[x]
       [] x \in s.cells /\ device[x] = "none" -> "group"
       [] x \in s.cells /\ device[x] = "group" -> "groups"
       [] OTHER -> "mixed"]

(* The pools of one group join what is there. *)
Filled(c, s) ==
  [x \in Cells |->
     CASE x \notin s.cells -> device[x]
       [] x \in s.cells /\ device[x] = "groups" -> Half(c)
       [] x \in s.cells /\ device[x] = Half(c) -> Mark(c)
       [] OTHER -> "mixed"]

After(c, s) ==
  CASE s.does = "write" -> Written(c, s)
    [] s.does = "erase" -> Erased(c, s)
    [] s.does = "add" -> Added(s)
    [] s.does = "fill" -> Filled(c, s)
    [] OTHER -> device

(* The cells that are the call's own work now. *)
Done(c, s) ==
  CASE s.does = "write" -> s.cells
    [] s.does = "fill" -> {x \in s.cells : device[x] = Half(c)}
    [] OTHER -> {}

(* Of what was read one group after the other is removed: a single one once*)
(* and none when there was none or it was not read.                        *)
Single == {"fewer", "group"}

HasErased(c) == \E n \in 1..(calls[c].at - 1) : Steps(c)[n].does = "erase"

IsRequest(c) ==
  \/ Current(c).does \in {"write", "read", "add", "fill"}
  \/ /\ Current(c).does = "erase"
     /\ \E x \in Current(c).cells :
          /\ calls[c].read[x] \notin {"unread", "none"}
          /\ HasErased(c) => calls[c].read[x] \notin Single

-----------------------------------------------------------------------------
(* Calls are begun one after the other, each before the others are over or *)
(* when they are.                                                          *)
Start(c, op) ==
  /\ c <= awaited
  /\ ~Begun(c) /\ \A before \in Calls : before < c => Begun(before)
  /\ op \in DOMAIN Operations(backend)
  /\ calls' = [calls EXCEPT ![c] = [Idle EXCEPT !.op = op, !.after = {b \in Calls : Over(b)}]]
  /\ UNCHANGED <<backend, device, was, lacks, awaited, troubles, touched>>

Goes(c, end) ==
  IF end = "next" THEN [calls[c] EXCEPT !.at = @ + 1] ELSE [calls[c] EXCEPT !.end = end]

(* The device does what it is asked and says so. *)
Answered(c) ==
  /\ Due(c) /\ IsRequest(c)
  /\ LET s == Current(c)
     IN  /\ device' = After(c, s)
         /\ calls' = [calls EXCEPT ![c] =
                        [Goes(c, s.then) EXCEPT
                           !.did = @ \union Done(c, s),
                           !.read = [x \in Cells |-> IF s.does = "read" /\ x \in s.cells
                                                     THEN device[x] ELSE @[x]]]]
  /\ UNCHANGED <<backend, was, lacks, awaited, troubles, touched>>

(* The device says no and does nothing. *)
Refused(c) ==
  /\ Due(c) /\ IsRequest(c) /\ troubles < MaxTroubles
  /\ calls' = [calls EXCEPT ![c] = Goes(c, Current(c).fail.refused)]
  /\ troubles' = troubles + 1
  /\ UNCHANGED <<backend, device, was, lacks, awaited, touched>>

(* No answer: the device may have done it or not. *)
Lost(c) ==
  /\ Due(c) /\ IsRequest(c) /\ troubles < MaxTroubles
  /\ \E executed \in BOOLEAN :
       /\ device' = IF executed THEN After(c, Current(c)) ELSE device
       /\ calls' = [calls EXCEPT ![c] =
                      [Goes(c, Current(c).fail.lost) EXCEPT
                         !.did = IF executed THEN @ \union Done(c, Current(c)) ELSE @]]
  /\ troubles' = troubles + 1
  /\ UNCHANGED <<backend, was, lacks, awaited, touched>>

(* A step that looks at what was read, without a request. *)
Looks(c) ==
  /\ Due(c) /\ ~IsRequest(c)
  /\ LET s == Current(c)
     IN \E x \in s.cells :
          calls' = [calls EXCEPT ![c] =
                      Goes(c, CASE s.does = "needs" -> IF lacks = x THEN s.fail.refused ELSE "next"
                                [] s.does = "erase" -> "next"
                                [] s.does = "done_if" -> IF AsWanted(c, x) THEN "true" ELSE "next"
                                [] s.does = "verify" -> IF calls[c].read[x] = Wanted(c, x)
                                                        THEN "true" ELSE "false")]
  /\ UNCHANGED <<backend, device, was, lacks, awaited, troubles, touched>>

(* Ok(true) at the end of the requests. *)
Return(c) ==
  /\ Begun(c) /\ ~Over(c) /\ calls[c].at > Len(Steps(c))
  /\ calls' = [calls EXCEPT ![c].end = "true"]
  /\ UNCHANGED <<backend, device, was, lacks, awaited, troubles, touched>>

(* The future of the call is dropped while it awaits an answer. *)
Drop(c) ==
  /\ Due(c) /\ troubles < MaxTroubles
  /\ calls' = [calls EXCEPT ![c].end = "dropped"]
  /\ troubles' = troubles + 1
  /\ UNCHANGED <<backend, device, was, lacks, awaited, touched>>

(* A setting is changed on the page of the miner. *)
Elsewhere ==
  /\ troubles < MaxTroubles /\ \E c \in Calls : Begun(c) /\ ~Over(c)
  /\ \E x \in Used(backend) \intersect {"pools", "target", "fan", "overclock"} :
       device' = [device EXCEPT ![x] = "elsewhere"] /\ touched' = touched \union {x}
  /\ troubles' = troubles + 1
  /\ UNCHANGED <<backend, was, lacks, calls, awaited>>

ControlNext ==
  \/ \E c \in Calls, op \in DOMAIN Operations(backend) : Start(c, op)
  \/ \E c \in Calls :
       Answered(c) \/ Refused(c) \/ Lost(c) \/ Looks(c) \/ Return(c) \/ Drop(c)
  \/ Elsewhere
=============================================================================
