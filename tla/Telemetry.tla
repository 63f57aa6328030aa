------------------------------ MODULE Telemetry ------------------------------
(***************************************************************************)
(* What a read returns: the getters of asic-rs-core/src/traits/miner.rs    *)
(* collect the fields they need and hand what was answered to the parser   *)
(* of the backend.  An answer is the device as it was when it answered.    *)
(***************************************************************************)
EXTENDS TelemetryTables, FiniteSetsExt

DataFields ==
  {"Mac", "SerialNumber", "Hostname", "ApiVersion", "FirmwareVersion", "ControlBoardVersion",
   "Hashboards", "Chips", "Hashrate", "ExpectedHashrate", "Fans", "PsuFans",
   "AverageTemperature", "FluidTemperature", "Wattage", "TuningTarget", "ScaledTuningTarget",
   "LightFlashing", "Messages", "Uptime", "IsMining", "Pools"}

ConfigFields == {"PoolsConfig", "TuningConfig", "FanConfig", "ScalingConfig"}

(* The fields each getter collects.  The chips have no getter of their own,*)
(* and the average temperature is computed from the boards.                *)
Getters(b) ==
  (DataFields \ {"Chips", "AverageTemperature"})
    \union (ConfigFields \intersect DOMAIN b.readers)

(* Get_hashboards collects the boards only. *)
CollectsItself(f) == IF f = "ScaledTuningTarget" THEN {"TuningTarget"} ELSE {f}

Collects(f) ==
  CASE f = "Hashboards" -> {"Hashboards", "Chips"}
    [] f = "ScaledTuningTarget" -> {"TuningTarget"}
    [] OTHER -> {f}

(* What the trait answers for a backend without a parser. *)
DefaultReader(f) ==
  Never(CASE f \in {"Messages", "Pools", "PsuFans", "Fans"} -> "empty"
          [] f = "IsMining" -> "yes"
          [] OTHER -> "none")

ReaderOf(b, f) ==
  IF f \in DOMAIN b.readers THEN b.readers[f] ELSE DefaultReader(f)

(* The commands the collector sends for the fields. *)
Asked(b, fields) == {s[2] : s \in {t \in b.located : t[1] \in fields}}

(* What is there of the fields, when these commands were answered. *)
Sources(b, fields, answers) ==
  {s \in b.located : s[1] \in fields /\ s[2] \in DOMAIN answers}

-----------------------------------------------------------------------------
Mining(d) == d["running"] = "mining" /\ d["mode"] # "sleep"
InMode(d) == d["mode"] \notin {"normal", "sleep"}

(* The target in force: a mode other than the normal one overrides it. *)
Target(d) == IF InMode(d) THEN d["mode"] ELSE d["target"]

Told(when, d) ==
  CASE when = "always" -> TRUE
    [] when = "mining" -> Mining(d)
    [] when = "mode" -> InMode(d)
    [] when = "split" -> d["split"] = "on"

(* The first alternative whose sources are there and tell it. *)
Usable(b, f, fields, answers) ==
  LET tries == ReaderOf(b, f).tries
  IN  {n \in DOMAIN tries :
         /\ tries[n].needs \subseteq Sources(b, fields, answers)
         /\ \A s \in tries[n].needs : Told(tries[n].when, answers[s[2]])}

Reads(b, f, fields, answers) ==
  LET usable == Usable(b, f, fields, answers)
  IN  IF usable = {} THEN ReaderOf(b, f).otherwise
      ELSE ReaderOf(b, f).tries[Min(usable)].says

(* The target a read reports, by the answer it is taken from. *)
ReportedTarget(b, f, fields, answers) ==
  LET usable == Usable(b, f, fields, answers)
      try == ReaderOf(b, f).tries[Min(usable)]
      d == answers[(CHOOSE s \in try.needs : TRUE)[2]]
  IN  IF usable = {} THEN "none"
      ELSE CASE try.says = "mode" -> d["mode"]
             [] try.says = "power" -> d["target"]
             [] OTHER -> Target(d)

(* The parts of the rows that are there. *)
RowParts(b, f, fields, answers) ==
  LET parts == b.rows[f].parts
  IN  [p \in DOMAIN parts |->
         IF \E needs \in parts[p].needs : needs \subseteq Sources(b, fields, answers)
         THEN "given" ELSE parts[p].otherwise]

(* The same for a list that is told in rows and for any other value.       *)
Whole(b, f, fields, answers) ==
  IF f \in DOMAIN b.rows THEN RowParts(b, f, fields, answers)
  ELSE [value |-> Reads(b, f, fields, answers)]

-----------------------------------------------------------------------------
(* The boards that are in the device's answers, and those that are on. *)
Nth(set, n) ==
  IF n \in 1..Cardinality(set)
  THEN CHOOSE x \in set : Cardinality({y \in set : y <= x}) = n ELSE 0

(* The entry a part of the row is taken from: the board it belongs to.     *)
EntryAt(key, slot, reported, on) ==
  CASE key \in {"id", "number", "serial"} -> IF slot \in reported THEN slot ELSE 0
    [] key = "position" -> Nth(reported, slot)
    [] key = "active" ->
         IF slot \in on THEN Nth(reported, Cardinality({x \in on : x <= slot})) ELSE 0
=============================================================================
