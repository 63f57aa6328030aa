--------------------------- MODULE TelemetryTables ---------------------------
(***************************************************************************)
(* The vocabulary of the telemetry half of a backend: what get_locations,  *)
(* get_configs_locations and the parse_* functions of its mod.rs say.      *)
(*                                                                         *)
(* The locations of a backend are a relation between fields and commands.  *)
(* A pair of it is a source: what one command answers for one field.  The  *)
(* key and the extractor of a location say where in the answer the value   *)
(* is, which is left out.                                                  *)
(*                                                                         *)
(* A reader is what a parse_* function does with the sources: alternatives *)
(* in the order they are tried, and what it returns when none of them can  *)
(* be read.  The lists (boards, fans) are rows whose parts are looked up   *)
(* by a key, each in a source of its own.                                  *)
(***************************************************************************)
EXTENDS Integers, Sequences, Tables

(* The sources of the fields that one command answers. *)
Locate(command, fields) == fields \X {command}

(* An alternative needs its sources and says something when the device is  *)
(* as "when" tells: "always", "mining" or "mode" (it is tuned to a mode).  *)
When(when, needs, says) == [when |-> when, needs |-> needs, says |-> says]
Says(needs, says) == When("always", needs, says)

Reader(alternatives, otherwise) == [tries |-> alternatives, otherwise |-> otherwise]

(* The value the device gives for the field, from any of the commands. *)
Given(field, commands) ==
  Reader([n \in DOMAIN commands |-> Says({<<field, commands[n]>>}, "given")], "none")

(* Each field of a set read from its location on one command. *)
Plain(command, fields) == [f \in fields |-> Given(f, <<command>>)]

(* A list of messages, fans or pools: empty when its source is missing. *)
Lists(command, fields) ==
  [f \in fields |-> Reader(<<Says({<<f, command>>}, "given")>>, "empty")]

(* A yes or no that a source tells. *)
Tells(source) == <<When("mining", {source}, "yes"), Says({source}, "no")>>

(* A function of the trait that the backend does not implement. *)
Never(answer) == Reader(<<>>, answer)

(* The mode is not looked at. *)
PowerOnly(source) == <<Says({source}, "power")>>

(* The tuning target from what one command says of the mode and the limit. *)
ModeOrPower(source) == <<When("mode", {source}, "mode"), Says({source}, "power")>>

-----------------------------------------------------------------------------
(* The parts of a row, each found in the source under the key of the row:  *)
(* "position" in an array, "number" in the name, "id" in the entry,        *)
(* "active" (its place among the boards that are on) or "serial".  Of the  *)
(* alternatives, sets of sources, one must be there; without them the part *)
(* is nothing, or what is assumed of it.                                   *)
PartsOf(names, alternatives, key) ==
  [p \in names |-> [needs |-> alternatives, key |-> key, otherwise |-> "nothing"]]

Parts(names, source, key) == PartsOf(names, {{source}}, key)

Assumed(names, source, key) ==
  [p \in names |-> [needs |-> {{source}}, key |-> key, otherwise |-> "assumed"]]

(* The rows are the boards the model table expects, a "single" one, or     *)
(* those that are reported.                                                *)
Rows(slots, parts) == [slots |-> slots, parts |-> parts]
=============================================================================
