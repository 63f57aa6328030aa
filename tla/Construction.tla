---------------------------- MODULE Construction ----------------------------
(***************************************************************************)
(* FirmwareEntry::build_miner, the step Discovery takes as one: the device *)
(* is asked for its model, its firmware version and (Proto) its hardware   *)
(* in separate requests, each of which may go unanswered, and the answers  *)
(* choose the backend (MinerConstructor::new).  Between two requests the   *)
(* device may be flashed with another version of the firmware.             *)
(*                                                                         *)
(* A version is reduced to the interval of versions it falls in, the       *)
(* position of its backend in the entry.                                   *)
(***************************************************************************)
EXTENDS Registry, FiniteSets

CONSTANT MaxReflashes    \* bound on the flashes during one build

ASSUME ReflashAssumption == MaxReflashes \in Nat

VARIABLES
  fw,          \* the entry that was identified
  interval,    \* where the version of the device is now
  was,         \* every interval it has been in during the build
  reflashes,
  at,          \* what is asked next
  attempt,     \* which of the alternatives is tried
  overV3,      \* WhatsMiner: the API the first get_version chose
  learnt,      \* the interval the version answer told, or Unknown
  silent,      \* version questions that got no usable answer
  ending,
  backend

bvars == <<fw, interval, was, reflashes, at, attempt, overV3, learnt,
           silent, ending, backend>>

Unknown == 0
NoBackend == "none"
E == EntryOf[fw]
Intervals == 1..Len(E.backends)

(* WhatsMiner starts with a version question of its own. *)
Gated == fw = "WhatsMiner"

BuildInit ==
  /\ fw \in EntrySet
  /\ interval \in Intervals
  /\ was = {interval}
  /\ reflashes = 0
  /\ at = IF Gated THEN "gate" ELSE "model"
  /\ attempt = 1
  /\ overV3 = FALSE
  /\ learnt = Unknown
  /\ silent = 0
  /\ ending = "pending"
  /\ backend = NoBackend

-----------------------------------------------------------------------------
(* MinerConstructor::new of the firmware: the last interval the version    *)
(* reaches.                                                                *)
BackendOf(v) == IF v = Unknown THEN E.blind ELSE E.backends[v]

(* Nothing is left to ask: the backend is built in the step that took the  *)
(* last answer.                                                            *)
Construct(v) ==
  IF E.hardware /\ at # "hardware"
  THEN at' = "hardware" /\ UNCHANGED <<ending, backend>>
  ELSE at' = "done" /\ ending' = "miner" /\ backend' = BackendOf(v)

Fail(how) ==
  /\ at' = "done"
  /\ ending' = how
  /\ UNCHANGED backend

(* The gate opened for the dates of the second backend as well. *)
GateAfterTheFirst ==
  /\ at = "gate"
  /\ overV3' = (interval > 1)
  /\ at' = "model"
  /\ UNCHANGED <<fw, interval, was, reflashes, attempt, learnt, silent, ending, backend>>

(* The first get_version of WhatsMiner: its date against 20241101. *)
GateAnswered ==
  /\ at = "gate"
  /\ overV3' = (BackendOf(interval) = "WhatsMinerV3")
  /\ at' = "model"
  /\ UNCHANGED <<fw, interval, was, reflashes, attempt, learnt, silent, ending, backend>>

(* No usable date counts as an old one. *)
GateSilent ==
  /\ at = "gate"
  /\ silent' = silent + 1
  /\ at' = "model"
  /\ UNCHANGED <<fw, interval, was, reflashes, attempt, overV3, learnt, ending, backend>>

(* The device names a model: the version is next, if it is asked for. *)
ModelAnswered ==
  /\ at = "model"
  /\ attempt' = 1
  /\ IF E.version = <<>>
     THEN Construct(Unknown)
     ELSE at' = "version" /\ UNCHANGED <<ending, backend>>
  /\ UNCHANGED <<fw, interval, was, reflashes, overV3, learnt, silent>>

(* It names one that its make does not know. *)
ModelUnknown ==
  /\ at = "model"
  /\ ~E.lenient
  /\ Fail("none")
  /\ UNCHANGED <<fw, interval, was, reflashes, attempt, overV3, learnt, silent>>

(* No answer, or one without a model: the next alternative, or an error. *)
ModelSilent ==
  /\ at = "model"
  /\ IF attempt < Len(E.model)
     THEN attempt' = attempt + 1 /\ UNCHANGED <<at, ending, backend>>
     ELSE UNCHANGED attempt /\ Fail("none")
  /\ UNCHANGED <<fw, interval, was, reflashes, overV3, learnt, silent>>

VersionAnswered ==
  /\ at = "version"
  /\ learnt' = interval
  /\ Construct(interval)
  /\ UNCHANGED <<fw, interval, was, reflashes, attempt, overV3, silent>>

(* An answer that is not a version ends the question. *)
VersionUnusable ==
  /\ at = "version"
  /\ silent' = silent + 1
  /\ Construct(Unknown)
  /\ UNCHANGED <<fw, interval, was, reflashes, attempt, overV3, learnt>>

(* The missing version taken for an error, as a missing model is. *)
VersionSilentFails ==
  /\ at = "version"
  /\ IF attempt < Len(E.version)
     THEN attempt' = attempt + 1 /\ UNCHANGED <<at, ending, backend>>
     ELSE UNCHANGED attempt /\ Fail("none")
  /\ UNCHANGED <<fw, interval, was, reflashes, overV3, learnt, silent>>

(* No answer: the whole construction is tried again. *)
VersionSilentRestarts ==
  /\ at = "version"
  /\ at' = "model" /\ attempt' = 1
  /\ UNCHANGED <<fw, interval, was, reflashes, overV3, learnt, silent, ending, backend>>

(* No answer: the next alternative, or a backend without a version. *)
VersionSilent ==
  /\ at = "version"
  /\ IF attempt < Len(E.version)
     THEN /\ attempt' = attempt + 1
          /\ UNCHANGED <<at, silent, ending, backend>>
     ELSE /\ silent' = silent + 1
          /\ UNCHANGED attempt
          /\ Construct(Unknown)
  /\ UNCHANGED <<fw, interval, was, reflashes, overV3, learnt>>

(* The version text cannot be cut at its byte positions: a panic, which    *)
(* get_miner turns into an error.                                          *)
VersionPanics ==
  /\ at = "version"
  /\ E.slices
  /\ Fail("error")
  /\ UNCHANGED <<fw, interval, was, reflashes, attempt, overV3, learnt, silent>>

(* discover_hardware: no answer leaves the default layout. *)
Hardware ==
  /\ at = "hardware"
  /\ Construct(learnt)
  /\ UNCHANGED <<fw, interval, was, reflashes, attempt, overV3, learnt, silent>>

Reflash ==
  /\ at # "done"
  /\ reflashes < MaxReflashes
  /\ interval' \in Intervals \ {interval}
  /\ was' = was \union {interval'}
  /\ reflashes' = reflashes + 1
  /\ UNCHANGED <<fw, at, attempt, overV3, learnt, silent, ending, backend>>

Proceed ==
  \/ GateAnswered \/ GateSilent
  \/ ModelAnswered \/ ModelUnknown \/ ModelSilent
  \/ VersionAnswered \/ VersionUnusable \/ VersionSilent \/ VersionPanics
  \/ Hardware

BuildNext == Proceed \/ Reflash

(* The request that is waited for has a timeout, so the build goes on. *)
Timed ==
  CASE at = "model" -> E.model[attempt] # "client"
    [] at = "version" -> E.version[attempt] # "client"
    [] OTHER -> TRUE

BuildSpec == BuildInit /\ [][BuildNext]_bvars /\ WF_bvars(Timed /\ Proceed)

-----------------------------------------------------------------------------
BuildTypeOK ==
  /\ fw \in EntrySet
  /\ interval \in Intervals
  /\ was \subseteq Intervals
  /\ reflashes \in 0..MaxReflashes
  /\ at \in {"gate", "model", "version", "hardware", "done"}
  /\ attempt \in {1, 2}
  /\ overV3 \in BOOLEAN
  /\ learnt \in Intervals \union {Unknown}
  /\ silent \in 0..2
  /\ ending \in {"pending", "miner", "none", "error"}
  /\ backend \in {E.backends[i] : i \in Intervals} \union {E.blind, NoBackend}

(* When every version question is answered, the handle speaks the API of a *)
(* version that the device really had during the build; a lost answer can  *)
(* only make it that of the default version.  The model of a WhatsMiner is *)
(* read over the same API, though two separate get_version answers decide: *)
(* only a lost answer or a flash between the two makes them differ.        *)
BackendFitsDevice ==
  ending = "miner" =>
    /\ E.version # << >> =>
         backend \in {E.backends[i] : i \in was} \union (IF silent = 0 THEN {} ELSE {E.blind})
    /\ Gated /\ silent = 0 /\ reflashes = 0 => (overV3 <=> backend = "WhatsMinerV3")

(* A version that cannot be learnt never costs the handle: after the model *)
(* is known, only a panic does.                                            *)
VersionIsOptional ==
  [][(at \in {"version", "hardware"} /\ at' = "done") =>
       ending' \in {"miner", "error"} /\ (ending' = "error" => E.slices)]_bvars

(* The build ends, unless it waits for an answer with no timeout. *)
BuildEnds == <>(at = "done" \/ (~Timed /\ fw \in BuildsWithoutTimeout))
=============================================================================
