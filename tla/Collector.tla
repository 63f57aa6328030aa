------------------------------ MODULE Collector -----------------------------
(***************************************************************************)
(* DataCollector (asic-rs-core/src/data/collector.rs) and ConfigCollector, *)
(* which has the same code: the commands of all the requested fields are   *)
(* sent at once, join_all waits for every one of them, the answers that    *)
(* are not errors are put in the cache, and each field is extracted from   *)
(* the cache.  A collector may be used for several collections; the device *)
(* goes on changing while it is asked, and the caller may drop the future. *)
(*                                                                         *)
(* What a command answers is reduced to the state the device was in, a     *)
(* number that grows; what a location finds in an answer is the parameter  *)
(* Finds.                                                                  *)
(***************************************************************************)
EXTENDS Integers, JsonMerge

CONSTANTS
  Command,
  Field,
  Locations,       \* get_locations: the commands of each field, in order
  Finds(_, _, _),  \* what a location of a field finds in an answer, tagged
  Missing,         \* a command with nothing cached
  Failed,          \* a command that answered with an error
  NoValue,         \* extract_field found nothing
  LastState,       \* bound on the states of the device
  Values, Paths    \* the values and the paths considered by MergeIsOverlay

ASSUME LocationsAssumption == Locations \in [Field -> Seq(Command)]

ASSUME StateAssumption == LastState \in Nat

States == 0..LastState

ASSUME AnswerAssumption ==
  /\ Missing \notin States
  /\ Failed \notin States
  /\ Missing # Failed

ASSUME FindsAssumption ==
  \A f \in Field : \A n \in DOMAIN Locations[f], s \in States :
    Finds(f, n, s) \in Json[MaxDepth] \union {Absent}

ASSUME SamplesAssumption == Values \subseteq Json[MaxDepth] /\ Paths \subseteq Seq(Key)

CommandsOf == [f \in Field |-> {Locations[f][n] : n \in DOMAIN Locations[f]}]

(* What the locations of a field find in the answers that are cached.      *)
Found(f, cached) ==
  [n \in DOMAIN Locations[f] |->
     LET c == Locations[f][n]
     IN  IF cached[c] = Missing THEN Absent ELSE Finds(f, n, cached[c])]

(* extract_field. *)
Extract(f, cached) ==
  IF \A n \in DOMAIN Locations[f] : Found(f, cached)[n] = Absent THEN NoValue
  ELSE Joined(Found(f, cached))

VARIABLES
  state,      \* the state of the device
  phase,
  fields,     \* the fields of the running, or last, collection
  since,      \* the state of the device when it began
  response,   \* how each command of it has ended so far
  cache,
  results     \* what the last collection that ended returned

vars == <<state, phase, fields, since, response, cache, results>>

Init ==
  /\ state = 0
  /\ phase = "idle"
  /\ fields = {}
  /\ since = 0
  /\ response = [c \in Command |-> Missing]
  /\ cache = [c \in Command |-> Missing]
  /\ results = [f \in Field |-> NoValue]

-----------------------------------------------------------------------------
(* get_required_commands. *)
Required == UNION {CommandsOf[f] : f \in fields}

Waiting == {c \in Required : response[c] = Missing}

Answered == {c \in Required : response[c] \notin {Missing, Failed}}

(* The device works on. *)
DeviceChanges ==
  /\ state < LastState
  /\ state' = state + 1
  /\ UNCHANGED <<phase, fields, since, response, cache, results>>

(* collect: the commands of the fields are sent. *)
Collect(fs) ==
  /\ phase = "idle"
  /\ phase' = "collecting"
  /\ fields' = fs
  /\ since' = state
  /\ response' = [c \in Command |-> Missing]
  /\ UNCHANGED <<state, cache, results>>

(* get_api_result of a command ends. *)
Answer(c) ==
  /\ phase = "collecting"
  /\ c \in Waiting
  /\ response' = [response EXCEPT ![c] = state]
  /\ UNCHANGED <<state, phase, fields, since, cache, results>>

Fail(c) ==
  /\ phase = "collecting"
  /\ c \in Waiting
  /\ response' = [response EXCEPT ![c] = Failed]
  /\ UNCHANGED <<state, phase, fields, since, cache, results>>

(* Cached with this collection's answers, errors left out. *)
Cached == [c \in Command |-> IF c \in Answered THEN response[c] ELSE cache[c]]

(* Fields extracted before the answers are put in the cache. *)
FinishFromOldCache ==
  /\ phase = "collecting"
  /\ Waiting = {}
  /\ phase' = "idle"
  /\ cache' = Cached
  /\ results' = [f \in Field |-> IF f \in fields THEN Extract(f, cache) ELSE NoValue]
  /\ UNCHANGED <<state, fields, since, response>>

(* The cache holds this collection's answers only. *)
FinishForgetting ==
  /\ phase = "collecting"
  /\ Waiting = {}
  /\ phase' = "idle"
  /\ cache' = [c \in Command |-> IF c \in Answered THEN response[c] ELSE Missing]
  /\ results' = [f \in Field |-> IF f \in fields THEN Extract(f, cache') ELSE NoValue]
  /\ UNCHANGED <<state, fields, since, response>>

(* Every command has ended: cache and extract. *)
Finish ==
  /\ phase = "collecting"
  /\ Waiting = {}
  /\ phase' = "idle"
  /\ cache' = Cached
  /\ results' = [f \in Field |-> IF f \in fields THEN Extract(f, cache') ELSE NoValue]
  /\ UNCHANGED <<state, fields, since, response>>

(* The caller drops the future: nothing is cached, nothing is returned.    *)
Cancel ==
  /\ phase = "collecting"
  /\ phase' = "idle"
  /\ fields' = {}
  /\ results' = [f \in Field |-> NoValue]
  /\ UNCHANGED <<state, since, response, cache>>

Next ==
  \/ DeviceChanges
  \/ \E fs \in SUBSET Field : Collect(fs)
  \/ \E c \in Command : Answer(c) \/ Fail(c)
  \/ Finish
  \/ Cancel

Spec == Init /\ [][Next]_vars

-----------------------------------------------------------------------------
TypeOK ==
  /\ state \in States
  /\ phase \in {"idle", "collecting"}
  /\ fields \subseteq Field
  /\ since \in States
  /\ response \in [Command -> States \union {Missing, Failed}]
  /\ cache \in [Command -> States \union {Missing}]
  /\ results \in [Field -> Json[MaxDepth] \union {NoValue}]

Ended == phase = "idle" /\ fields # {}

(* What this collection alone was told. *)
Told == [c \in Command |-> IF c \in Answered THEN response[c] ELSE Missing]

(* What a returned field says was true of the device during the very       *)
(* collection that returned it, unless one of its commands failed: neither *)
(* the order of the answers, nor a failure of another field's command, nor *)
(* what an earlier collection left in the cache shows in it.               *)
AnsweredIsFresh ==
  Ended =>
    \A f \in fields : CommandsOf[f] \subseteq Answered =>
      /\ results[f] = Extract(f, Told)
      /\ \A c \in CommandsOf[f] : response[c] \in since..state

(* An answer older than the collection is used for a command only if that  *)
(* command failed in it.                                                   *)
StaleOnlyIfFailed ==
  Ended =>
    \A c \in Required : cache[c] # Missing /\ response[c] # Failed =>
      cache[c] >= since

(* What is cached for a command is never lost, nor replaced by something   *)
(* older, failures notwithstanding, and it changes only when a collection  *)
(* has all its answers: one that is dropped before leaves no trace.        *)
CacheNeverGoesBack ==
  [][/\ \A c \in Command : cache[c] # Missing =>
          cache'[c] # Missing /\ cache'[c] >= cache[c]
     /\ cache' # cache => phase = "collecting" /\ Waiting = {} /\ fields' = fields]_vars

(* The recursive merge is the path-by-path overlay: at every path the last *)
(* location decides what it says, arrays are joined, and everything else   *)
(* that was collected before is still there.  (Asked before anything is    *)
(* answered only, for it does not depend on the state.)                    *)
MergeIsOverlay ==
  (\A c \in Command : response[c] = Missing /\ cache[c] = Missing) /\ state = 0 =>
    \A a, b \in Values, p \in Paths : At(MergeValues(a, b), p) = Laid(a, b, p)
=============================================================================
