------------------------------ MODULE Operation ------------------------------
(***************************************************************************)
(* One miner that is controlled and read: the calls of Control beside the  *)
(* reads of Telemetry.  A read of one field sends its commands one after   *)
(* another in any order while the calls go on; a read of many fields is    *)
(* taken in one step on a device that nobody controls.                     *)
(***************************************************************************)
EXTENDS Control

VARIABLES
  reading,    \* the read that is made
  seen        \* the targets the device has had since the read began

vars == <<cvars, reading, seen>>

Boards == 1..3

(* of: what is read.  answers: the device as each command found it.  lost: *)
(* the commands without an answer.  reported, on: the boards that are in   *)
(* the answers and those that are on.  after: the calls it comes after.    *)
NoReading ==
  [of |-> "nothing", fields |-> {}, todo |-> {}, answers |-> << >>, lost |-> {},
   reported |-> Boards, on |-> Boards, after |-> {}]

(* A device that is only read has everything, and only there mining is     *)
(* stopped before: where calls are made it is a call that stops it.        *)
Init ==
  /\ ControlInit
  /\ reading = NoReading
  /\ seen = {}
  /\ awaited = 0 => lacks = "nothing"
  /\ awaited > 0 => device["running"] = "mining"

TargetsSoFar == IF reading.todo = {} THEN seen' = seen ELSE seen' = seen \union {Target(device')}

Act == ControlNext /\ TargetsSoFar /\ UNCHANGED reading

-----------------------------------------------------------------------------
(* get_data, get_data_filtered and the getters, with answers lost. *)
FieldSets ==
  {DataFields} \union {DataFields \ {f} : f \in DataFields}
    \union {Collects(f) : f \in Getters(backend)} \union {{"Hashboards"}}

(* One answer lost, or all but one. *)
Losses(fields) ==
  LET asked == Asked(backend, fields)
  IN  {{}} \union (IF fields # DataFields /\ fields \notin {Collects(f) : f \in Getters(backend)}
                   THEN {}
                   ELSE {{c} : c \in asked} \union {asked \ {c} : c \in asked})

(* All boards are there, or one is off, or it is missing as well. *)
BoardsThere(fields) ==
  {<<Boards, Boards>>}
    \union (IF fields = Collects("Hashboards")
            THEN {<<Boards, Boards \ {2}>>, <<Boards \ {2}, Boards \ {2}>>} ELSE {})

ReadAtOnce ==
  /\ awaited = 0 /\ reading = NoReading
  /\ \E fields \in FieldSets :
       \E lost \in Losses(fields), boards \in BoardsThere(fields) :
         reading' = [of |-> "at_once", fields |-> fields, todo |-> {}, lost |-> lost,
                     answers |-> [c \in Asked(backend, fields) \ lost |-> device],
                     reported |-> boards[1], on |-> boards[2], after |-> {}]
  /\ UNCHANGED <<cvars, seen>>

(* get_is_mining and get_tuning_target while the miner is controlled. *)
BeginRead ==
  /\ awaited = 1 /\ reading = NoReading
  /\ \E f \in {"IsMining", "TuningTarget"} :
       reading' = [NoReading EXCEPT !.of = f, !.fields = Collects(f),
                                    !.todo = Asked(backend, Collects(f)),
                                    !.after = {c \in Calls : Over(c)}]
  /\ seen' = {Target(device)}
  /\ UNCHANGED cvars

Fetch ==
  /\ \E c \in reading.todo :
       reading' = [reading EXCEPT !.todo = @ \ {c}, !.answers = [x \in {c} |-> device] ++ @]
  /\ UNCHANGED <<cvars, seen>>

Next == Act \/ ReadAtOnce \/ BeginRead \/ Fetch

Spec == Init /\ [][Next]_vars

HasRead == reading # NoReading /\ reading.todo = {}
=============================================================================
