--------------------------- MODULE Identification ---------------------------
(***************************************************************************)
(* What MinerFactory::get_miner promises for one address, without timers,  *)
(* tasks or phases: while the address is being identified, firmwares are   *)
(* seen in its replies; one firmware is chosen from what was seen, and a   *)
(* stock firmware only if no other kind was seen; then the miner is built  *)
(* once, and only for the chosen firmware.                                 *)
(***************************************************************************)
CONSTANTS
  Firmware,     \* the firmwares of the registry
  Stock,        \* those shipped by the manufacturer
  NoFirmware    \* "nothing identified"

VARIABLES
  seen,         \* firmwares identified in some reply
  chosen,       \* the firmware the address is taken to run
  outcome       \* what the call returned

vars == <<seen, chosen, outcome>>

Init ==
  /\ seen = {}
  /\ chosen = NoFirmware
  /\ outcome = "pending"

(* A reply is identified while nothing is chosen yet. *)
Learn ==
  /\ outcome = "pending" /\ chosen = NoFirmware
  /\ \E f \in Firmware : seen' = seen \union {f}
  /\ UNCHANGED <<chosen, outcome>>

(* The call settles on a firmware: one that was seen, in an earlier reply  *)
(* or in the one being handled; stock only when nothing else was seen.     *)
Choose(f) ==
  /\ outcome = "pending" /\ chosen = NoFirmware
  /\ seen' = seen \union {f}
  /\ f \in Stock => seen' \subseteq Stock
  /\ chosen' = f
  /\ UNCHANGED outcome

(* The miner of the chosen firmware is built, or building it fails.        *)
Deliver ==
  /\ outcome = "pending" /\ chosen # NoFirmware
  /\ outcome' \in {"miner", "none", "error"}
  /\ UNCHANGED <<seen, chosen>>

(* Nothing identified the address.                                         *)
GiveUp ==
  /\ outcome = "pending" /\ chosen = NoFirmware /\ seen = {}
  /\ outcome' = "none"
  /\ UNCHANGED <<seen, chosen>>

Next ==
  \/ Learn
  \/ \E f \in Firmware : Choose(f)
  \/ Deliver
  \/ GiveUp

Spec == Init /\ [][Next]_vars
=============================================================================
