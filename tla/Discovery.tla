----------------------------- MODULE Discovery ------------------------------
(***************************************************************************)
(* MinerFactory::get_miner for one address (src/src/factory.rs).           *)
(*                                                                         *)
(* One task per discovery command runs in a FuturesUnordered, which the    *)
(* caller polls: a task that completes is consumed in the same poll, so    *)
(* completion and consumption are one step.  The first task that           *)
(* identifies a firmware ends the first loop; if it is a stock firmware, a *)
(* second loop waits up to UpgradeWindow for a non-stock one.  The         *)
(* identification timer runs across both loops.  What is left of the tasks *)
(* is then dropped and the miner is built.                                 *)
(*                                                                         *)
(* now counts units of time since the call.  Timers fire on time: no unit  *)
(* passes while an elapsed timer is waited for.                            *)
(***************************************************************************)
EXTENDS Integers

CONSTANTS
  Firmware,        \* the entries of the registry
  Stock,           \* those with is_stock()
  Rank,            \* their position in the registry
  NoFirmware,
  Command,         \* discovery commands
  CommandsOf,      \* get_discovery_commands of each entry
  Reply,           \* what a command can be answered with
  RepliesOf,       \* the replies to each command
  NoReply,         \* refused, timed out, unparsable, error status, or panicked
  Unanswered,      \* the command's task is still running (or was dropped)
  Accepts,         \* the replies on which each entry's identify_* is true
  IdTimeout,       \* identification_timeout
  UpgradeWindow,   \* 300 ms, in the same unit
  UnboundedBuild   \* entries whose build_miner awaits a client with no timeout

ASSUME RegistryAssumption ==
  /\ Stock \subseteq Firmware
  /\ NoFirmware \notin Firmware
  /\ Rank \in [Firmware -> Nat]
  /\ \A f, g \in Firmware : Rank[f] = Rank[g] => f = g
  /\ CommandsOf \in [Firmware -> SUBSET Command]
  /\ RepliesOf \in [Command -> SUBSET Reply]
  /\ Accepts \in [Firmware -> SUBSET Reply]
  /\ UnboundedBuild \subseteq Firmware

ASSUME ReplyAssumption ==
  /\ NoReply \notin Reply
  /\ Unanswered \notin Reply
  /\ NoReply # Unanswered

ASSUME TimeAssumption == IdTimeout \in Nat /\ UpgradeWindow \in Nat

VARIABLES
  phase,     \* where get_miner_inner is
  now,       \* time since the call
  answer,    \* how each command's task ended (kept for the properties)
  found,     \* the local `found`
  foundAt,   \* when the upgrade window was opened
  outcome    \* what the call returned

vars == <<phase, now, answer, found, foundAt, outcome>>

Phases == {"collecting", "upgrading", "building", "done"}
Outcomes == {"pending", "miner", "none", "error"}

-----------------------------------------------------------------------------
(* registry.iter().find(|fw| fw.identify_*(..)): the first entry, in       *)
(* registry order, that accepts the reply.                                 *)
Acceptors(r) == {f \in Firmware : r \in Accepts[f]}

(* Every way a command's task can end, or not have ended yet. *)
Ends == Reply \union {NoReply, Unanswered}

(* The same search from the other end of the registry. *)
IdentifyLast ==
  [r \in Ends |->
     IF Acceptors(r) = {} THEN NoFirmware
     ELSE CHOOSE f \in Acceptors(r) : \A g \in Acceptors(r) : Rank[g] <= Rank[f]]

Identify ==
  [r \in Ends |->
     IF Acceptors(r) = {} THEN NoFirmware
     ELSE CHOOSE f \in Acceptors(r) : \A g \in Acceptors(r) : Rank[f] <= Rank[g]]

(* The HashSet of the commands of all entries: one task each.              *)
Sent == UNION {CommandsOf[f] : f \in Firmware}

Answered == {c \in Sent : answer[c] # Unanswered}
Pending == Sent \ Answered

Init ==
  /\ phase = "collecting"
  /\ now = 0
  /\ answer = [c \in Command |-> Unanswered]
  /\ found = NoFirmware
  /\ foundAt = 0
  /\ outcome = "pending"

Complete(c, r) ==
  /\ c \in Pending
  /\ answer' = [answer EXCEPT ![c] = r]

-----------------------------------------------------------------------------
(* First loop.                                                             *)

(* A task ends without identifying anything: the loop goes on. *)
Miss(c, r) ==
  /\ phase = "collecting"
  /\ Identify[r] = NoFirmware
  /\ Complete(c, r)
  /\ UNCHANGED <<phase, now, found, foundAt, outcome>>

(* FindStock without the upgrade window: the first answer is final. *)
FindStockAtOnce(c, r) ==
  /\ phase = "collecting"
  /\ Identify[r] \in Stock
  /\ Complete(c, r)
  /\ found' = Identify[r]
  /\ foundAt' = now
  /\ phase' = "building"
  /\ UNCHANGED <<now, outcome>>

(* A task identifies a stock firmware: the upgrade window opens. *)
FindStock(c, r) ==
  /\ phase = "collecting"
  /\ Identify[r] \in Stock
  /\ Complete(c, r)
  /\ found' = Identify[r]
  /\ foundAt' = now
  /\ phase' = "upgrading"
  /\ UNCHANGED <<now, outcome>>

(* A task identifies another firmware: nothing more is waited for. *)
FindNonStock(c, r) ==
  /\ phase = "collecting"
  /\ Identify[r] \in Firmware \ Stock
  /\ Complete(c, r)
  /\ found' = Identify[r]
  /\ phase' = "building"
  /\ UNCHANGED <<now, foundAt, outcome>>

(* GiveUp without the identification timer. *)
GiveUpWhenExhausted ==
  /\ phase = "collecting"
  /\ Pending = {}
  /\ phase' = "done"
  /\ outcome' = "none"
  /\ UNCHANGED <<now, answer, found, foundAt>>

(* No task is left, or the timer elapses: nothing identified the address. *)
GiveUp ==
  /\ phase = "collecting"
  /\ Pending = {} \/ now >= IdTimeout
  /\ phase' = "done"
  /\ outcome' = "none"
  /\ UNCHANGED <<now, answer, found, foundAt>>

-----------------------------------------------------------------------------
(* Second loop.                                                            *)

(* Ignore without the is_stock test: a late non-stock answer is skipped. *)
IgnoreAny(c, r) ==
  /\ phase = "upgrading"
  /\ Complete(c, r)
  /\ UNCHANGED <<phase, now, found, foundAt, outcome>>

(* A task ends with nothing or another stock firmware: the loop goes on. *)
Ignore(c, r) ==
  /\ phase = "upgrading"
  /\ Identify[r] \in Stock \union {NoFirmware}
  /\ Complete(c, r)
  /\ UNCHANGED <<phase, now, found, foundAt, outcome>>

(* A task identifies a firmware that is not stock: it replaces the first. *)
Upgrade(c, r) ==
  /\ phase = "upgrading"
  /\ Identify[r] \in Firmware \ Stock
  /\ Complete(c, r)
  /\ found' = Identify[r]
  /\ phase' = "building"
  /\ UNCHANGED <<now, foundAt, outcome>>

(* No task is left, or one of the two timers elapses. *)
CloseWindow ==
  /\ phase = "upgrading"
  /\ Pending = {} \/ now >= IdTimeout \/ now >= foundAt + UpgradeWindow
  /\ phase' = "building"
  /\ UNCHANGED <<now, answer, found, foundAt, outcome>>

-----------------------------------------------------------------------------
(* build_miner answers: a handle, an error (reported as no miner), or a    *)
(* panic that get_miner's catch_unwind turns into an error.                *)
Build ==
  /\ phase = "building"
  /\ outcome' \in {"miner", "none", "error"}
  /\ phase' = "done"
  /\ UNCHANGED <<now, answer, found, foundAt>>

(* No timer that the loop waits for has elapsed. *)
TimerPending ==
  /\ now < IdTimeout
  /\ phase = "upgrading" => now < foundAt + UpgradeWindow

(* A unit of time passes in one of the two loops, with a task to poll. *)
Tick ==
  /\ phase \in {"collecting", "upgrading"}
  /\ Pending # {}
  /\ TimerPending
  /\ now' = now + 1
  /\ UNCHANGED <<phase, answer, found, foundAt, outcome>>

TaskEnds ==
  \E c \in Command : \E r \in RepliesOf[c] \union {NoReply} :
    \/ Miss(c, r)
    \/ FindStock(c, r)
    \/ FindNonStock(c, r)
    \/ Ignore(c, r)
    \/ Upgrade(c, r)

Next == TaskEnds \/ GiveUp \/ CloseWindow \/ Build \/ Tick

(* The select! loops are polled whenever a timer elapses, and time passes; *)
(* nothing makes a host answer.  build_miner ends when every request it    *)
(* makes has a timeout.                                                    *)
Fairness ==
  /\ WF_vars(Tick)
  /\ WF_vars(GiveUp)
  /\ WF_vars(CloseWindow)
  /\ WF_vars(found \notin UnboundedBuild /\ Build)

Spec == Init /\ [][Next]_vars /\ Fairness

-----------------------------------------------------------------------------
TypeOK ==
  /\ phase \in Phases
  /\ now \in Nat
  /\ answer \in [Command -> Ends]
  /\ found \in Firmware \union {NoFirmware}
  /\ foundAt \in Nat
  /\ outcome \in Outcomes

IdentifiedIn(cs) == {Identify[answer[c]] : c \in cs} \ {NoFirmware}

(* A stock firmware is settled on only if no consumed reply identified a   *)
(* firmware that replaces it: whatever the order in which the replies of   *)
(* one device arrive, the non-stock one wins.                              *)
NonStockWins == found \in Stock => IdentifiedIn(Answered) \subseteq Stock

(* With the order of default_firmware_registry, the same holds of every    *)
(* entry that would accept a reply, not only of the first one: a stock     *)
(* mark in a reply of a custom firmware never hides the custom firmware.   *)
NonStockFirst == \A f \in Firmware \ Stock, g \in Stock : Rank[f] < Rank[g]

NoHiddenFirmware ==
  NonStockFirst /\ found \in Stock =>
    \A c \in Answered : Acceptors(answer[c]) \subseteq Stock

(* A stock firmware is not settled on early: every task has ended, or the  *)
(* upgrade window or the identification timeout has run out.               *)
WindowHonoured ==
  phase \in {"building", "done"} /\ found \in Stock =>
    \/ Pending = {}
    \/ now >= IdTimeout
    \/ now >= foundAt + UpgradeWindow

(* The address is reported as not identified only if no reply identified   *)
(* it and there was nothing more, or no more time, to wait for.            *)
NoMissedFirmware ==
  phase = "done" /\ found = NoFirmware =>
    /\ IdentifiedIn(Answered) = {}
    /\ Pending = {} \/ now >= IdTimeout

(* The two loops end within the identification timeout, the second one     *)
(* within the upgrade window as well, however many replies arrive.         *)
ListeningBounded ==
  /\ now <= IdTimeout
  /\ phase = "upgrading" => now <= foundAt + UpgradeWindow

(* A firmware found once is replaced at most by a non-stock one, and only  *)
(* while the window of a stock one is open.                                *)
OnlyUpgrades ==
  [][found # NoFirmware /\ found' # found =>
       phase = "upgrading" /\ found \in Stock /\ found' \notin Stock]_vars

(* Every call returns, unless the firmware it settled on is built through  *)
(* the discovery client that has no timeout.                               *)
Returns == <>(phase = "done" \/ (phase = "building" /\ found \in UnboundedBuild))

(* factory.rs:478: "the maximum time spent identifying a miner": the call  *)
(* returns whatever the host does.                                         *)
AlwaysReturns == <>(phase = "done")

(* The promise of get_miner, without its tasks and timers.                 *)
Promise == INSTANCE Identification WITH
  seen <- IdentifiedIn(Answered),
  chosen <- IF phase \in {"building", "done"} THEN found ELSE NoFirmware

ImplementsPromise == Promise!Spec
=============================================================================
