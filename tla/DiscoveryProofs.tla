-------------------------- MODULE DiscoveryProofs ---------------------------
(***************************************************************************)
(* Theorems about Discovery for every registry, every set of commands and  *)
(* replies, and every pair of timeouts; then about Construction, the step  *)
(* it ends in, for every entry and any number of flashes.                  *)
(***************************************************************************)
EXTENDS Discovery, Construction, WellFoundedInduction, TLAPS

(* A non-empty set of naturals has a least element. *)
LEMMA LeastNatural ==
  ASSUME NEW T, T \subseteq Nat, T # {}
  PROVE  \E m \in T : \A n \in T : m <= n
<1> DEFINE R == OpToRel(<, Nat)
<1>1. \E m \in T : \A n \in T : ~(<<n, m>> \in R)
  BY NatLessThanWellFounded, WFMin
<1>2. PICK m \in T : \A n \in T : ~(<<n, m>> \in R)
  BY <1>1
<1>3. \A n \in T : ~(n < m)
  BY <1>2 DEF OpToRel
<1> QED
  BY <1>3

(* The registry search answers an entry that accepts the reply, ahead of   *)
(* every other entry that accepts it, or nothing when none does.           *)
LEMMA IdentifyFirst ==
  ASSUME NEW r \in Ends
  PROVE  /\ Identify[r] \in Acceptors(r) \union {NoFirmware}
         /\ Identify[r] = NoFirmware <=> Acceptors(r) = {}
         /\ \A g \in Acceptors(r) : Rank[Identify[r]] <= Rank[g]
<1>1. CASE Acceptors(r) = {}
  BY <1>1 DEF Identify
<1>2. CASE Acceptors(r) # {}
  <2> DEFINE Ranks == {Rank[f] : f \in Acceptors(r)}
  <2>1. Ranks \subseteq Nat /\ Ranks # {}
    BY <1>2, RegistryAssumption DEF Acceptors
  <2>2. PICK m \in Ranks : \A n \in Ranks : m <= n
    <3> HIDE DEF Ranks
    <3> QED
      BY <2>1, LeastNatural
  <2>3. PICK f \in Acceptors(r) : \A g \in Acceptors(r) : Rank[f] <= Rank[g]
    BY <2>2
  <2>4. Identify[r] = CHOOSE h \in Acceptors(r) : \A g \in Acceptors(r) : Rank[h] <= Rank[g]
    BY <1>2 DEF Identify
  <2>5. /\ Identify[r] \in Acceptors(r)
        /\ \A g \in Acceptors(r) : Rank[Identify[r]] <= Rank[g]
    BY <2>3, <2>4
  <2>6. Identify[r] # NoFirmware
    BY <2>5, RegistryAssumption DEF Acceptors
  <2> QED
    BY <1>2, <2>5, <2>6
<1> QED
  BY <1>1, <1>2

(* A command without a reply identifies nothing. *)
LEMMA NoReplyIdentifiesNothing ==
  Identify[NoReply] = NoFirmware /\ Identify[Unanswered] = NoFirmware
BY RegistryAssumption, ReplyAssumption DEF Identify, Ends, Acceptors

LEMMA IdentifyType == \A r \in Ends : Identify[r] \in Firmware \union {NoFirmware}
BY IdentifyFirst DEF Acceptors

-----------------------------------------------------------------------------
(* The inductive invariant.  Beside what the theorems say, it relates the  *)
(* phase to what is known: nothing is found, nor has anything identified   *)
(* the address, while the first loop runs; a window is open only for a     *)
(* stock firmware; what was found was identified by a consumed reply; the  *)
(* clock has passed none of the timers that are waited for.                *)
PhaseOK ==
  /\ phase = "collecting" => found = NoFirmware
  /\ phase = "upgrading" => found \in Stock
  /\ phase = "building" => found \in Firmware
  /\ phase = "done" <=> outcome # "pending"

FoundOK ==
  /\ found = NoFirmware => IdentifiedIn(Answered) = {}
  /\ found # NoFirmware => found \in IdentifiedIn(Answered)

ClockOK ==
  /\ foundAt <= now
  /\ ListeningBounded

IInv ==
  /\ TypeOK
  /\ PhaseOK
  /\ FoundOK
  /\ ClockOK
  /\ NonStockWins
  /\ WindowHonoured
  /\ NoMissedFirmware

(* What a task's end adds to what is known of the address. *)
LEMMA CompleteLearns ==
  ASSUME TypeOK, NEW c \in Command, NEW r \in RepliesOf[c] \union {NoReply},
         Complete(c, r)
  PROVE  /\ r \in Ends
         /\ answer' \in [Command -> Ends]
         /\ IdentifiedIn(Answered)' =
              IdentifiedIn(Answered) \union ({Identify[r]} \ {NoFirmware})
         /\ Pending' \subseteq Pending
<1>1. r \in Ends /\ r # Unanswered
  BY RegistryAssumption, ReplyAssumption DEF Ends
<1>2. answer' \in [Command -> Ends]
  BY <1>1 DEF TypeOK, Complete
<1>3. c \in Sent /\ answer'[c] = r /\ \A d \in Command \ {c} : answer'[d] = answer[d]
  BY DEF TypeOK, Complete, Pending
<1>4. Sent \subseteq Command
  BY RegistryAssumption DEF Sent
<1>5. Answered' = Answered \union {c}
  BY <1>1, <1>3, <1>4 DEF Answered
<1>6. c \notin Answered
  BY DEF Complete, Pending
<1>7. {Identify[answer'[d]] : d \in Answered'}
        = {Identify[answer[d]] : d \in Answered} \union {Identify[r]}
  BY <1>3, <1>4, <1>5, <1>6 DEF Answered
<1>8. IdentifiedIn(Answered)' = {Identify[answer'[d]] : d \in Answered'} \ {NoFirmware}
  BY DEF IdentifiedIn
<1>9. Pending' \subseteq Pending
  BY <1>5 DEF Pending
<1> QED
  BY <1>1, <1>2, <1>7, <1>8, <1>9 DEF IdentifiedIn

LEMMA InitInv == Init => IInv
<1> SUFFICES ASSUME Init PROVE IInv
  OBVIOUS
<1>1. Answered = {}
  BY RegistryAssumption DEF Init, Answered, Sent
<1>2. IdentifiedIn(Answered) = {}
  BY <1>1 DEF IdentifiedIn
<1> QED
  BY <1>2, RegistryAssumption, ReplyAssumption, TimeAssumption
     DEF Init, IInv, TypeOK, Ends, Phases, Outcomes, PhaseOK, FoundOK, ClockOK,
         ListeningBounded, NonStockWins, WindowHonoured, NoMissedFirmware

(* Every step of the call preserves the inductive invariant. *)
LEMMA NextInv == IInv /\ [Next]_vars => IInv'
<1> SUFFICES ASSUME IInv, [Next]_vars PROVE IInv'
  OBVIOUS
<1> USE DEF IInv
<1>1. ASSUME NEW c \in Command, NEW r \in RepliesOf[c] \union {NoReply},
             Miss(c, r) \/ FindStock(c, r) \/ FindNonStock(c, r)
               \/ Ignore(c, r) \/ Upgrade(c, r)
      PROVE  IInv'
  <2>1. Complete(c, r)
    BY <1>1 DEF Miss, FindStock, FindNonStock, Ignore, Upgrade
  <2>2. /\ r \in Ends
        /\ answer' \in [Command -> Ends]
        /\ IdentifiedIn(Answered)' =
             IdentifiedIn(Answered) \union ({Identify[r]} \ {NoFirmware})
        /\ Pending' \subseteq Pending
    BY <2>1, CompleteLearns
  <2>3. Identify[r] \in Firmware \union {NoFirmware}
    BY <2>2, IdentifyType
  <2>4. CASE Miss(c, r)
    BY <2>2, <2>3, <2>4
       DEF Miss, TypeOK, PhaseOK, FoundOK, ClockOK, ListeningBounded,
           NonStockWins, WindowHonoured, NoMissedFirmware
  <2>5. CASE FindStock(c, r)
    BY <2>2, <2>3, <2>5, RegistryAssumption, TimeAssumption
       DEF FindStock, TypeOK, Phases, PhaseOK, FoundOK, ClockOK, ListeningBounded,
           NonStockWins, WindowHonoured, NoMissedFirmware
  <2>6. CASE FindNonStock(c, r)
    BY <2>2, <2>3, <2>6, RegistryAssumption
       DEF FindNonStock, TypeOK, Phases, PhaseOK, FoundOK, ClockOK,
           ListeningBounded, NonStockWins, WindowHonoured, NoMissedFirmware
  <2>7. CASE Ignore(c, r)
    BY <2>2, <2>3, <2>7, RegistryAssumption
       DEF Ignore, TypeOK, PhaseOK, FoundOK, ClockOK, ListeningBounded,
           NonStockWins, WindowHonoured, NoMissedFirmware
  <2>8. CASE Upgrade(c, r)
    BY <2>2, <2>3, <2>8, RegistryAssumption
       DEF Upgrade, TypeOK, Phases, PhaseOK, FoundOK, ClockOK, ListeningBounded,
           NonStockWins, WindowHonoured, NoMissedFirmware
  <2> QED
    BY <1>1, <2>4, <2>5, <2>6, <2>7, <2>8
<1>2. ASSUME UNCHANGED answer
      PROVE  /\ IdentifiedIn(Answered)' = IdentifiedIn(Answered)
             /\ Pending' = Pending
  BY <1>2 DEF IdentifiedIn, Answered, Pending
<1>3. CASE GiveUp
  <2>1. UNCHANGED answer
    BY <1>3 DEF GiveUp
  <2> QED
    BY <1>2, <1>3, <2>1
       DEF GiveUp, TypeOK, Phases, Outcomes, PhaseOK, FoundOK, ClockOK,
           ListeningBounded, NonStockWins, WindowHonoured, NoMissedFirmware
<1>4. CASE CloseWindow
  <2>1. UNCHANGED answer
    BY <1>4 DEF CloseWindow
  <2> QED
    BY <1>2, <1>4, <2>1, RegistryAssumption
       DEF CloseWindow, TypeOK, Phases, PhaseOK, FoundOK, ClockOK,
           ListeningBounded, NonStockWins, WindowHonoured, NoMissedFirmware
<1>5. CASE Build
  <2>1. UNCHANGED answer
    BY <1>5 DEF Build
  <2> QED
    BY <1>2, <1>5, <2>1, RegistryAssumption
       DEF Build, TypeOK, Phases, Outcomes, PhaseOK, FoundOK, ClockOK,
           ListeningBounded, NonStockWins, WindowHonoured, NoMissedFirmware
<1>6. CASE Tick
  <2>1. UNCHANGED answer
    BY <1>6 DEF Tick
  <2> QED
    BY <1>2, <1>6, <2>1, TimeAssumption
       DEF Tick, TimerPending, TypeOK, PhaseOK, FoundOK, ClockOK,
           ListeningBounded, NonStockWins, WindowHonoured, NoMissedFirmware
<1>7. CASE UNCHANGED vars
  <2>1. UNCHANGED answer
    BY <1>7 DEF vars
  <2> QED
    BY <1>2, <1>7, <2>1
       DEF vars, TypeOK, PhaseOK, FoundOK, ClockOK,
           ListeningBounded, NonStockWins, WindowHonoured, NoMissedFirmware
<1> QED
  BY <1>1, <1>3, <1>4, <1>5, <1>6, <1>7 DEF Next, TaskEnds

LEMMA Invariance == Spec => []IInv
BY InitInv, NextInv, PTL DEF Spec

-----------------------------------------------------------------------------
(* The state of a call keeps its type, whatever the hosts answer. *)
THEOREM TypeCorrect == Spec => []TypeOK
BY Invariance, PTL DEF IInv

(* factory.rs:136: a custom firmware takes priority over a stock one,      *)
(* whatever the order of the replies.                                      *)
THEOREM NonStockAlwaysWins == Spec => []NonStockWins
BY Invariance, PTL DEF IInv

(* No stock firmware is settled on before the window or the timeout ends.  *)
THEOREM WindowAlwaysHonoured == Spec => []WindowHonoured
BY Invariance, PTL DEF IInv

(* "No miner" is reported only when no consumed reply identified one.      *)
THEOREM NothingMissed == Spec => []NoMissedFirmware
BY Invariance, PTL DEF IInv

(* No loop is polled beyond the timers it waits for. *)
THEOREM ListeningAlwaysBounded == Spec => []ListeningBounded
BY Invariance, PTL DEF IInv, ClockOK

(* A registry that lists every custom firmware before every stock one lets *)
(* no stock mark hide a custom firmware.                                   *)
LEMMA FirstHidesNothing == IInv => NoHiddenFirmware
<1> SUFFICES ASSUME IInv, NonStockFirst, found \in Stock,
                    NEW c \in Answered, NEW f \in Acceptors(answer[c]), f \notin Stock
             PROVE  FALSE
  BY DEF NoHiddenFirmware
<1>1. c \in Command
  BY RegistryAssumption DEF Answered, Sent
<1>2. answer[c] \in Ends
  BY <1>1 DEF IInv, TypeOK
<1>3. /\ Identify[answer[c]] \in Acceptors(answer[c])
      /\ Rank[Identify[answer[c]]] <= Rank[f]
      /\ Identify[answer[c]] # NoFirmware
  BY <1>2, IdentifyFirst
<1>4. Identify[answer[c]] \in Stock
  BY <1>3 DEF IInv, NonStockWins, IdentifiedIn
<1>5. f \in Firmware \ Stock
  BY DEF Acceptors
<1>6. Rank[f] < Rank[Identify[answer[c]]]
  BY <1>4, <1>5 DEF NonStockFirst
<1> QED
  BY <1>3, <1>4, <1>5, <1>6, RegistryAssumption

THEOREM NothingHidden == Spec => []NoHiddenFirmware
BY Invariance, FirstHidesNothing, PTL

(* What was found changes only to a non-stock firmware within a window. *)
LEMMA StepUpgrades ==
  IInv /\ [Next]_vars /\ found # NoFirmware /\ found' # found =>
    phase = "upgrading" /\ found \in Stock /\ found' \notin Stock
BY DEF IInv, PhaseOK, Next, TaskEnds, Miss, FindStock, FindNonStock, Ignore,
       Upgrade, GiveUp, CloseWindow, Build, Tick, vars

THEOREM FoundOnlyUpgrades == Spec => OnlyUpgrades
<1>1. IInv /\ [Next]_vars =>
        [found # NoFirmware /\ found' # found =>
           phase = "upgrading" /\ found \in Stock /\ found' \notin Stock]_vars
  BY StepUpgrades
<1> QED
  BY <1>1, Invariance, PTL DEF Spec, OnlyUpgrades

-----------------------------------------------------------------------------
(* get_miner implements its promise: the first loop and the window learn   *)
(* firmwares, leaving the loops chooses one, building delivers it.         *)
Seen == IdentifiedIn(Answered)
Chosen == IF phase \in {"building", "done"} THEN found ELSE NoFirmware

LEMMA InitRefines == Init => Promise!Init
BY InitInv DEF Init, IInv, FoundOK, Promise!Init

LEMMA NextRefines == IInv /\ [Next]_vars => [Promise!Next]_(Promise!vars)
<1> SUFFICES ASSUME IInv, [Next]_vars
             PROVE  Promise!Next \/ UNCHANGED <<Seen, Chosen, outcome>>
  BY DEF Promise!vars, Seen, Chosen
<1> USE DEF Seen, Chosen
<1>1. ASSUME NEW c \in Command, NEW r \in RepliesOf[c] \union {NoReply},
             Miss(c, r) \/ FindStock(c, r) \/ FindNonStock(c, r)
               \/ Ignore(c, r) \/ Upgrade(c, r)
      PROVE  Promise!Next \/ UNCHANGED <<Seen, Chosen, outcome>>
  <2>1. Complete(c, r)
    BY <1>1 DEF Miss, FindStock, FindNonStock, Ignore, Upgrade
  <2>2. /\ r \in Ends
        /\ Seen' = Seen \union ({Identify[r]} \ {NoFirmware})
    BY <2>1, CompleteLearns DEF IInv
  <2>3. CASE Miss(c, r)
    BY <2>2, <2>3 DEF Miss
  <2>4. CASE FindStock(c, r)
    <3>1. Identify[r] \in Firmware /\ Identify[r] # NoFirmware
      BY <2>4, RegistryAssumption DEF FindStock
    <3>2. Promise!Learn
      BY <2>2, <2>4, <3>1 DEF FindStock, IInv, PhaseOK, Promise!Learn
    <3> QED
      BY <3>2 DEF Promise!Next
  <2>5. CASE FindNonStock(c, r)
    <3>1. Promise!Choose(Identify[r])
      BY <2>2, <2>5, RegistryAssumption
         DEF FindNonStock, IInv, PhaseOK, Promise!Choose
    <3> QED
      BY <2>5, <3>1 DEF FindNonStock, Promise!Next
  <2>6. CASE Ignore(c, r)
    <3>1. Identify[r] # NoFirmware => Promise!Learn
      BY <2>2, <2>6, RegistryAssumption DEF Ignore, IInv, PhaseOK, Promise!Learn
    <3> QED
      BY <2>2, <2>6, <3>1 DEF Ignore, Promise!Next
  <2>7. CASE Upgrade(c, r)
    <3>1. Promise!Choose(Identify[r])
      BY <2>2, <2>7, RegistryAssumption DEF Upgrade, IInv, PhaseOK, Promise!Choose
    <3> QED
      BY <2>7, <3>1 DEF Upgrade, Promise!Next
  <2> QED
    BY <1>1, <2>3, <2>4, <2>5, <2>6, <2>7
<1>2. ASSUME UNCHANGED answer PROVE Seen' = Seen
  BY <1>2 DEF IdentifiedIn, Answered
<1>3. CASE GiveUp
  <2>1. Promise!GiveUp
    BY <1>2, <1>3 DEF GiveUp, IInv, PhaseOK, FoundOK, Promise!GiveUp
  <2> QED
    BY <2>1 DEF Promise!Next
<1>4. CASE CloseWindow
  <2>1. found \in Firmware /\ found # NoFirmware
    BY <1>4, RegistryAssumption DEF CloseWindow, IInv, PhaseOK
  <2>2. Promise!Choose(found)
    BY <1>2, <1>4, <2>1
       DEF CloseWindow, IInv, PhaseOK, FoundOK, NonStockWins, Promise!Choose
  <2> QED
    BY <2>1, <2>2 DEF Promise!Next
<1>5. CASE Build
  <2>1. Promise!Deliver
    BY <1>2, <1>5, RegistryAssumption DEF Build, IInv, PhaseOK, Promise!Deliver
  <2> QED
    BY <2>1 DEF Promise!Next
<1>6. CASE Tick
  BY <1>2, <1>6 DEF Tick
<1>7. CASE UNCHANGED vars
  BY <1>2, <1>7 DEF vars
<1> QED
  BY <1>1, <1>3, <1>4, <1>5, <1>6, <1>7 DEF Next, TaskEnds

THEOREM PromiseKept == Spec => ImplementsPromise
BY InitRefines, NextRefines, Invariance, PTL DEF Spec, ImplementsPromise, Promise!Spec

-----------------------------------------------------------------------------
(* What the two timers are good for.  A command is answered in time when   *)
(* its task has ended by t at the latest, and tells fs when a reply to it  *)
(* identifies one of them.                                                 *)
AnsweredBy(c, t) == now >= t => c \in Answered

Tells(c, fs) == c \in Answered => Identify[answer[c]] \in fs

(* A host that identifies itself before the identification timeout is      *)
(* never given up: this is what Scan assumes of a supported address that   *)
(* is polled, however its other commands end.                              *)
THEOREM PromptHostIsFound ==
  ASSUME NEW c \in Sent, NEW t \in 1..IdTimeout
  PROVE  Spec /\ []AnsweredBy(c, t) /\ []Tells(c, Firmware)
           => [](phase \in {"building", "done"} => found \in Firmware)
<1> DEFINE Settled == phase \in {"building", "done"} => found \in Firmware
<1>1. Init => Settled
  BY DEF Init
<1>2. IInv /\ AnsweredBy(c, t) /\ Tells(c, Firmware) /\ Settled /\ [Next]_vars => Settled'
  <2> SUFFICES ASSUME IInv, AnsweredBy(c, t), Tells(c, Firmware), Settled, [Next]_vars
               PROVE  Settled'
    OBVIOUS
  <2>1. ~GiveUp
    <3> SUFFICES ASSUME GiveUp PROVE FALSE
      OBVIOUS
    <3>1. c \in Answered
      BY TimeAssumption DEF GiveUp, AnsweredBy, Pending, IInv, TypeOK
    <3>2. Identify[answer[c]] \in IdentifiedIn(Answered)
      BY <3>1, RegistryAssumption DEF Tells, IdentifiedIn
    <3> QED
      BY <3>2 DEF GiveUp, IInv, PhaseOK, FoundOK
  <2>2. CASE TaskEnds
    BY <2>2, RegistryAssumption DEF TaskEnds, Miss, FindStock, FindNonStock, Ignore, Upgrade
  <2>3. CASE CloseWindow \/ Build \/ Tick \/ UNCHANGED vars
    BY <2>3, RegistryAssumption DEF CloseWindow, Build, Tick, vars, IInv, PhaseOK
  <2> QED
    BY <2>1, <2>2, <2>3 DEF Next
<1> QED
  BY <1>1, <1>2, Invariance, PTL DEF Spec

(* factory.rs:350: "If we found a stock firmware, wait a short window for  *)
(* non-stock to respond".  A custom firmware that tells itself within the  *)
(* length of that window is never taken for the stock one, however early   *)
(* the stock marks of the same device arrive.                              *)
THEOREM PromptCustomIsKnown ==
  ASSUME NEW c \in Sent, NEW t \in 1..IdTimeout, t <= UpgradeWindow
  PROVE  Spec /\ []AnsweredBy(c, t) /\ []Tells(c, Firmware \ Stock)
           => [](phase \in {"building", "done"} => found \in Firmware \ Stock)
<1> DEFINE Settled == phase \in {"building", "done"} => found \in Firmware \ Stock
<1>1. Init => Settled
  BY DEF Init
<1>2. IInv /\ AnsweredBy(c, t) /\ Tells(c, Firmware \ Stock) /\ Settled /\ [Next]_vars
        => Settled'
  <2> SUFFICES ASSUME IInv, AnsweredBy(c, t), Tells(c, Firmware \ Stock), Settled, [Next]_vars
               PROVE  Settled'
    OBVIOUS
  <2>1. c \in Answered => found \in Firmware \ Stock
    <3> SUFFICES ASSUME c \in Answered PROVE found \in Firmware \ Stock
      OBVIOUS
    <3>1. Identify[answer[c]] \in IdentifiedIn(Answered) \ Stock
      BY RegistryAssumption DEF Tells, IdentifiedIn
    <3> QED
      BY <3>1 DEF IInv, FoundOK, NonStockWins, TypeOK
  <2>2. ~GiveUp
    BY <2>1, TimeAssumption, RegistryAssumption
       DEF GiveUp, AnsweredBy, Pending, IInv, TypeOK, PhaseOK
  <2>3. CASE CloseWindow
    <3>1. c \in Answered
      BY <2>3, TimeAssumption DEF CloseWindow, AnsweredBy, Pending, IInv, TypeOK
    <3> QED
      BY <2>1, <2>3, <3>1 DEF CloseWindow
  <2>4. CASE TaskEnds
    BY <2>4, RegistryAssumption DEF TaskEnds, Miss, FindStock, FindNonStock, Ignore, Upgrade
  <2>5. CASE Build \/ Tick \/ UNCHANGED vars
    BY <2>5 DEF Build, Tick, vars
  <2> QED
    BY <2>2, <2>3, <2>4, <2>5 DEF Next
<1> QED
  BY <1>1, <1>2, Invariance, PTL DEF Spec

-----------------------------------------------------------------------------
(* Construction, the step Build of Discovery in detail.                   *)
(* What was learnt was true when it was learnt, and the version question   *)
(* has been answered, or has gone unanswered, when the hardware's is asked.*)
Learning ==
  /\ silent \in Nat /\ reflashes \in Nat /\ overV3 \in BOOLEAN
  /\ was \subseteq Intervals /\ interval \in was
  /\ learnt \in was \union {Unknown}
  /\ at = "hardware" => E.version = << >> \/ learnt # Unknown \/ silent # 0
  /\ ending = "miner" => at = "done"

(* On a device that nobody flashes both questions of a WhatsMiner are      *)
(* about the same version.                                                 *)
Steady ==
  reflashes = 0 =>
    /\ was = {interval}
    /\ Gated /\ silent = 0 /\ at # "gate" =>
         (overV3 <=> BackendOf(interval) = "WhatsMinerV3")

BuildInv == Learning /\ Steady /\ BackendFitsDevice

LEMMA WhatsMinerAsksItsVersion == EntryOf["WhatsMiner"].version # << >>
<1>1. EntryOf["WhatsMiner"] = WhatsMiner
  BY DEF EntryOf
<1>2. WhatsMiner.version = <<"rpc">>
  BY DEF WhatsMiner, StockEntry, Entry, EntryDefaults
<1> QED
  BY <1>1, <1>2

LEMMA BuildInitInv == BuildInit => BuildInv
<1> SUFFICES ASSUME BuildInit PROVE BuildInv
  OBVIOUS
<1>1. Learning
  BY DEF BuildInit, Learning, Unknown, Intervals
<1>2. Steady
  BY DEF BuildInit, Steady, Gated
<1>3. BackendFitsDevice
  BY DEF BuildInit, BackendFitsDevice
<1> QED
  BY <1>1, <1>2, <1>3 DEF BuildInv

LEMMA LearningStep == Learning /\ [BuildNext]_bvars => Learning'
<1> SUFFICES ASSUME Learning, [BuildNext]_bvars PROVE Learning'
  OBVIOUS
<1> USE DEF Learning, Intervals, E, Unknown
<1>1. CASE UNCHANGED bvars
  BY <1>1 DEF bvars
<1>2. CASE GateAnswered \/ GateSilent
  <2>1. overV3' \in BOOLEAN
    <3>1. CASE GateAnswered
      <4>1. overV3' = (BackendOf(interval) = "WhatsMinerV3")
        BY <3>1 DEF GateAnswered
      <4>2. CASE BackendOf(interval) = "WhatsMinerV3"
        BY <4>1, <4>2
      <4>3. CASE BackendOf(interval) # "WhatsMinerV3"
        BY <4>1, <4>3
      <4> QED
        BY <4>2, <4>3
    <3>2. CASE GateSilent
      BY <3>2 DEF GateSilent
    <3> QED
      BY <1>2, <3>1, <3>2
  <2>2. /\ <<fw, interval, was, reflashes, learnt, ending>>' =
             <<fw, interval, was, reflashes, learnt, ending>>
        /\ at = "gate" /\ at' = "model" /\ silent' \in {silent, silent + 1}
    BY <1>2 DEF GateAnswered, GateSilent
  <2> QED
    BY <2>1, <2>2
<1>3. CASE ModelAnswered
  BY <1>3 DEF ModelAnswered, Construct
<1>4. CASE ModelUnknown \/ ModelSilent
  BY <1>4 DEF ModelUnknown, ModelSilent, Fail
<1>5. CASE VersionAnswered
  BY <1>5 DEF VersionAnswered, Construct
<1>6. CASE VersionUnusable \/ VersionSilent
  <2>1. /\ <<fw, interval, was, reflashes, overV3, learnt>>' =
             <<fw, interval, was, reflashes, overV3, learnt>>
        /\ at = "version"
    BY <1>6 DEF VersionUnusable, VersionSilent
  <2>2. CASE silent' = silent + 1 /\ Construct(Unknown)
    BY <2>1, <2>2 DEF Construct
  <2>3. CASE UNCHANGED <<at, silent, ending, backend>>
    BY <2>1, <2>3
  <2> QED
    BY <1>6, <2>2, <2>3 DEF VersionUnusable, VersionSilent
<1>7. CASE VersionPanics
  BY <1>7 DEF VersionPanics, Fail
<1>8. CASE Hardware
  BY <1>8 DEF Hardware, Construct
<1>9. CASE Reflash
  BY <1>9 DEF Reflash
<1> QED
  BY <1>1, <1>2, <1>3, <1>4, <1>5, <1>6, <1>7, <1>8, <1>9 DEF BuildNext, Proceed

LEMMA SteadyStep == Learning /\ Steady /\ [BuildNext]_bvars => Steady'
<1> SUFFICES ASSUME Learning, Steady, [BuildNext]_bvars, reflashes' = 0 PROVE Steady'
  BY DEF Steady
<1> USE DEF Steady, Gated, BackendOf, E
<1>1. CASE UNCHANGED bvars
  BY <1>1 DEF bvars
<1>2. CASE GateAnswered
  BY <1>2 DEF GateAnswered
<1>3. CASE GateSilent
  <2>1. silent' # 0 /\ was' = was /\ interval' = interval /\ reflashes' = reflashes
    BY <1>3 DEF GateSilent, Learning
  <2> QED
    BY <2>1
<1>4. CASE ModelAnswered \/ ModelUnknown \/ ModelSilent
  <2>1. /\ at = "model"
        /\ <<fw, interval, was, reflashes, overV3, silent>>' =
             <<fw, interval, was, reflashes, overV3, silent>>
    BY <1>4 DEF ModelAnswered, ModelUnknown, ModelSilent
  <2> QED
    BY <2>1
<1>5. CASE VersionAnswered \/ VersionUnusable \/ VersionSilent \/ VersionPanics \/ Hardware
  <2>1. /\ at \in {"version", "hardware"}
        /\ <<fw, interval, was, reflashes, overV3>>' = <<fw, interval, was, reflashes, overV3>>
        /\ silent' \in {silent, silent + 1}
    BY <1>5 DEF VersionAnswered, VersionUnusable, VersionSilent, VersionPanics, Hardware
  <2>2. silent' = 0 => silent = 0
    BY <2>1 DEF Learning
  <2> QED
    BY <2>1, <2>2
<1>6. CASE Reflash
  BY <1>6 DEF Reflash, Learning
<1> QED
  BY <1>1, <1>2, <1>3, <1>4, <1>5, <1>6 DEF BuildNext, Proceed

(* The step that builds the miner takes a backend of a version learnt, or  *)
(* the one for no version at all.                                          *)
LEMMA BuildStep ==
  ASSUME Learning, Steady, BuildNext, ending' = "miner", ending # "miner"
  PROVE  /\ E.version # << >> =>
              backend' \in {E.backends[i] : i \in was}
                             \union (IF silent' = 0 THEN {} ELSE {E.blind})
         /\ Gated /\ silent' = 0 /\ reflashes = 0 => backend' = BackendOf(interval)
         /\ fw' = fw /\ was' = was /\ overV3' = overV3 /\ reflashes' = reflashes
         /\ interval' = interval /\ at # "gate" /\ (silent' = 0 => silent = 0)
<1>1. Unknown \notin was /\ silent + 1 # 0
  BY DEF Learning, Unknown, Intervals
<1>2. CASE ModelAnswered
  <2>1. E.version = << >>
    BY <1>2 DEF ModelAnswered
  <2>2. ~Gated
    BY <2>1, WhatsMinerAsksItsVersion DEF Gated, E
  <2> QED
    BY <1>2, <2>1, <2>2 DEF ModelAnswered
<1>3. CASE VersionAnswered
  <2>1. backend' = E.backends[interval] /\ interval \in was
    BY <1>1, <1>3 DEF VersionAnswered, Construct, BackendOf, Learning
  <2> QED
    BY <1>1, <1>3, <2>1 DEF VersionAnswered, BackendOf, Learning
<1>4. CASE VersionUnusable \/ VersionSilent
  <2>1. silent' = silent + 1 /\ Construct(Unknown)
    BY <1>4 DEF VersionUnusable, VersionSilent
  <2>2. backend' = E.blind
    BY <2>1 DEF Construct, BackendOf
  <2> QED
    BY <1>1, <1>4, <2>1, <2>2 DEF VersionUnusable, VersionSilent
<1>5. CASE Hardware
  <2>1. backend' = BackendOf(learnt) /\ silent' = silent /\ was' = was /\ at = "hardware"
    BY <1>5 DEF Hardware, Construct
  <2>2. CASE learnt = Unknown
    <3>1. backend' = E.blind /\ (E.version = << >> \/ silent # 0)
      BY <2>1, <2>2 DEF BackendOf, Learning
    <3>2. Gated => silent # 0
      BY <3>1, WhatsMinerAsksItsVersion DEF Gated, E
    <3> QED
      BY <1>5, <2>1, <3>1, <3>2 DEF Hardware
  <2>3. CASE learnt # Unknown
    <3>1. backend' = E.backends[learnt] /\ learnt \in was
      BY <2>1, <2>3 DEF BackendOf, Learning
    <3>2. reflashes = 0 => backend' = BackendOf(interval)
      BY <1>1, <2>1, <3>1 DEF Steady, BackendOf
    <3> QED
      BY <1>5, <2>1, <3>1, <3>2 DEF Hardware
  <2> QED
    BY <2>2, <2>3
<1>6. CASE GateAnswered \/ GateSilent \/ ModelUnknown \/ ModelSilent \/ VersionPanics \/ Reflash
  BY <1>6 DEF GateAnswered, GateSilent, ModelUnknown, ModelSilent, VersionPanics, Reflash, Fail
<1> QED
  BY <1>2, <1>3, <1>4, <1>5, <1>6 DEF BuildNext, Proceed

LEMMA FitsStep ==
  Learning /\ Steady /\ BackendFitsDevice /\ [BuildNext]_bvars => BackendFitsDevice'
<1> SUFFICES ASSUME Learning, Steady, BackendFitsDevice, [BuildNext]_bvars, ending' = "miner"
             PROVE  BackendFitsDevice'
  BY DEF BackendFitsDevice
<1>1. CASE UNCHANGED bvars
  BY <1>1 DEF bvars, BackendFitsDevice, E, Gated
<1>2. CASE BuildNext /\ ending = "miner"
  <2>1. at = "done"
    BY <1>2 DEF Learning
  <2> QED
    BY <1>2, <2>1 DEF BuildNext, Proceed, GateAnswered, GateSilent, ModelAnswered,
           ModelUnknown,
       ModelSilent, VersionAnswered, VersionUnusable, VersionSilent, VersionPanics, Hardware,
       Reflash
<1>3. CASE BuildNext /\ ending # "miner"
  <2>1. Gated /\ silent' = 0 /\ reflashes = 0 => (overV3 <=> backend' = "WhatsMinerV3")
    BY <1>3, BuildStep DEF Steady
  <2> QED
    BY <1>3, <2>1, BuildStep DEF BackendFitsDevice, E, Gated
<1> QED
  BY <1>1, <1>2, <1>3

LEMMA BuildInvariance == BuildSpec => []BuildInv
<1>1. BuildInv /\ [BuildNext]_bvars => BuildInv'
  BY LearningStep, SteadyStep, FitsStep DEF BuildInv
<1> QED
  BY BuildInitInv, <1>1, PTL DEF BuildSpec

-----------------------------------------------------------------------------
(* The handle speaks the API of a version the device had while its miner   *)
(* was built, or the default one if a version answer was lost; and the     *)
(* model of a WhatsMiner that nobody flashes is read over the API of its   *)
(* backend, although two answers decide on them (whatsminer firmware.rs).  *)
THEOREM HandleFitsDevice == BuildSpec => []BackendFitsDevice
<1>1. BuildInv => BackendFitsDevice
  BY DEF BuildInv
<1> QED
  BY <1>1, BuildInvariance, PTL

(* Once the model is known no lost answer costs the handle, only a panic   *)
(* of the firmwares that cut the version text by bytes.                    *)
THEOREM NoVersionNoLoss == BuildSpec => VersionIsOptional
<1>1. ASSUME BuildNext, at \in {"version", "hardware"}, at' = "done"
      PROVE  ending' \in {"miner", "error"} /\ (ending' = "error" => E.slices)
  <2>1. CASE VersionAnswered \/ VersionUnusable \/ VersionSilent \/ Hardware
    BY <1>1, <2>1 DEF VersionAnswered, VersionUnusable, VersionSilent, Hardware, Construct
  <2>2. CASE VersionPanics
    BY <2>2 DEF VersionPanics, Fail
  <2> QED
    BY <1>1, <2>1, <2>2 DEF BuildNext, Proceed, GateAnswered, GateSilent, ModelAnswered,
           ModelUnknown, ModelSilent, Reflash
<1>2. [BuildNext]_bvars =>
        [(at \in {"version", "hardware"} /\ at' = "done") =>
           ending' \in {"miner", "error"} /\ (ending' = "error" => E.slices)]_bvars
  BY <1>1
<1> QED
  BY <1>2, PTL DEF BuildSpec, VersionIsOptional
=============================================================================
