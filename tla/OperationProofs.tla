-------------------------- MODULE OperationProofs ---------------------------
(***************************************************************************)
(* Theorems about Control and Operation for any number of callers, any     *)
(* number of things that go wrong, and any table of backends that meets a  *)
(* condition on its sequences of requests.  That the backends of the       *)
(* library meet these conditions is proved in BackendProofs.               *)
(***************************************************************************)
EXTENDS OperationProperties, WellFoundedInduction, FiniteSetTheorems, SequenceTheorems, TLAPS

(* The operations of a backend are sequences of requests, of operations    *)
(* that have a name.                                                       *)
WellFormed(b) ==
  \A op \in DOMAIN Operations(b) :
    op \in Names /\ Operations(b)[op] \in Seq(Requests)

-----------------------------------------------------------------------------
(* What a call has become after one of its steps. *)
Went(c, end) ==
  /\ calls'[c].op = calls[c].op /\ calls'[c].after = calls[c].after
  /\ calls'[c].at = IF end = "next" THEN calls[c].at + 1 ELSE calls[c].at
  /\ calls'[c].end = IF end = "next" THEN calls[c].end ELSE end

OnlyCall(c) == calls' = [d \in Calls |-> IF d = c THEN calls'[c] ELSE calls[d]]

LEMMA StepsTyped ==
  ASSUME ControlTypeOK, \A b \in Table : WellFormed(b), NEW c \in Calls, Begun(c)
  PROVE  /\ Steps(c) \in Seq(Requests)
         /\ calls[c].op \in DOMAIN Operations(backend) /\ calls[c].op # "none"
         /\ calls[c] \in CallRecords
         /\ Due(c) => Current(c) \in Requests
<1>1. calls[c].op \in DOMAIN Operations(backend) /\ backend \in Table /\ calls[c] \in CallRecords
  BY DEF ControlTypeOK
<1>2. Steps(c) \in Seq(Requests)
  BY <1>1 DEF WellFormed, Steps
<1> QED
  BY <1>1, <1>2 DEF Due, Current, Begun

LEMMA MarkTyped == \A c \in Calls : Mark(c) \in Values /\ Half(c) \in Values
BY DEF Values

LEMMA WantedTyped ==
  ASSUME ControlTypeOK, NEW c \in Calls, NEW x \in Cells
  PROVE  Wanted(c, x) \in Values
<1>1. calls[c].read["history"] \in Values
  BY DEF ControlTypeOK, CallRecords, Cells, Facts
<1> QED
  BY <1>1, MarkTyped DEF Wanted, Values

LEMMA SettledTyped ==
  ASSUME ControlTypeOK, NEW d \in [Cells -> Values]
  PROVE  /\ Settled(d) \in [Cells -> Values]
         /\ \A x \in Cells \ {"history", "active_pools"} : Settled(d)[x] = d[x]
<1>1. "mode" \in Cells /\ "pools" \in Cells /\ "active_pools" \in Cells /\ "history" \in Cells
  BY DEF Cells, Settings, Facts
<1>2. device \in [Cells -> Values]
  BY DEF ControlTypeOK
<1> QED
  BY <1>1, <1>2 DEF Settled

LEMMA AfterTyped ==
  ASSUME ControlTypeOK, NEW c \in Calls, NEW s \in Requests
  PROVE  After(c, s) \in [Cells -> Values] /\ Done(c, s) \in SUBSET Cells
<1>0. device \in [Cells -> Values] /\ calls[c].read \in [Cells -> Values]
  BY DEF ControlTypeOK, CallRecords
<1>1. Written(c, s) \in [Cells -> Values]
  <2> DEFINE d == [x \in Cells |->
             CASE x \in s.cells -> IF x = "active_pools" THEN "apply" ELSE Wanted(c, x)
               [] x \in s.kept -> calls[c].read[x]
               [] OTHER -> device[x]]
  <2>1. d \in [Cells -> Values]
    BY <1>0, WantedTyped DEF Values
  <2> HIDE DEF d
  <2>2. Settled(d) \in [Cells -> Values]
    BY <2>1, SettledTyped DEF Values
  <2> QED
    BY <2>2 DEF Written, d
<1>2. Fragments \subseteq Values /\ Mark(c) \in Values /\ Half(c) \in Values
  BY MarkTyped DEF Values
<1>3. Erased(c, s) \in [Cells -> Values]
  BY <1>0, <1>2 DEF Erased, Fragments
<1>4. Added(s) \in [Cells -> Values]
  BY <1>0, <1>2 DEF Added, Fragments
<1>5. Filled(c, s) \in [Cells -> Values]
  BY <1>0, <1>2 DEF Filled, Fragments
<1>6. Done(c, s) \in SUBSET Cells
  BY DEF Done, Requests
<1> QED
  BY <1>0, <1>1, <1>3, <1>4, <1>5, <1>6 DEF After

LEMMA GoesTyped ==
  ASSUME ControlTypeOK, NEW c \in Calls, Begun(c),
         NEW end \in {"none", "error", "false", "true", "dropped"} \union {"next"}
  PROVE  /\ Goes(c, end) \in CallRecords
         /\ Goes(c, end).op = calls[c].op /\ Goes(c, end).after = calls[c].after
         /\ Goes(c, end).read = calls[c].read /\ Goes(c, end).did = calls[c].did
         /\ Goes(c, end).at = IF end = "next" THEN calls[c].at + 1 ELSE calls[c].at
         /\ Goes(c, end).end = IF end = "next" THEN calls[c].end ELSE end
<1>1. calls[c] \in CallRecords
  BY DEF ControlTypeOK
<1>2. CASE end = "next"
  BY <1>1, <1>2 DEF Goes, CallRecords
<1>3. CASE end # "next"
  BY <1>1, <1>3 DEF Goes, CallRecords
<1> QED
  BY <1>2, <1>3

-----------------------------------------------------------------------------
(* What the steps of a call do, action by action.                          *)
LEMMA AnsweredDoes ==
  ASSUME ControlTypeOK, \A b \in Table : WellFormed(b), NEW c \in Calls, Answered(c)
  PROVE  /\ Begun(c) /\ ~Over(c) /\ calls[c].at \in DOMAIN Steps(c)
         /\ Current(c) \in Requests /\ IsRequest(c)
         /\ calls'[c] \in CallRecords /\ Went(c, Current(c).then) /\ OnlyCall(c)
         /\ device' = After(c, Current(c)) /\ troubles' = troubles
         /\ calls'[c].did = calls[c].did \union Done(c, Current(c))
         /\ calls'[c].read =
              [x \in Cells |-> IF Current(c).does = "read" /\ x \in Current(c).cells
                               THEN device[x] ELSE calls[c].read[x]]
<1> DEFINE s == Current(c)
           r == [x \in Cells |-> IF s.does = "read" /\ x \in s.cells
                                 THEN device[x] ELSE calls[c].read[x]]
           moved == Goes(c, s.then)
<1>1. Begun(c) /\ ~Over(c) /\ calls[c].at \in DOMAIN Steps(c) /\ IsRequest(c) /\ s \in Requests
  BY StepsTyped DEF Answered, Due
<1>2. /\ calls[c] \in CallRecords /\ device \in [Cells -> Values]
      /\ calls \in [Calls -> CallRecords]
      /\ calls[c].did \in SUBSET Cells /\ calls[c].read \in [Cells -> Values]
  BY DEF ControlTypeOK, CallRecords
<1>3. s.then \in {"none", "error", "false", "true", "dropped"} \union {"next"}
  BY <1>1 DEF Requests
<1>4. /\ moved \in CallRecords /\ moved.op = calls[c].op /\ moved.after = calls[c].after
      /\ moved.read = calls[c].read /\ moved.did = calls[c].did
      /\ moved.at = IF s.then = "next" THEN calls[c].at + 1 ELSE calls[c].at
      /\ moved.end = IF s.then = "next" THEN calls[c].end ELSE s.then
  BY <1>1, <1>3, GoesTyped
<1>5. Done(c, s) \in SUBSET Cells
  BY <1>1, AfterTyped
<1>6. r \in [Cells -> Values]
  BY <1>2
<1>7. /\ device' = After(c, s) /\ troubles' = troubles
      /\ calls' = [calls EXCEPT ![c] = [moved EXCEPT !.did = moved.did \union Done(c, s),
                       !.read = [x \in Cells |-> IF s.does = "read" /\ x \in s.cells
                                                 THEN device[x] ELSE moved.read[x]]]]
  BY DEF Answered
<1> HIDE DEF moved, s
<1>8. calls' =
        [calls EXCEPT ![c] = [moved EXCEPT !.did = calls[c].did \union Done(c, s), !.read = r]]
  BY <1>4, <1>7
<1> HIDE DEF r
<1>9. /\ calls'[c] = [moved EXCEPT !.did = calls[c].did \union Done(c, s), !.read = r]
      /\ OnlyCall(c)
  BY <1>2, <1>8 DEF OnlyCall
<1>10. calls'[c] \in CallRecords
  BY <1>2, <1>4, <1>5, <1>6, <1>9 DEF CallRecords
<1>11. calls'[c].did = calls[c].did \union Done(c, s) /\ calls'[c].read = r /\ Went(c, s.then)
  BY <1>4, <1>9 DEF Went, CallRecords
<1> QED
  BY <1>1, <1>7, <1>9, <1>10, <1>11 DEF s, r

LEMMA RefusedDoes ==
  ASSUME ControlTypeOK, \A b \in Table : WellFormed(b), NEW c \in Calls, Refused(c)
  PROVE  /\ Begun(c) /\ ~Over(c) /\ calls[c].at \in DOMAIN Steps(c)
         /\ Current(c) \in Requests
         /\ calls'[c] \in CallRecords /\ Went(c, Current(c).fail.refused) /\ OnlyCall(c)
         /\ calls'[c].did = calls[c].did /\ calls'[c].read = calls[c].read
         /\ device' = device /\ troubles' = troubles + 1 /\ troubles < MaxTroubles
<1>1. Begun(c) /\ ~Over(c) /\ calls[c].at \in DOMAIN Steps(c) /\ Current(c) \in Requests
  BY StepsTyped DEF Refused, Due
<1>2. Current(c).fail.refused \in {"none", "error", "false", "true", "dropped"} \union {"next"}
  BY <1>1 DEF Requests, Failures
<1>3. calls' = [calls EXCEPT ![c] = Goes(c, Current(c).fail.refused)]
  BY DEF Refused
<1>4. calls \in [Calls -> CallRecords]
  BY DEF ControlTypeOK
<1>5. calls'[c] = Goes(c, Current(c).fail.refused) /\ OnlyCall(c)
  BY <1>3, <1>4 DEF OnlyCall
<1> QED
  BY <1>1, <1>2, <1>5, GoesTyped DEF Went, Refused

LEMMA LostDoes ==
  ASSUME ControlTypeOK, \A b \in Table : WellFormed(b), NEW c \in Calls, Lost(c)
  PROVE  /\ Begun(c) /\ ~Over(c) /\ calls[c].at \in DOMAIN Steps(c)
         /\ Current(c) \in Requests /\ IsRequest(c)
         /\ calls'[c] \in CallRecords /\ Went(c, Current(c).fail.lost) /\ OnlyCall(c)
         /\ calls[c].did \subseteq calls'[c].did /\ calls'[c].read = calls[c].read
         /\ device' \in {device, After(c, Current(c))}
         /\ troubles' = troubles + 1 /\ troubles < MaxTroubles
<1> DEFINE moved == Goes(c, Current(c).fail.lost)
<1>1. /\ Begun(c) /\ ~Over(c) /\ calls[c].at \in DOMAIN Steps(c) /\ Current(c) \in Requests
      /\ IsRequest(c)
  BY StepsTyped DEF Lost, Due
<1>2. Current(c).fail.lost \in {"none", "error", "false", "true", "dropped"} \union {"next"}
  BY <1>1 DEF Requests, Failures
<1>3. /\ moved \in CallRecords /\ moved.op = calls[c].op /\ moved.after = calls[c].after
      /\ moved.read = calls[c].read /\ moved.did = calls[c].did
      /\ moved.at = IF Current(c).fail.lost = "next" THEN calls[c].at + 1 ELSE calls[c].at
      /\ moved.end = IF Current(c).fail.lost = "next" THEN calls[c].end ELSE Current(c).fail.lost
  BY <1>1, <1>2, GoesTyped
<1>4. PICK executed \in BOOLEAN :
        /\ device' = IF executed THEN After(c, Current(c)) ELSE device
        /\ calls' = [calls EXCEPT ![c] =
             [moved EXCEPT !.did = IF executed THEN moved.did \union Done(c, Current(c))
                                   ELSE moved.did]]
  BY DEF Lost
<1>5. calls \in [Calls -> CallRecords] /\ Done(c, Current(c)) \in SUBSET Cells
  BY <1>1, AfterTyped DEF ControlTypeOK
<1> HIDE DEF moved
<1>6. /\ calls'[c] = [moved EXCEPT !.did = IF executed THEN moved.did \union Done(c, Current(c))
                                           ELSE moved.did]
      /\ OnlyCall(c)
  BY <1>4, <1>5 DEF OnlyCall
<1>7. calls'[c] \in CallRecords
  BY <1>3, <1>5, <1>6 DEF CallRecords
<1>8. /\ Went(c, Current(c).fail.lost)
      /\ calls[c].did \subseteq calls'[c].did /\ calls'[c].read = calls[c].read
  BY <1>3, <1>6 DEF Went, CallRecords
<1> QED
  BY <1>1, <1>4, <1>6, <1>7, <1>8 DEF Lost

(* What looking at x comes to. *)
Finds(c, x) ==
  CASE Current(c).does = "needs" -> IF lacks = x THEN Current(c).fail.refused ELSE "next"
    [] Current(c).does = "erase" -> "next"
    [] Current(c).does = "done_if" -> IF AsWanted(c, x) THEN "true" ELSE "next"
    [] Current(c).does = "verify" -> IF calls[c].read[x] = Wanted(c, x) THEN "true" ELSE "false"

LEMMA LooksDoes ==
  ASSUME ControlTypeOK, \A b \in Table : WellFormed(b), NEW c \in Calls, Looks(c)
  PROVE  /\ Begun(c) /\ ~Over(c) /\ calls[c].at \in DOMAIN Steps(c)
         /\ Current(c) \in Requests /\ Current(c).does \in {"needs", "erase", "done_if", "verify"}
         /\ ~IsRequest(c)
         /\ \E x \in Current(c).cells : Went(c, Finds(c, x))
         /\ calls'[c] \in CallRecords /\ OnlyCall(c)
         /\ calls'[c].did = calls[c].did /\ calls'[c].read = calls[c].read
         /\ device' = device /\ troubles' = troubles
<1>1. /\ Begun(c) /\ ~Over(c) /\ calls[c].at \in DOMAIN Steps(c) /\ Current(c) \in Requests
      /\ ~IsRequest(c)
  BY StepsTyped DEF Looks, Due
<1>2. Current(c).does \in {"needs", "erase", "done_if", "verify"}
  BY <1>1 DEF Requests, IsRequest
<1>3. PICK x \in Current(c).cells : calls' = [calls EXCEPT ![c] = Goes(c, Finds(c, x))]
  BY DEF Looks, Finds
<1>4. Finds(c, x) \in {"none", "error", "false", "true", "dropped"} \union {"next"}
  BY <1>1, <1>2 DEF Finds, Requests, Failures
<1>5. calls \in [Calls -> CallRecords]
  BY DEF ControlTypeOK
<1>6. calls'[c] = Goes(c, Finds(c, x)) /\ OnlyCall(c)
  BY <1>3, <1>5 DEF OnlyCall
<1>7. Went(c, Finds(c, x)) /\ calls'[c] \in CallRecords
  BY <1>1, <1>4, <1>6, GoesTyped DEF Went
<1>8. calls'[c].did = calls[c].did /\ calls'[c].read = calls[c].read
  BY <1>1, <1>4, <1>6, GoesTyped
<1> QED
  BY <1>1, <1>2, <1>6, <1>7, <1>8 DEF Looks

LEMMA ReturnDoes ==
  ASSUME ControlTypeOK, NEW c \in Calls, Return(c)
  PROVE  /\ Begun(c) /\ ~Over(c) /\ calls[c].at > Len(Steps(c))
         /\ calls'[c] \in CallRecords /\ Went(c, "true") /\ OnlyCall(c)
         /\ calls'[c].did = calls[c].did /\ calls'[c].read = calls[c].read
         /\ device' = device /\ troubles' = troubles
<1>1. calls \in [Calls -> CallRecords]
  BY DEF ControlTypeOK
<1>2. calls'[c] = [calls[c] EXCEPT !.end = "true"] /\ OnlyCall(c)
  BY <1>1 DEF Return, OnlyCall
<1>3. calls'[c] \in CallRecords /\ Went(c, "true")
  BY <1>1, <1>2 DEF Went, CallRecords
<1>4. calls'[c].did = calls[c].did /\ calls'[c].read = calls[c].read
  BY <1>1, <1>2 DEF CallRecords
<1> QED
  BY <1>2, <1>3, <1>4 DEF Return

LEMMA DropDoes ==
  ASSUME ControlTypeOK, NEW c \in Calls, Drop(c)
  PROVE  /\ Begun(c) /\ ~Over(c)
         /\ calls'[c] \in CallRecords /\ Went(c, "dropped") /\ OnlyCall(c)
         /\ calls'[c].did = calls[c].did /\ calls'[c].read = calls[c].read
         /\ device' = device /\ troubles' = troubles + 1 /\ troubles < MaxTroubles
<1>1. calls \in [Calls -> CallRecords]
  BY DEF ControlTypeOK
<1>2. calls'[c] = [calls[c] EXCEPT !.end = "dropped"] /\ OnlyCall(c)
  BY <1>1 DEF Drop, OnlyCall
<1> QED
  BY <1>1, <1>2 DEF Drop, Due, Went, CallRecords

LEMMA IdleTyped ==
  /\ Idle \in CallRecords
  /\ Idle.op = "none" /\ Idle.at = 1 /\ Idle.did = {} /\ Idle.end = "none" /\ Idle.after = {}
  /\ Idle.read = [x \in Cells |-> "unread"]
<1>1. [x \in Cells |-> "unread"] \in [Cells -> Values]
  BY DEF Values
<1> QED
  BY <1>1 DEF Idle, CallRecords

LEMMA StartDoes ==
  ASSUME ControlTypeOK, \A b \in Table : WellFormed(b),
         NEW c \in Calls, NEW op \in DOMAIN Operations(backend), Start(c, op)
  PROVE  /\ ~Begun(c) /\ calls[c] = Idle /\ OnlyCall(c)
         /\ device' = device /\ troubles' = troubles
         /\ calls'[c] \in CallRecords
         /\ calls'[c].op = op /\ calls'[c].at = 1 /\ calls'[c].did = {}
         /\ calls'[c].end = "none" /\ calls'[c].after = {b \in Calls : Over(b)}
         /\ calls'[c].read = [x \in Cells |-> "unread"]
<1> DEFINE before == {b \in Calls : Over(b)}
<1>1. calls \in [Calls -> CallRecords] /\ op \in Names /\ before \in SUBSET Calls
  BY DEF ControlTypeOK, WellFormed
<1>2. calls' = [calls EXCEPT ![c] = [Idle EXCEPT !.op = op, !.after = before]]
  BY DEF Start
<1> HIDE DEF before
<1>3. calls'[c] = [Idle EXCEPT !.op = op, !.after = before] /\ OnlyCall(c)
  BY <1>1, <1>2 DEF OnlyCall
<1>4. /\ calls'[c] \in CallRecords
      /\ calls'[c].op = op /\ calls'[c].at = 1 /\ calls'[c].did = {}
      /\ calls'[c].end = "none" /\ calls'[c].after = before
      /\ calls'[c].read = [x \in Cells |-> "unread"]
  BY <1>1, <1>3, IdleTyped DEF CallRecords
<1>5. calls[c] = Idle
  BY DEF ControlTypeOK, Start
<1> QED
  BY <1>3, <1>4, <1>5 DEF Start, before

(* Every step of Operation is the step of a call, the beginning of one, a  *)
(* change made elsewhere, or leaves control alone.                         *)
Acts(c) ==
  Answered(c) \/ Refused(c) \/ Lost(c) \/ Looks(c) \/ Return(c) \/ Drop(c)

LEMMA StepCases ==
  ASSUME [Next]_vars
  PROVE  /\ UNCHANGED <<backend, was, lacks, awaited>>
         /\ \/ \E c \in Calls : Acts(c)
            \/ \E c \in Calls : \E op \in DOMAIN Operations(backend) : Start(c, op)
            \/ Elsewhere
            \/ UNCHANGED <<device, calls, troubles, touched>>
         /\ Elsewhere \/ UNCHANGED touched
<1>1. CASE Act
  <2>1. CASE Elsewhere
    BY <2>1 DEF Elsewhere
  <2>2. ASSUME NEW c \in Calls, Acts(c)
        PROVE  UNCHANGED <<backend, was, lacks, awaited, touched>>
    BY <2>2 DEF Acts, Answered, Refused, Lost, Looks, Return, Drop
  <2>3. ASSUME NEW c \in Calls, NEW op \in DOMAIN Operations(backend), Start(c, op)
        PROVE  UNCHANGED <<backend, was, lacks, awaited, touched>>
    BY <2>3 DEF Start
  <2> QED
    BY <1>1, <2>1, <2>2, <2>3 DEF Act, ControlNext, Acts
<1>2. CASE ReadAtOnce \/ BeginRead \/ Fetch \/ UNCHANGED vars
  <2>1. UNCHANGED cvars
    BY <1>2, Zenon DEF ReadAtOnce, BeginRead, Fetch, vars
  <2> QED
    BY <2>1 DEF cvars
<1> QED
  BY <1>1, <1>2 DEF Next
-----------------------------------------------------------------------------
(* A device in some mode. *)
LEMMA TypeInit ==
  ASSUME \A b \in Table : WellFormed(b)
  PROVE  Init => ControlTypeOK
<1> SUFFICES ASSUME ControlInit PROVE ControlTypeOK
  BY DEF Init
<1>1. PICK running \in {"mining", "paused"}, mode \in Modes(backend), split \in {"off", "on"} :
        device = Device(running, mode, IF mode = "sleep" THEN "low" ELSE "none", split)
  BY DEF ControlInit
<1>2. /\ {running, mode, split} \subseteq Values
      /\ {"old", "off", "low", "none"} \subseteq Values
  BY DEF Modes, Values, Fragments
<1>3. device \in [Cells -> Values]
  BY <1>1, <1>2 DEF Device
<1>4. lacks \in Cells \union {"nothing"}
  <2>1. ASSUME NEW op \in DOMAIN Operations(backend), NEW n \in DOMAIN Operations(backend)[op]
        PROVE  Operations(backend)[op][n].cells \in SUBSET Cells
    <3>1. Operations(backend)[op] \in Seq(Requests)
      BY DEF ControlInit, WellFormed
    <3>2. Operations(backend)[op][n] \in Requests
      BY <3>1
    <3> QED
      BY <3>2 DEF Requests
  <2>2. Needed(backend) \subseteq Cells
    BY <2>1 DEF Needed
  <2> QED
    BY <2>2 DEF ControlInit
<1>5. Idle \in CallRecords
  BY IdleTyped
<1>6. /\ calls = [c \in Calls |-> Idle] /\ was = device /\ backend \in Table /\ troubles = 0
      /\ touched = {}
  BY DEF ControlInit
<1>7. calls \in [Calls -> CallRecords] /\ \A c \in Calls : calls[c] = Idle /\ ~Begun(c)
  BY <1>5, <1>6 DEF Begun, Idle
<1>8. awaited \in 0..Len(Callers) /\ troubles \in 0..MaxTroubles
  BY <1>6, CallerAssumption DEF ControlInit
<1> QED
  BY <1>3, <1>4, <1>6, <1>7, <1>8 DEF ControlTypeOK

LEMMA TypeNext ==
  ASSUME ControlTypeOK, \A b \in Table : WellFormed(b), [Next]_vars
  PROVE  ControlTypeOK'
<1>1. UNCHANGED <<backend, was, lacks, awaited>>
  BY StepCases
<1>2. /\ device \in [Cells -> Values] /\ calls \in [Calls -> CallRecords]
      /\ troubles \in 0..MaxTroubles /\ MaxTroubles \in Nat /\ touched \in SUBSET Cells
      /\ \A c \in Calls : IF Begun(c) THEN calls[c].op \in DOMAIN Operations(backend)
                          ELSE calls[c] = Idle
  BY CallerAssumption DEF ControlTypeOK
<1> DEFINE Typed ==
        /\ device' \in [Cells -> Values] /\ calls' \in [Calls -> CallRecords]
        /\ troubles' \in 0..MaxTroubles /\ touched' \in SUBSET Cells
        /\ \A c \in Calls : IF Begun(c)' THEN calls'[c].op \in DOMAIN Operations(backend)
                            ELSE calls'[c] = Idle
<1>3. SUFFICES Typed
  BY <1>1 DEF ControlTypeOK, Begun, Operations
<1>4. ASSUME NEW c \in Calls, calls'[c] \in CallRecords, OnlyCall(c),
             calls'[c].op \in DOMAIN Operations(backend), calls'[c].op # "none"
      PROVE  /\ calls' \in [Calls -> CallRecords]
             /\ \A d \in Calls : IF Begun(d)' THEN calls'[d].op \in DOMAIN Operations(backend)
                                 ELSE calls'[d] = Idle
  BY <1>2, <1>4 DEF OnlyCall, Begun
<1>5. ASSUME NEW c \in Calls, Begun(c), NEW end, Went(c, end)
      PROVE  calls'[c].op \in DOMAIN Operations(backend) /\ calls'[c].op # "none"
  BY <1>2, <1>5 DEF Went, Begun
<1>6. ASSUME NEW c \in Calls, Acts(c)
      PROVE  Typed
  <2>1. /\ Begun(c) /\ calls'[c] \in CallRecords /\ OnlyCall(c) /\ \E end : Went(c, end)
        /\ device' \in {device, After(c, Current(c))}
        /\ device' = device \/ Current(c) \in Requests
        /\ troubles' = troubles \/ (troubles' = troubles + 1 /\ troubles < MaxTroubles)
    <3>1. CASE Answered(c)
      BY <3>1, AnsweredDoes
    <3>2. CASE Refused(c)
      BY <3>2, RefusedDoes
    <3>3. CASE Lost(c)
      BY <3>3, LostDoes
    <3>4. CASE Looks(c)
      BY <3>4, LooksDoes
    <3>5. CASE Return(c)
      BY <3>5, ReturnDoes
    <3>6. CASE Drop(c)
      BY <3>6, DropDoes
    <3> QED
      BY <1>6, <3>1, <3>2, <3>3, <3>4, <3>5, <3>6 DEF Acts
  <2>2. device' \in [Cells -> Values]
    BY <1>2, <2>1, AfterTyped
  <2>3. troubles' \in 0..MaxTroubles
    BY <1>2, <2>1
  <2>4. calls'[c].op \in DOMAIN Operations(backend) /\ calls'[c].op # "none"
    BY <1>5, <2>1
  <2>5. touched' = touched
    BY <1>6 DEF Acts, Answered, Refused, Lost, Looks, Return, Drop
  <2> QED
    BY <1>2, <1>4, <2>1, <2>2, <2>3, <2>4, <2>5
<1>7. ASSUME NEW c \in Calls, NEW op \in DOMAIN Operations(backend), Start(c, op)
      PROVE  Typed
  <2>1. op \in Names
    BY DEF WellFormed, ControlTypeOK
  <2>2. /\ OnlyCall(c) /\ device' = device /\ troubles' = troubles
        /\ calls'[c] \in CallRecords /\ calls'[c].op = op
    BY <1>7, StartDoes
  <2>3. calls'[c].op \in DOMAIN Operations(backend) /\ calls'[c].op # "none"
    BY <2>1, <2>2 DEF Names
  <2>4. touched' = touched
    BY <1>7 DEF Start
  <2> QED
    BY <1>2, <1>4, <2>2, <2>3, <2>4
<1>8. CASE Elsewhere
  <2>1. calls' = calls /\ troubles' = troubles + 1 /\ troubles < MaxTroubles
    BY <1>8 DEF Elsewhere
  <2>2. device' \in [Cells -> Values] /\ touched' \in SUBSET Cells
    <3>1. PICK x \in Used(backend) \intersect {"pools", "target", "fan", "overclock"} :
            device' = [device EXCEPT ![x] = "elsewhere"] /\ touched' = touched \union {x}
      BY <1>8 DEF Elsewhere
    <3> QED
      BY <1>2, <3>1 DEF Values, Cells, Settings
  <2> QED
    BY <1>2, <2>1, <2>2 DEF Begun
<1>9. CASE UNCHANGED <<device, calls, troubles, touched>>
  BY <1>2, <1>9 DEF Begun
<1> QED
  BY <1>6, <1>7, <1>8, <1>9, StepCases

(* The state of the calls and of the device has its type for every table   *)
(* of backends that is made of requests: what a call does to the device    *)
(* leaves values only that a setter, a reader or a page can leave.         *)
THEOREM TypeCorrect ==
  ASSUME \A b \in Table : WellFormed(b)
  PROVE  Spec => []ControlTypeOK
BY TypeInit, TypeNext, PTL DEF Spec

-----------------------------------------------------------------------------
(* What all steps of a call have in common.                                *)
LEMMA ActsDo ==
  ASSUME ControlTypeOK, \A b \in Table : WellFormed(b), NEW c \in Calls, Acts(c)
  PROVE  /\ Begun(c) /\ ~Over(c) /\ OnlyCall(c) /\ calls'[c] \in CallRecords
         /\ calls'[c].op = calls[c].op /\ calls'[c].after = calls[c].after
         /\ calls[c].did \subseteq calls'[c].did
         /\ troubles' \in {troubles, troubles + 1}
         /\ \/ device' = device
            \/ /\ calls[c].at \in DOMAIN Steps(c) /\ Current(c) \in Requests
               /\ device' = After(c, Current(c))
<1>1. CASE Answered(c)
  BY <1>1, AnsweredDoes DEF Went
<1>2. CASE Refused(c)
  BY <1>2, RefusedDoes DEF Went
<1>3. CASE Lost(c)
  BY <1>3, LostDoes DEF Went
<1>4. CASE Looks(c)
  BY <1>4, LooksDoes DEF Went
<1>5. CASE Return(c)
  BY <1>5, ReturnDoes DEF Went
<1>6. CASE Drop(c)
  BY <1>6, DropDoes DEF Went
<1> QED
  BY <1>1, <1>2, <1>3, <1>4, <1>5, <1>6 DEF Acts

(* A call comes after calls that are over. *)
AfterOver == \A c \in Calls : \A d \in calls[c].after : Over(d)

(* A call that is over stays as it is, one that has begun stays begun and  *)
(* after the same calls.                                                   *)
LEMMA CallsGoOn ==
  ASSUME ControlTypeOK, \A b \in Table : WellFormed(b), [Next]_vars, NEW c \in Calls, Begun(c)
  PROVE  /\ Begun(c)' /\ calls'[c].op = calls[c].op /\ calls'[c].after = calls[c].after
         /\ Steps(c)' = Steps(c)
         /\ Over(c) => calls'[c] = calls[c]
<1>1. backend' = backend
  BY StepCases
<1>2. ASSUME NEW d \in Calls, Acts(d)
      PROVE  /\ calls'[c].op = calls[c].op /\ calls'[c].after = calls[c].after
             /\ Over(c) => calls'[c] = calls[c]
  BY <1>2, ActsDo DEF OnlyCall
<1>3. ASSUME NEW d \in Calls, NEW op \in DOMAIN Operations(backend), Start(d, op)
      PROVE  calls'[c] = calls[c]
  BY <1>3, StartDoes DEF OnlyCall
<1>4. ASSUME Elsewhere
      PROVE  calls'[c] = calls[c]
  BY <1>4 DEF Elsewhere
<1> QED
  <2>1. /\ calls'[c].op = calls[c].op /\ calls'[c].after = calls[c].after
        /\ Over(c) => calls'[c] = calls[c]
    BY <1>2, <1>3, <1>4, StepCases
  <2> QED
    BY <1>1, <2>1 DEF Begun, Steps, Operations

LEMMA AfterOverNext ==
  ASSUME ControlTypeOK, \A b \in Table : WellFormed(b), AfterOver, [Next]_vars
  PROVE  AfterOver'
<1>1. \A d \in Calls : Over(d) => Over(d)' /\ Begun(d)
  BY CallsGoOn, IdleTyped DEF ControlTypeOK, Over
<1> SUFFICES ASSUME NEW c \in Calls, NEW d \in calls'[c].after
             PROVE  Over(d)'
  BY DEF AfterOver
<1>2. CASE Begun(c)
  <2>1. d \in calls[c].after /\ d \in Calls
    BY <1>2, CallsGoOn DEF ControlTypeOK, CallRecords
  <2> QED
    BY <1>1, <2>1 DEF AfterOver
<1>3. CASE ~Begun(c)
  <2>1. ASSUME NEW op \in DOMAIN Operations(backend), Start(c, op)
        PROVE  Over(d)'
    BY <1>1, <2>1, StartDoes
  <2>2. CASE calls'[c] = calls[c]
    BY <1>3, <2>2, IdleTyped DEF ControlTypeOK
  <2>3. ASSUME NEW e \in Calls, Acts(e)
        PROVE  calls'[c] = calls[c]
    BY <1>3, <2>3, ActsDo DEF OnlyCall
  <2>4. ASSUME NEW e \in Calls \ {c}, NEW op \in DOMAIN Operations(backend), Start(e, op)
        PROVE  calls'[c] = calls[c]
    BY <2>4, StartDoes DEF OnlyCall
  <2>5. CASE Elsewhere
    BY <2>2, <2>5 DEF Elsewhere
  <2> QED
    BY <2>1, <2>2, <2>3, <2>4, <2>5, StepCases
<1> QED
  BY <1>2, <1>3

(* Two calls that overlap go on to.                                        *)
LEMMA OverlapStays ==
  ASSUME ControlTypeOK, \A b \in Table : WellFormed(b), [Next]_vars, NEW c \in Calls, Begun(c),
         Overlapped(c)
  PROVE  Overlapped(c)'
<1>1. PICK other \in Others(c) :
        Begun(other) /\ other \notin calls[c].after /\ c \notin calls[other].after
  BY DEF Overlapped
<1>2. other \in Calls
  BY DEF Others
<1>3. /\ Begun(other)' /\ calls'[c].after = calls[c].after
      /\ calls'[other].after = calls[other].after
  BY <1>1, <1>2, CallsGoOn
<1> QED
  BY <1>1, <1>3 DEF Overlapped, Others

(* Whoever acts while a call is under way overlaps with it.                *)
LEMMA OthersOverlap ==
  ASSUME ControlTypeOK, \A b \in Table : WellFormed(b), AfterOver,
         NEW c \in Calls, Begun(c), ~Over(c), NEW d \in Calls \ {c}, Begun(d), ~Over(d)
  PROVE  Overlapped(c)
BY DEF AfterOver, Overlapped, Others

-----------------------------------------------------------------------------
(* NothingElseIsWritten.  The tables must keep to this: a request writes   *)
(* what the operation is about or what goes with it, and writes nothing    *)
(* else back than what it has read, for sure, and not changed since.       *)
Changes(s) == s.does \in {"write", "erase", "add", "fill"}

(* The operation goes on only if the request was answered. *)
Surely(s) == s.fail.refused # "next" /\ s.fail.lost # "next"

(* What the device changes by itself when something else is written.       *)
Derived == {"history", "active_pools"}

(* The step n of q finds x read and, as far as q goes, unchanged.          *)
Fresh(q, n, x) ==
  \E k \in 1..(n - 1) :
    /\ q[k].does = "read" /\ x \in q[k].cells /\ Surely(q[k])
    /\ \A m \in (k + 1)..(n - 1) : ~(Changes(q[m]) /\ x \in q[m].cells \union q[m].kept)

(* The operation op of the backend of that name is the sequence q; sleeps  *)
(* says whether the backend sleeps in a mode.                              *)
OwnSteps(name, sleeps, op, q) ==
  \A n \in DOMAIN q :
    /\ Changes(q[n]) => q[n].cells \subseteq Meant(sleeps, op) \union Aside(name, op)
    /\ q[n].kept # {} => name \in Rewriters
    /\ \A x \in q[n].kept : x \notin Derived /\ Fresh(q, n, x)

WritesItsOwn(b) ==
  \A op \in DOMAIN Operations(b) : OwnSteps(b.name, SleepsInMode(b), op, Operations(b)[op])

(* What a step leaves in a cell.                                           *)
LEMMA AfterIs ==
  ASSUME ControlTypeOK, NEW c \in Calls, NEW s \in Requests, NEW x \in Cells \ Derived
  PROVE  /\ ~(Changes(s) /\ x \in s.cells \union s.kept) => After(c, s)[x] = device[x]
         /\ s.does = "write" /\ x \in s.cells => After(c, s)[x] = Wanted(c, x)
         /\ s.does # "write" /\ x \notin s.cells => After(c, s)[x] = device[x]
         /\ x \in s.kept => After(c, s)[x] \in {device[x], calls[c].read[x]}
<1> DEFINE d == [y \in Cells |->
             CASE y \in s.cells -> IF y = "active_pools" THEN "apply" ELSE Wanted(c, y)
               [] y \in s.kept -> calls[c].read[y]
               [] OTHER -> device[y]]
<1>0. s.cells \intersect s.kept = {}
  BY DEF Requests
<1>1. CASE s.does = "write"
  <2>1. device \in [Cells -> Values] /\ calls[c].read \in [Cells -> Values]
    BY DEF ControlTypeOK, CallRecords
  <2>2. d \in [Cells -> Values]
    BY <2>1, WantedTyped DEF Values
  <2>3. d[x] = CASE x \in s.cells -> Wanted(c, x)
                 [] x \in s.kept -> calls[c].read[x]
                 [] OTHER -> device[x]
    BY DEF Derived
  <2> HIDE DEF d
  <2>4. After(c, s)[x] = d[x]
    BY <1>1, <2>2, SettledTyped DEF After, Written, d, Derived
  <2> QED
    BY <1>0, <1>1, <2>3, <2>4 DEF Changes
<1>2. CASE s.does = "erase"
  BY <1>0, <1>2 DEF After, Erased, Changes
<1>3. CASE s.does = "add"
  BY <1>0, <1>3 DEF After, Added, Changes
<1>4. CASE s.does = "fill"
  BY <1>0, <1>4 DEF After, Filled, Changes
<1>5. CASE s.does \notin {"write", "erase", "add", "fill"}
  BY <1>5 DEF After, Changes
<1> QED
  BY <1>1, <1>2, <1>3, <1>4, <1>5

(* Nothing is ever left waiting to be applied. *)
NoneApply ==
  /\ \A x \in Cells : device[x] # "apply"
  /\ \A c \in Calls, x \in Cells : calls[c].read[x] # "apply"

LEMMA WantedDoesNotApply ==
  ASSUME NoneApply, NEW c \in Calls, NEW x \in Cells
  PROVE  Wanted(c, x) # "apply"
<1>1. calls[c].read["history"] # "apply" /\ Mark(c) # "apply"
  BY CallerAssumption DEF NoneApply, Cells, Facts
<1> QED
  BY <1>1 DEF Wanted

LEMMA AfterDoesNotApply ==
  ASSUME ControlTypeOK, NoneApply, NEW c \in Calls, NEW s \in Requests
  PROVE  \A x \in Cells : After(c, s)[x] # "apply"
<1>1. device \in [Cells -> Values] /\ calls[c].read \in [Cells -> Values]
  BY DEF ControlTypeOK, CallRecords
<1>2. \A x \in Cells : device[x] # "apply" /\ calls[c].read[x] # "apply" /\ Wanted(c, x) # "apply"
  BY WantedDoesNotApply DEF NoneApply
<1>3. CASE s.does = "write"
  <2> DEFINE d == [y \in Cells |->
               CASE y \in s.cells -> IF y = "active_pools" THEN "apply" ELSE Wanted(c, y)
                 [] y \in s.kept -> calls[c].read[y]
                 [] OTHER -> device[y]]
  <2>1. \A x \in Cells \ {"active_pools"} : d[x] # "apply"
    BY <1>2
  <2>2. d \in [Cells -> Values] /\ {"mode", "pools", "history", "active_pools"} \subseteq Cells
    BY <1>1, WantedTyped DEF Values, Cells, Settings, Facts
  <2> HIDE DEF d
  <2>3. \A x \in Cells : Settled(d)[x] # "apply"
    BY <1>2, <2>1, <2>2 DEF Settled
  <2> QED
    BY <1>3, <2>3 DEF After, Written, d
<1>4. Mark(c) # "apply" /\ Half(c) # "apply"
  BY CallerAssumption
<1>5. CASE s.does = "erase"
  BY <1>2, <1>5 DEF After, Erased
<1>6. CASE s.does = "add"
  BY <1>2, <1>6 DEF After, Added
<1>7. CASE s.does = "fill"
  BY <1>2, <1>4, <1>7 DEF After, Filled
<1>8. CASE s.does \notin {"write", "erase", "add", "fill"}
  BY <1>2, <1>8 DEF After
<1> QED
  BY <1>3, <1>5, <1>6, <1>7, <1>8

LEMMA NoneApplyInit ==
  ASSUME ControlInit
  PROVE  NoneApply
<1>1. PICK running \in {"mining", "paused"}, mode \in Modes(backend), split \in {"off", "on"} :
        device = Device(running, mode, IF mode = "sleep" THEN "low" ELSE "none", split)
  BY DEF ControlInit
<1>2. mode # "apply"
  BY DEF Modes
<1>3. \A x \in Cells : device[x] # "apply"
  BY <1>1, <1>2 DEF Device
<1>4. \A c \in Calls, x \in Cells : calls[c].read[x] # "apply"
  BY IdleTyped DEF ControlInit
<1> QED
  BY <1>3, <1>4 DEF NoneApply

LEMMA NoneApplyNext ==
  ASSUME ControlTypeOK, \A b \in Table : WellFormed(b), NoneApply, [Next]_vars
  PROVE  NoneApply'
<1>1. ASSUME NEW c \in Calls, Acts(c)
      PROVE  NoneApply'
  <2>1. \A x \in Cells : device'[x] # "apply"
    BY <1>1, ActsDo, AfterDoesNotApply DEF NoneApply
  <2>2. \A x \in Cells : calls'[c].read[x] # "apply"
    <3>1. CASE Answered(c)
      <4>1. calls'[c].read =
              [x \in Cells |-> IF Current(c).does = "read" /\ x \in Current(c).cells
                               THEN device[x] ELSE calls[c].read[x]]
        BY <3>1, AnsweredDoes
      <4> QED
        BY <4>1 DEF NoneApply
    <3>2. CASE Refused(c) \/ Lost(c) \/ Looks(c) \/ Return(c) \/ Drop(c)
      BY <3>2, RefusedDoes, LostDoes, LooksDoes, ReturnDoes, DropDoes DEF NoneApply
    <3> QED
      BY <1>1, <3>1, <3>2 DEF Acts
  <2>3. OnlyCall(c)
    BY <1>1, ActsDo
  <2> QED
    BY <2>1, <2>2, <2>3 DEF NoneApply, OnlyCall
<1>2. ASSUME NEW c \in Calls, NEW op \in DOMAIN Operations(backend), Start(c, op)
      PROVE  NoneApply'
  BY <1>2, StartDoes DEF NoneApply, OnlyCall
<1>3. CASE Elsewhere
  <2>1. device \in [Cells -> Values]
    BY DEF ControlTypeOK
  <2> QED
    BY <1>3, <2>1 DEF Elsewhere, NoneApply
<1>4. CASE UNCHANGED <<device, calls, troubles, touched>>
  BY <1>4 DEF NoneApply
<1> QED
  BY <1>1, <1>2, <1>3, <1>4, StepCases

(* While a call is alone, what it has read for sure is what the device has,*)
(* but for what it has written itself and what was changed on the page.    *)
ReadsHold ==
  \A c \in Calls : Begun(c) /\ ~Over(c) /\ ~Overlapped(c) =>
    \A x \in Cells \ Derived :
      x \notin touched /\ Fresh(Steps(c), calls[c].at, x) => calls[c].read[x] = device[x]

LEMMA FreshBefore ==
  ASSUME NEW q, NEW n \in Nat, NEW x, Fresh(q, n + 1, x),
         ~(q[n].does = "read" /\ x \in q[n].cells /\ Surely(q[n]))
  PROVE  Fresh(q, n, x) /\ ~(Changes(q[n]) /\ x \in q[n].cells \union q[n].kept)
<1>1. PICK k \in 1..n :
        /\ q[k].does = "read" /\ x \in q[k].cells /\ Surely(q[k])
        /\ \A m \in (k + 1)..n : ~(Changes(q[m]) /\ x \in q[m].cells \union q[m].kept)
  BY DEF Fresh
<1>2. k \in 1..(n - 1) /\ n \in (k + 1)..n
  BY <1>1
<1> QED
  BY <1>1, <1>2 DEF Fresh

(* What has gone wrong has gone wrong, and without trouble a call goes on  *)
(* by answers, by looking at what it has read, or returns.                 *)
LEMMA TroublesStay ==
  ASSUME ControlTypeOK, \A b \in Table : WellFormed(b), [Next]_vars
  PROVE  /\ Troubled => Troubled'
         /\ ~Troubled' => ~Elsewhere
         /\ ~Troubled' => \A c \in Calls :
              /\ ~Refused(c) /\ ~Lost(c) /\ ~Drop(c)
              /\ Acts(c) => Answered(c) \/ Looks(c) \/ Return(c)
<1>1. troubles \in Nat /\ troubles' \in Nat
  BY TypeNext, CallerAssumption DEF ControlTypeOK
<1>2. ASSUME NEW d \in Calls, Acts(d)
      PROVE  troubles' >= troubles
  BY <1>1, <1>2, ActsDo
<1>3. ASSUME NEW d \in Calls, NEW op \in DOMAIN Operations(backend), Start(d, op)
      PROVE  troubles' = troubles
  BY <1>3, StartDoes
<1>4. Elsewhere => troubles' = troubles + 1
  BY DEF Elsewhere
<1>5. Troubled => Troubled'
  BY <1>1, <1>2, <1>3, <1>4, StepCases DEF Troubled
<1>6. ~Troubled' => \A c \in Calls : ~Refused(c) /\ ~Lost(c) /\ ~Drop(c)
  BY <1>1 DEF Refused, Lost, Drop, Troubled
<1> QED
  BY <1>1, <1>4, <1>5, <1>6 DEF Acts, Troubled

(* A call that is not over, not overlapped and not troubled after a step   *)
(* was so before it, and only its own steps can have changed anything.     *)
LEMMA StillAlone ==
  ASSUME ControlTypeOK, \A b \in Table : WellFormed(b), AfterOver, [Next]_vars,
         NEW c \in Calls, Begun(c), ~Over(c)', ~Overlapped(c)', ~Troubled'
  PROVE  /\ ~Over(c) /\ ~Overlapped(c) /\ ~Troubled
         /\ \/ Answered(c)
            \/ Looks(c)
            \/ UNCHANGED device /\ calls'[c] = calls[c]
<1>1. ~Over(c)
  BY CallsGoOn DEF Over
<1>2. ~Overlapped(c)
  BY OverlapStays
<1>3. troubles \in Nat /\ troubles' \in Nat /\ troubles' = 0
  BY TypeNext, CallerAssumption DEF ControlTypeOK, Troubled
<1>4. ASSUME NEW d \in Calls, Acts(d)
      PROVE  d = c /\ (Answered(c) \/ Looks(c)) /\ ~Troubled
  <2>1. d = c
    BY <1>1, <1>2, <1>4, ActsDo, OthersOverlap
  <2>2. troubles = 0
    BY <1>3, <1>4, ActsDo
  <2>3. ~Refused(c) /\ ~Lost(c) /\ ~Drop(c)
    BY <1>3, <2>2 DEF Refused, Lost, Drop
  <2>4. ~Return(c)
    BY ReturnDoes DEF Went, Over
  <2> QED
    BY <1>4, <2>1, <2>2, <2>3, <2>4 DEF Acts, Troubled
<1>5. ASSUME NEW d \in Calls, NEW op \in DOMAIN Operations(backend), Start(d, op)
      PROVE  UNCHANGED device /\ calls'[c] = calls[c] /\ ~Troubled
  BY <1>3, <1>5, StartDoes DEF OnlyCall, Troubled
<1>6. ~Elsewhere
  BY <1>3 DEF Elsewhere
<1>7. UNCHANGED troubles => ~Troubled
  BY <1>3 DEF Troubled
<1> QED
  BY <1>1, <1>2, <1>4, <1>5, <1>6, <1>7, StepCases

(* The same with troubles: only what was changed on the page is not its own.*)
LEMMA StaysAlone ==
  ASSUME ControlTypeOK, \A b \in Table : WellFormed(b), AfterOver, [Next]_vars,
         NEW c \in Calls, Begun(c), ~Over(c)', ~Overlapped(c)'
  PROVE  /\ ~Over(c) /\ ~Overlapped(c)
         /\ \/ Answered(c) /\ UNCHANGED touched
            \/ (Refused(c) \/ Lost(c)) /\ UNCHANGED touched
            \/ Looks(c) /\ UNCHANGED touched
            \/ /\ calls'[c] = calls[c]
               /\ \A x \in Cells : x \notin touched' => x \notin touched /\ device'[x] = device[x]
<1>1. ~Over(c)
  BY CallsGoOn DEF Over
<1>2. ~Overlapped(c)
  BY OverlapStays
<1>3. ASSUME NEW d \in Calls, Acts(d)
      PROVE  (Answered(c) \/ Refused(c) \/ Lost(c) \/ Looks(c)) /\ UNCHANGED touched
  <2>1. d = c
    BY <1>1, <1>2, <1>3, ActsDo, OthersOverlap
  <2>2. ~Return(c) /\ ~Drop(c)
    BY ReturnDoes, DropDoes DEF Went, Over
  <2>3. UNCHANGED touched
    BY <1>3 DEF Acts, Answered, Refused, Lost, Looks, Return, Drop
  <2> QED
    BY <1>3, <2>1, <2>2, <2>3 DEF Acts
<1>4. ASSUME NEW d \in Calls, NEW op \in DOMAIN Operations(backend), Start(d, op)
      PROVE  UNCHANGED <<device, touched>> /\ calls'[c] = calls[c]
  <2>1. UNCHANGED touched
    BY <1>4 DEF Start
  <2> QED
    BY <1>4, <2>1, StartDoes DEF OnlyCall
<1>5. ASSUME Elsewhere
      PROVE  /\ calls'[c] = calls[c]
             /\ \A x \in Cells : x \notin touched' => x \notin touched /\ device'[x] = device[x]
  <2>1. device \in [Cells -> Values]
    BY DEF ControlTypeOK
  <2> QED
    BY <1>5, <2>1 DEF Elsewhere
<1> QED
  BY <1>1, <1>2, <1>3, <1>4, <1>5, StepCases

LEMMA NewlyBegun ==
  ASSUME ControlTypeOK, \A b \in Table : WellFormed(b), [Next]_vars,
         NEW c \in Calls, ~Begun(c), Begun(c)'
  PROVE  \E op \in DOMAIN Operations(backend) : Start(c, op)
<1>1. ASSUME NEW d \in Calls, Acts(d)
      PROVE  FALSE
  BY <1>1, ActsDo DEF OnlyCall, Begun
<1>2. ASSUME NEW d \in Calls \ {c}, NEW op \in DOMAIN Operations(backend), Start(d, op)
      PROVE  FALSE
  BY <1>2, StartDoes DEF OnlyCall, Begun
<1>3. ~Elsewhere
  BY DEF Elsewhere, Begun
<1> QED
  BY <1>1, <1>2, <1>3, StepCases DEF Begun

LEMMA ReadsHoldNext ==
  ASSUME ControlTypeOK, \A b \in Table : WellFormed(b), AfterOver, ReadsHold, [Next]_vars
  PROVE  ReadsHold'
<1> SUFFICES ASSUME NEW c \in Calls, Begun(c)', ~Over(c)', ~Overlapped(c)',
                    NEW x \in Cells \ Derived, x \notin touched',
                    Fresh(Steps(c)', calls'[c].at, x)
             PROVE  calls'[c].read[x] = device'[x]
  BY DEF ReadsHold
<1>1. CASE ~Begun(c)
  <2>1. calls'[c].at = 1
    BY <1>1, NewlyBegun, StartDoes
  <2> QED
    BY <2>1 DEF Fresh
<1>2. CASE Begun(c)
  <2> DEFINE q == Steps(c)
             n == calls[c].at
             s == Current(c)
  <2>1. /\ ~Over(c) /\ ~Overlapped(c)
        /\ \/ Answered(c) /\ UNCHANGED touched
           \/ (Refused(c) \/ Lost(c)) /\ UNCHANGED touched
           \/ Looks(c) /\ UNCHANGED touched
           \/ calls'[c] = calls[c] /\ x \notin touched /\ device'[x] = device[x]
    BY <1>2, StaysAlone
  <2>2. x \notin touched /\ Fresh(q, n, x) => calls[c].read[x] = device[x]
    BY <1>2, <2>1 DEF ReadsHold
  <2>3. Steps(c)' = q /\ q \in Seq(Requests) /\ n \in Nat /\ s = q[n]
    BY <1>2, CallsGoOn, StepsTyped DEF CallRecords, Current
  <2>4. CASE Answered(c) /\ UNCHANGED touched
    <3>1. /\ s \in Requests /\ Went(c, s.then) /\ device' = After(c, s)
          /\ calls'[c].read[x] = IF s.does = "read" /\ x \in s.cells
                                 THEN device[x] ELSE calls[c].read[x]
      BY <2>4, AnsweredDoes
    <3>2. s.then \in {"next", "true"} /\ calls'[c].at = n + 1
      BY <3>1 DEF Requests, Went, Over
    <3>3. CASE s.does = "read" /\ x \in s.cells
      BY <3>1, <3>3 DEF After
    <3>4. CASE ~(s.does = "read" /\ x \in s.cells)
      <4>1. Fresh(q, n, x) /\ ~(Changes(s) /\ x \in s.cells \union s.kept)
        BY <2>3, <3>2, <3>4, FreshBefore
      <4>2. device'[x] = device[x]
        BY <3>1, <4>1, AfterIs
      <4> QED
        BY <2>2, <2>4, <3>1, <3>4, <4>1, <4>2
    <3> QED
      BY <3>3, <3>4
  <2>5. CASE (Refused(c) \/ Lost(c)) /\ UNCHANGED touched
    <3>1. /\ s \in Requests /\ device' \in {device, After(c, s)}
          /\ calls'[c].read = calls[c].read
          /\ Went(c, s.fail.refused) \/ Went(c, s.fail.lost)
      BY <2>5, RefusedDoes, LostDoes
    <3>2. calls'[c].at = n + 1 /\ ~Surely(s)
      BY <3>1 DEF Requests, Failures, Went, Over, Surely
    <3>3. Fresh(q, n, x) /\ ~(Changes(s) /\ x \in s.cells \union s.kept)
      BY <2>3, <3>2, FreshBefore
    <3>4. device'[x] = device[x]
      BY <3>1, <3>3, AfterIs
    <3> QED
      BY <2>2, <2>5, <3>1, <3>3, <3>4
  <2>6. CASE Looks(c) /\ UNCHANGED touched
    <3>1. /\ s.does # "read" /\ device' = device /\ calls'[c].read = calls[c].read
          /\ \E end : Went(c, end)
      BY <2>6, LooksDoes
    <3>2. calls'[c].at \in {n, n + 1}
      BY <3>1 DEF Went
    <3>3. Fresh(q, n, x)
      BY <2>3, <3>1, <3>2, FreshBefore
    <3> QED
      BY <2>2, <2>6, <3>1, <3>3
  <2>7. CASE calls'[c] = calls[c] /\ x \notin touched /\ device'[x] = device[x]
    BY <2>2, <2>3, <2>7
  <2> QED
    BY <2>1, <2>4, <2>5, <2>6, <2>7
<1> QED
  BY <1>1, <1>2

(* A call acts or stays as it is, unless it only begins. *)
LEMMA ActsOrStays ==
  ASSUME ControlTypeOK, \A b \in Table : WellFormed(b), [Next]_vars, NEW c \in Calls
  PROVE  \/ Acts(c)
         \/ calls'[c] = calls[c]
         \/ \E op \in DOMAIN Operations(backend) : Start(c, op)
<1>1. ASSUME NEW d \in Calls \ {c}, Acts(d)
      PROVE  calls'[c] = calls[c]
  BY <1>1, ActsDo DEF OnlyCall
<1>2. ASSUME NEW d \in Calls \ {c}, NEW op \in DOMAIN Operations(backend), Start(d, op)
      PROVE  calls'[c] = calls[c]
  BY <1>2, StartDoes DEF OnlyCall
<1>3. Elsewhere => calls' = calls
  BY DEF Elsewhere
<1> QED
  BY <1>1, <1>2, <1>3, StepCases

(* The invariant behind NothingElseIsWritten. *)
OwnInvariant == ControlTypeOK /\ AfterOver /\ NoneApply /\ ReadsHold

LEMMA OwnInit ==
  ASSUME \A b \in Table : WellFormed(b), Init
  PROVE  OwnInvariant
<1>1. ControlTypeOK /\ NoneApply
  BY TypeInit, NoneApplyInit DEF Init
<1>2. \A c \in Calls : calls[c] = Idle
  BY DEF Init, ControlInit
<1>3. AfterOver /\ ReadsHold
  BY <1>2, IdleTyped DEF AfterOver, ReadsHold, Begun
<1> QED
  BY <1>1, <1>3 DEF OwnInvariant

LEMMA OwnNext ==
  ASSUME \A b \in Table : WellFormed(b), OwnInvariant, [Next]_vars
  PROVE  OwnInvariant'
BY TypeNext, AfterOverNext, NoneApplyNext, ReadsHoldNext DEF OwnInvariant

(* A step of a call changes what the operation is about, what goes with it,*)
(* or writes back what has changed since it was read.                      *)
LEMMA OnlyItsOwn ==
  ASSUME \A b \in Table : WellFormed(b) /\ WritesItsOwn(b), OwnInvariant, [Next]_vars,
         NEW c \in Calls, NEW x \in Cells, calls'[c] # calls[c], device'[x] # device[x],
         x \notin Means(backend, calls[c].op) \union Aside(backend.name, calls[c].op)
  PROVE  /\ backend.name \in Rewriters /\ device'[x] = calls[c].read[x]
         /\ x \in touched \/ Overlapped(c)
<1> USE DEF OwnInvariant
<1>1. Acts(c)
  <2>1. ASSUME NEW d \in Calls, Acts(d)
        PROVE  d = c
    BY <2>1, ActsDo DEF OnlyCall
  <2>2. ASSUME NEW d \in Calls, NEW op \in DOMAIN Operations(backend), Start(d, op)
        PROVE  FALSE
    BY <2>2, StartDoes
  <2>3. ~Elsewhere
    BY DEF Elsewhere
  <2> QED
    BY <2>1, <2>2, <2>3, StepCases
<1> DEFINE s == Current(c)
<1>2. /\ Begun(c) /\ ~Over(c) /\ calls[c].at \in DOMAIN Steps(c) /\ s \in Requests
      /\ device' = After(c, s)
  BY <1>1, ActsDo
<1>3. backend \in Table /\ calls[c].op \in DOMAIN Operations(backend) /\ calls[c].op \in Names
  BY <1>2, StepsTyped DEF ControlTypeOK, WellFormed
<1>4. /\ Changes(s) => s.cells \subseteq Means(backend, calls[c].op)
                                           \union Aside(backend.name, calls[c].op)
      /\ s.kept # {} => backend.name \in Rewriters
      /\ \A y \in s.kept : y \notin Derived /\ Fresh(Steps(c), calls[c].at, y)
  BY <1>2, <1>3 DEF WritesItsOwn, OwnSteps, Means, Steps, Current
<1>5. CASE x \in Derived
  <2>1. x = "active_pools"
    BY <1>5 DEF Derived, Aside
  <2>2. s.does = "write"
    BY <1>2, <1>4, <2>1 DEF After, Erased, Added, Filled, Changes
  <2>3. x \notin s.cells \union s.kept
    BY <1>4, <1>5, <2>2 DEF Changes
  <2>4. device'[x] = device[x]
    BY <1>2, <2>1, <2>2, <2>3 DEF After, Written, Settled, NoneApply
  <2> QED
    BY <2>4
<1>6. CASE x \notin Derived
  <2>1. Changes(s) /\ x \in s.cells \union s.kept
    BY <1>2, <1>6, AfterIs
  <2>2. x \in s.kept
    BY <1>4, <2>1
  <2>3. device'[x] = calls[c].read[x]
    BY <1>2, <1>6, <2>2, AfterIs
  <2> QED
    BY <1>2, <1>4, <1>6, <2>2, <2>3 DEF ReadsHold
<1> QED
  BY <1>5, <1>6

(* An operation changes what it is about and nothing else, for any number  *)
(* of callers and troubles: a backend that writes a whole object back puts *)
(* a setting back as it found it, and only if another call or somebody on  *)
(* the page of the miner has changed it.                                   *)
THEOREM OnlyItsOwnIsWritten ==
  ASSUME \A b \in Table : WellFormed(b) /\ WritesItsOwn(b)
  PROVE  Spec => NothingElseIsWritten
<1> DEFINE Own ==
      \A c \in Calls, x \in Cells :
        /\ calls'[c] # calls[c] /\ device'[x] # device[x]
        /\ x \notin Means(backend, calls[c].op) \union Aside(backend.name, calls[c].op)
        => /\ backend.name \in Rewriters /\ device'[x] = calls[c].read[x]
           /\ x \in touched \/ Overlapped(c)
<1>1. Init => OwnInvariant
  BY OwnInit
<1>2. OwnInvariant /\ [Next]_vars => OwnInvariant'
  BY OwnNext
<1>3. OwnInvariant /\ [Next]_vars => [Own]_vars
  BY OnlyItsOwn
<1> QED
  BY <1>1, <1>2, <1>3, PTL DEF Spec, NothingElseIsWritten

-----------------------------------------------------------------------------
(* PoolsAreWhole.  Either the pools are written as one, by every backend   *)
(* but LuxMiner; or stored and switched over to, each for sure; or the     *)
(* groups that were read are removed and others added and filled.          *)
StoresThenSwitches(q) ==
  /\ \A n \in DOMAIN q :
       q[n].does = "write" /\ q[n].then = "next" /\ q[n].kept = {} /\ Surely(q[n])
  /\ \E m, n \in DOMAIN q :
       m <= n /\ "pools" \in q[m].cells /\ "active_pools" \in q[n].cells

RemovesAndAdds(q) ==
  /\ Len(q) = 7
  /\ q[1].does = "read" /\ q[2].does = "erase" /\ q[3].does = "erase"
  /\ q[4].does = "add" /\ q[5].does = "add" /\ q[6].does = "fill" /\ q[7].does = "fill"
  /\ \A n \in DOMAIN q : q[n].then = "next" /\ q[n].cells = {"pools"} /\ (n > 1 => Surely(q[n]))

LeavesAlone(q, cells) ==
  \A n \in DOMAIN q : Changes(q[n]) => (q[n].cells \union q[n].kept) \intersect cells = {}

PoolSteps(name, op, q) ==
  /\ name = "LuxMiner" =>
       IF op = "set_pools" THEN RemovesAndAdds(q) ELSE LeavesAlone(q, {"pools"})
  /\ name # "LuxMiner" => \A n \in DOMAIN q : q[n].does \notin {"erase", "add", "fill"}
  /\ name \in SwitchOver =>
       IF op = "set_pools" THEN StoresThenSwitches(q)
       ELSE LeavesAlone(q, {"pools", "active_pools"})

PoolsInOrder(b) ==
  \A op \in DOMAIN Operations(b) : PoolSteps(b.name, op, Operations(b)[op])

(* No pools are lost or joined where they are written as one.              *)
PoolsKnown ==
  backend.name # "LuxMiner" =>
    /\ device["pools"] \notin Partial
    /\ \A c \in Calls : calls[c].read["pools"] \notin Partial

LEMMA NoPartial ==
  /\ "old" \notin Partial /\ "unread" \notin Partial /\ "elsewhere" \notin Partial
  /\ \A c \in Calls : Mark(c) \notin Partial
<1>1. \A c \in Calls : Half(c) \notin {"old", "unread", "elsewhere"}
  BY CallerAssumption
<1>2. \A c, d \in Calls : Half(d) # Mark(c)
  BY CallerAssumption
<1>3. \A c \in Calls : Mark(c) \notin Fragments
  BY CallerAssumption
<1> QED
  BY <1>1, <1>2, <1>3 DEF Partial, Fragments

LEMMA PoolsKnownInit ==
  ASSUME ControlInit
  PROVE  PoolsKnown /\ device["pools"] = "old" /\ device["active_pools"] = "old"
<1>1. PICK running \in {"mining", "paused"}, mode \in Modes(backend), split \in {"off", "on"} :
        device = Device(running, mode, IF mode = "sleep" THEN "low" ELSE "none", split)
  BY DEF ControlInit
<1>2. "pools" \in Cells /\ "active_pools" \in Cells
  BY DEF Cells, Settings
<1>3. device["pools"] = "old" /\ device["active_pools"] = "old"
  BY <1>1, <1>2 DEF Device
<1>4. \A c \in Calls : calls[c].read["pools"] = "unread"
  BY <1>2, IdleTyped DEF ControlInit
<1> QED
  BY <1>3, <1>4, NoPartial DEF PoolsKnown

LEMMA PoolsKnownNext ==
  ASSUME ControlTypeOK, \A b \in Table : WellFormed(b) /\ PoolsInOrder(b), PoolsKnown, [Next]_vars
  PROVE  PoolsKnown'
<1>0. "pools" \in Cells \ Derived /\ backend' = backend
  BY StepCases DEF Cells, Settings, Derived
<1> SUFFICES ASSUME backend.name # "LuxMiner"
             PROVE  /\ device'["pools"] \notin Partial
                    /\ \A c \in Calls : calls'[c].read["pools"] \notin Partial
  BY <1>0 DEF PoolsKnown
<1>1. /\ device["pools"] \notin Partial
      /\ \A c \in Calls : calls[c].read["pools"] \notin Partial
  BY DEF PoolsKnown
<1>2. ASSUME NEW c \in Calls, Acts(c)
      PROVE  /\ device'["pools"] \notin Partial
             /\ calls'[c].read["pools"] \notin Partial
             /\ OnlyCall(c)
  <2>1. /\ Begun(c) /\ OnlyCall(c)
        /\ \/ device' = device
           \/ /\ calls[c].at \in DOMAIN Steps(c) /\ Current(c) \in Requests
              /\ device' = After(c, Current(c))
    BY <1>2, ActsDo
  <2>2. ASSUME calls[c].at \in DOMAIN Steps(c), Current(c) \in Requests
        PROVE  After(c, Current(c))["pools"] \notin Partial
    <3>1. Current(c).does \notin {"erase", "add", "fill"}
      BY <2>1, <2>2, StepsTyped DEF PoolsInOrder, PoolSteps, Steps, Current, ControlTypeOK
    <3>2. Wanted(c, "pools") \notin Partial
      BY NoPartial DEF Wanted
    <3> QED
      BY <1>0, <1>1, <2>2, <3>1, <3>2, AfterIs DEF Changes
  <2>3. calls'[c].read["pools"] \in {calls[c].read["pools"], device["pools"]}
    <3>1. CASE Answered(c)
      BY <1>0, <3>1, AnsweredDoes
    <3>2. CASE Refused(c) \/ Lost(c) \/ Looks(c) \/ Return(c) \/ Drop(c)
      BY <3>2, RefusedDoes, LostDoes, LooksDoes, ReturnDoes, DropDoes
    <3> QED
      BY <1>2, <3>1, <3>2 DEF Acts
  <2> QED
    BY <1>1, <2>1, <2>2, <2>3
<1>3. ASSUME NEW c \in Calls, NEW op \in DOMAIN Operations(backend), Start(c, op)
      PROVE  /\ device'["pools"] \notin Partial
             /\ calls'[c].read["pools"] \notin Partial
             /\ OnlyCall(c)
  BY <1>0, <1>1, <1>3, StartDoes, NoPartial
<1>4. CASE Elsewhere
  <2>1. device \in [Cells -> Values]
    BY DEF ControlTypeOK
  <2> QED
    BY <1>0, <1>1, <1>4, <2>1, NoPartial DEF Elsewhere
<1>5. CASE UNCHANGED <<device, calls, troubles, touched>>
  BY <1>1, <1>5
<1> QED
  BY <1>1, <1>2, <1>3, <1>4, <1>5, StepCases DEF OnlyCall

(* What a write does to the pools in use. *)
LEMMA SwitchIs ==
  ASSUME ControlTypeOK, NoneApply, NEW c \in Calls, NEW s \in Requests,
         Changes(s) => "active_pools" \notin s.kept /\ s.does = "write"
  PROVE  /\ s.does = "write" /\ "active_pools" \in s.cells
              => After(c, s)["active_pools"] = After(c, s)["pools"]
         /\ ~(Changes(s) /\ "active_pools" \in s.cells)
              => After(c, s)["active_pools"] = device["active_pools"]
<1> DEFINE d == [y \in Cells |->
             CASE y \in s.cells -> IF y = "active_pools" THEN "apply" ELSE Wanted(c, y)
               [] y \in s.kept -> calls[c].read[y]
               [] OTHER -> device[y]]
<1>1. CASE s.does = "write"
  <2>1. /\ "active_pools" \in Cells /\ "pools" \in Cells /\ "active_pools" \notin s.kept
        /\ device["active_pools"] # "apply"
    BY <1>1 DEF Cells, Settings, NoneApply, Changes
  <2>2. device \in [Cells -> Values] /\ calls[c].read \in [Cells -> Values]
    BY DEF ControlTypeOK, CallRecords
  <2>3. d \in [Cells -> Values]
    BY <2>2, WantedTyped DEF Values
  <2>4. d["active_pools"] = IF "active_pools" \in s.cells THEN "apply" ELSE device["active_pools"]
    BY <2>1
  <2> HIDE DEF d
  <2>5. After(c, s) = Settled(d)
    BY <1>1 DEF After, Written, d
  <2>6. /\ Settled(d)["pools"] = d["pools"]
        /\ Settled(d)["active_pools"] = IF d["active_pools"] = "apply" THEN d["pools"]
                                        ELSE d["active_pools"]
    BY <2>1, <2>3 DEF Settled
  <2> QED
    BY <1>1, <2>1, <2>4, <2>5, <2>6 DEF Changes
<1>2. CASE s.does # "write"
  BY <1>2 DEF After, Changes
<1> QED
  BY <1>1, <1>2

(* While no pools were set they are those the device had.                  *)
NoneSet ==
  /\ backend.name \in ManyStepPools /\ "pools" \notin touched
  /\ \A c \in Calls : ~PoolCall(c)
  => device["pools"] = "old" /\ (backend.name \in SwitchOver => device["active_pools"] = "old")

(* Only set_pools_config touches the pools of these backends.              *)
LEMMA OthersLeavePools ==
  ASSUME ControlTypeOK, \A b \in Table : WellFormed(b) /\ PoolsInOrder(b), NoneApply,
         backend.name \in ManyStepPools, NEW c \in Calls, Acts(c), ~PoolCall(c)
  PROVE  /\ device'["pools"] = device["pools"]
         /\ backend.name \in SwitchOver => device'["active_pools"] = device["active_pools"]
<1> DEFINE q == Steps(c)
           n == calls[c].at
           s == Current(c)
<1>1. /\ Begun(c) /\ backend \in Table /\ calls[c].op \in DOMAIN Operations(backend)
      /\ s = q[n] /\ "pools" \in Cells \ Derived
      /\ \/ device' = device
         \/ n \in DOMAIN q /\ s \in Requests /\ device' = After(c, s)
  BY ActsDo, StepsTyped DEF ControlTypeOK, Cells, Settings, Derived, Current
<1>2. ASSUME n \in DOMAIN q, s \in Requests
      PROVE  After(c, s)["pools"] = device["pools"]
  <2>1. LeavesAlone(q, {"pools"}) \/ LeavesAlone(q, {"pools", "active_pools"})
    BY <1>1 DEF PoolsInOrder, PoolSteps, Steps, PoolCall, ManyStepPools
  <2>2. ~(Changes(s) /\ "pools" \in s.cells \union s.kept)
    BY <1>1, <1>2, <2>1 DEF LeavesAlone
  <2> QED
    BY <1>1, <1>2, <2>2, AfterIs
<1>3. ASSUME n \in DOMAIN q, s \in Requests, backend.name \in SwitchOver
      PROVE  After(c, s)["active_pools"] = device["active_pools"]
  <2>1. LeavesAlone(q, {"pools", "active_pools"}) /\ s.does \notin {"erase", "add", "fill"}
    BY <1>1, <1>3 DEF PoolsInOrder, PoolSteps, Steps, PoolCall, SwitchOver
  <2>2. Changes(s) => s.does = "write" /\ "active_pools" \notin s.cells \union s.kept
    BY <1>1, <1>3, <2>1 DEF LeavesAlone, Changes
  <2> QED
    BY <1>3, <2>2, SwitchIs
<1> QED
  BY <1>1, <1>2, <1>3

LEMMA NoneSetNext ==
  ASSUME ControlTypeOK, \A b \in Table : WellFormed(b) /\ PoolsInOrder(b), NoneApply, NoneSet,
         [Next]_vars
  PROVE  NoneSet'
<1>0. backend' = backend
  BY StepCases
<1> SUFFICES ASSUME backend.name \in ManyStepPools, "pools" \notin touched',
                    \A c \in Calls : ~PoolCall(c)'
             PROVE  /\ device'["pools"] = "old"
                    /\ backend.name \in SwitchOver => device'["active_pools"] = "old"
  BY <1>0 DEF NoneSet
<1>1. \A c \in Calls : ~PoolCall(c)
  BY CallsGoOn DEF PoolCall, Begun
<1>2. "pools" \notin touched
      => device["pools"] = "old" /\ (backend.name \in SwitchOver => device["active_pools"] = "old")
  BY <1>1 DEF NoneSet
<1>3. ASSUME NEW c \in Calls, Acts(c)
      PROVE  /\ device'["pools"] = device["pools"] /\ UNCHANGED touched
             /\ backend.name \in SwitchOver => device'["active_pools"] = device["active_pools"]
  <2>1. UNCHANGED touched
    BY <1>3 DEF Acts, Answered, Refused, Lost, Looks, Return, Drop
  <2> QED
    BY <1>1, <1>3, <2>1, OthersLeavePools
<1>4. ASSUME NEW c \in Calls, NEW op \in DOMAIN Operations(backend), Start(c, op)
      PROVE  UNCHANGED <<device, touched>>
  BY <1>4 DEF Start
<1>5. ASSUME Elsewhere
      PROVE  /\ "pools" \notin touched /\ device'["pools"] = device["pools"]
             /\ device'["active_pools"] = device["active_pools"]
  <2>1. device \in [Cells -> Values] /\ {"pools", "active_pools"} \subseteq Cells
    BY DEF ControlTypeOK, Cells, Settings
  <2>2. PICK x \in Used(backend) \intersect {"pools", "target", "fan", "overclock"} :
          device' = [device EXCEPT ![x] = "elsewhere"] /\ touched' = touched \union {x}
    BY <1>5 DEF Elsewhere
  <2>3. x # "pools" /\ x # "active_pools"
    BY <2>2
  <2> QED
    BY <2>1, <2>2, <2>3
<1> QED
  BY <1>2, <1>3, <1>4, <1>5, StepCases

(* The pool calls that others neither overlap nor follow; on LuxMiner with *)
(* the groups they read.                                                   *)
HasThePools(c) ==
  /\ backend.name \in ManyStepPools /\ PoolCall(c) /\ "pools" \notin touched
  /\ backend.name = "LuxMiner" => calls[c].read["pools"] # "unread"

IsLast(c) == \A other \in Others(c) : PoolCall(other) => other \in calls[c].after

(* How far such a call has come: the groups it read are removed, its own   *)
(* are added and filled, one after the other ...                           *)
GroupsSoFar(c) ==
  LET there == device["pools"]
      found == calls[c].read["pools"]
      n == calls[c].at
  IN  /\ n # 1
      /\ n = 2 => there = found
      /\ n = 3 => IF found \in Single \union {"none"} THEN there = "none" ELSE there \in Single
      /\ n = 4 => there = "none"
      /\ n = 5 => there = "group"
      /\ n = 6 => there = "groups"
      /\ n = 7 => there = Half(c)
      /\ n > 7 => there = Mark(c) /\ "pools" \in calls[c].did

(* ... or its pools are stored, then those that are stored are in use.     *)
StoredSoFar(c) ==
  LET q == Steps(c)
      n == calls[c].at
  IN  /\ (\E k \in 1..(n - 1) : "pools" \in q[k].cells) => device["pools"] = Mark(c)
      /\ (\E j, k \in 1..(n - 1) :
            j <= k /\ "pools" \in q[j].cells /\ "active_pools" \in q[k].cells)
           => device["active_pools"] = Mark(c)

SoFar(c) == IF backend.name = "LuxMiner" THEN GroupsSoFar(c) ELSE StoredSoFar(c)

LeavesItsPools(c) ==
  /\ device["pools"] = Mark(c)
  /\ backend.name \in SwitchOver => device["active_pools"] = Mark(c)

PoolCallsHold ==
  \A c \in Calls : HasThePools(c) /\ ~OverlapsPools(c) =>
    /\ ~Over(c) => SoFar(c)
    /\ Succeeded(c) => /\ backend.name = "LuxMiner" => "pools" \in calls[c].did
                       /\ IsLast(c) => LeavesItsPools(c)

LEMMA GroupsGoOn ==
  ASSUME ControlTypeOK, \A b \in Table : WellFormed(b) /\ PoolsInOrder(b),
         backend.name = "LuxMiner", NEW c \in Calls, Acts(c), PoolCall(c),
         calls[c].read["pools"] # "unread" => GroupsSoFar(c),
         calls'[c].read["pools"] # "unread"
  PROVE  /\ calls'[c].end = "none" => GroupsSoFar(c)'
         /\ calls'[c].end = "true" => device'["pools"] = Mark(c) /\ "pools" \in calls'[c].did
<1> DEFINE q == Steps(c)
           n == calls[c].at
           s == Current(c)
           there == device["pools"]
           found == calls[c].read["pools"]
<1>1. /\ Begun(c) /\ ~Over(c) /\ backend \in Table /\ calls[c].op \in DOMAIN Operations(backend)
      /\ q \in Seq(Requests) /\ n \in Nat \ {0} /\ s = q[n] /\ calls[c].end = "none"
      /\ "pools" \in Cells
  BY ActsDo, StepsTyped DEF ControlTypeOK, CallRecords, Over, Current, Cells, Settings
<1>2. RemovesAndAdds(q)
  BY <1>1 DEF PoolsInOrder, PoolSteps, Steps, PoolCall
<1>3. ASSUME n \in DOMAIN q
      PROVE  /\ n \in 1..7 /\ s.then = "next" /\ s.cells = {"pools"} /\ (n > 1 => Surely(s))
             /\ n = 1 => s.does = "read"
             /\ n \in {2, 3} => s.does = "erase"
             /\ n \in {4, 5} => s.does = "add"
             /\ n \in {6, 7} => s.does = "fill"
  BY <1>1, <1>2, <1>3 DEF RemovesAndAdds
<1>4. n > 1 /\ calls'[c].read["pools"] = found => GroupsSoFar(c)
  OBVIOUS
<1>5. /\ Half(c) \notin Fragments \union {Mark(c)} /\ Mark(c) \notin Fragments
      /\ {"none", "fewer", "group", "groups", "mixed"} = Fragments
  BY CallerAssumption DEF Fragments
<1>6. CASE Answered(c)
  <2>1. /\ n \in DOMAIN q /\ Went(c, s.then) /\ device' = After(c, s) /\ IsRequest(c)
        /\ calls'[c].did = calls[c].did \union Done(c, s)
    BY <1>6, AnsweredDoes
  <2>2. calls'[c].read["pools"] = IF s.does = "read" THEN there ELSE found
    <3>1. calls'[c].read =
            [x \in Cells |-> IF s.does = "read" /\ x \in s.cells THEN device[x] ELSE calls[c].read[x]]
      BY <1>6, AnsweredDoes
    <3> QED
      BY <1>1, <1>3, <2>1, <3>1
  <2>3. calls'[c].at = n + 1 /\ calls'[c].end = "none" /\ s.cells = {"pools"} /\ n \in 1..7
    BY <1>1, <1>3, <2>1 DEF Went
  <2>4. CASE n = 1
    <3>1. device' = device
      BY <1>3, <2>1, <2>4 DEF After
    <3> QED
      BY <1>3, <2>1, <2>2, <2>3, <2>4, <3>1 DEF GroupsSoFar
  <2>5. CASE n = 2
    <3>1. s.does = "erase" /\ there = found /\ calls'[c].read["pools"] = found
      BY <1>3, <1>4, <2>1, <2>2, <2>5 DEF GroupsSoFar
    <3>2. found \notin {"unread", "none"}
      BY <2>1, <2>3, <3>1 DEF IsRequest
    <3>3. device'["pools"] = IF found \in Single THEN "none"
                            ELSE IF found = "groups" THEN "group" ELSE "fewer"
      BY <1>1, <2>1, <2>3, <3>1, <3>2 DEF After, Erased, Single
    <3> QED
      BY <2>3, <2>5, <3>1, <3>2, <3>3 DEF GroupsSoFar, Single
  <2>6. CASE n = 3
    <3>1. s.does = "erase" /\ calls'[c].read["pools"] = found
      BY <1>3, <2>1, <2>2, <2>6
    <3>2. HasErased(c)
      BY <1>1, <1>2, <2>6 DEF HasErased, RemovesAndAdds
    <3>3. found \notin Single \union {"unread", "none"}
      BY <2>1, <2>3, <3>1, <3>2 DEF IsRequest
    <3>4. there \in Single
      BY <1>4, <2>6, <3>1, <3>3 DEF GroupsSoFar
    <3>5. device'["pools"] = "none"
      BY <1>1, <2>1, <2>3, <3>1, <3>4 DEF After, Erased, Single
    <3> QED
      BY <2>3, <2>6, <3>5 DEF GroupsSoFar
  <2>7. CASE n \in {4, 5}
    <3>1. s.does = "add" /\ there = IF n = 4 THEN "none" ELSE "group"
      BY <1>3, <1>4, <2>1, <2>2, <2>7 DEF GroupsSoFar
    <3>2. device'["pools"] = IF n = 4 THEN "group" ELSE "groups"
      BY <1>1, <2>1, <2>3, <2>7, <3>1 DEF After, Added
    <3> QED
      BY <2>3, <2>7, <3>2 DEF GroupsSoFar
  <2>8. CASE n = 6
    <3>1. s.does = "fill" /\ there = "groups"
      BY <1>3, <1>4, <2>1, <2>2, <2>8 DEF GroupsSoFar
    <3>2. device'["pools"] = Half(c)
      BY <1>1, <1>5, <2>1, <2>3, <3>1 DEF After, Filled
    <3> QED
      BY <2>3, <2>8, <3>2 DEF GroupsSoFar, Half
  <2>9. CASE n = 7
    <3>1. s.does = "fill" /\ there = Half(c)
      BY <1>3, <1>4, <2>1, <2>2, <2>9 DEF GroupsSoFar
    <3>2. device'["pools"] = Mark(c)
      BY <1>1, <1>5, <2>1, <2>3, <3>1 DEF After, Filled
    <3>3. "pools" \in calls'[c].did
      BY <2>1, <2>3, <3>1 DEF Done
    <3> QED
      BY <2>3, <2>9, <3>2, <3>3 DEF GroupsSoFar, Mark
  <2> QED
    BY <2>3, <2>4, <2>5, <2>6, <2>7, <2>8, <2>9
<1>7. CASE Refused(c) \/ Lost(c)
  <2>1. /\ n \in DOMAIN q /\ s \in Requests /\ calls'[c].read = calls[c].read
        /\ Went(c, s.fail.refused) \/ Went(c, s.fail.lost)
    BY <1>7, RefusedDoes, LostDoes
  <2>2. n # 1
    BY <2>1 DEF GroupsSoFar
  <2> QED
    BY <1>1, <1>3, <2>1, <2>2 DEF Surely, Went, Requests, Failures
<1>8. CASE Looks(c)
  <2>1. /\ n \in DOMAIN q /\ s.does \in {"needs", "erase", "done_if", "verify"} /\ ~IsRequest(c)
        /\ device' = device /\ calls'[c].read = calls[c].read
        /\ \E x \in s.cells : Went(c, Finds(c, x))
    BY <1>8, LooksDoes
  <2>2. n \in {2, 3} /\ s.does = "erase" /\ s.cells = {"pools"}
    BY <1>3, <2>1
  <2>3. calls'[c].at = n + 1 /\ calls'[c].end = "none"
    BY <1>1, <2>1, <2>2 DEF Went, Finds
  <2>4. found \in {"none"} \union Single /\ (n = 2 => found = "none")
    <3>1. found = "none" \/ (HasErased(c) /\ found \in Single)
      BY <2>1, <2>2 DEF IsRequest
    <3>2. n = 2 => ~HasErased(c)
      BY <1>2 DEF HasErased, RemovesAndAdds
    <3> QED
      BY <3>1, <3>2
  <2>5. there = "none"
    BY <2>1, <2>2, <2>4 DEF GroupsSoFar
  <2> QED
    BY <2>1, <2>2, <2>3, <2>4, <2>5 DEF GroupsSoFar
<1>9. CASE Return(c)
  <2>1. /\ n > Len(q) /\ device' = device /\ calls'[c].read = calls[c].read
        /\ calls'[c].did = calls[c].did /\ Went(c, "true")
    BY <1>9, ReturnDoes
  <2>2. n > 7 /\ calls'[c].end = "true"
    BY <1>1, <1>2, <2>1 DEF RemovesAndAdds, Went
  <2> QED
    BY <2>1, <2>2 DEF GroupsSoFar
<1>10. CASE Drop(c)
  BY <1>10, DropDoes DEF Went
<1> QED
  BY <1>6, <1>7, <1>8, <1>9, <1>10 DEF Acts

LEMMA StoredGoesOn ==
  ASSUME ControlTypeOK, \A b \in Table : WellFormed(b) /\ PoolsInOrder(b), NoneApply,
         backend.name \in SwitchOver, NEW c \in Calls, Acts(c), PoolCall(c), StoredSoFar(c),
         backend' = backend
  PROVE  /\ calls'[c].end = "none" => StoredSoFar(c)'
         /\ calls'[c].end = "true" => LeavesItsPools(c)'
<1> DEFINE q == Steps(c)
           n == calls[c].at
           s == Current(c)
<1>1. /\ Begun(c) /\ ~Over(c) /\ backend \in Table /\ calls[c].op \in DOMAIN Operations(backend)
      /\ q \in Seq(Requests) /\ n \in Nat \ {0} /\ s = q[n] /\ calls[c].end = "none"
      /\ "pools" \in Cells \ Derived /\ calls'[c].op = calls[c].op
  BY ActsDo, StepsTyped
     DEF ControlTypeOK, CallRecords, Over, Current, Cells, Settings, Derived
<1>2. StoresThenSwitches(q) /\ Steps(c)' = q
  BY <1>1 DEF PoolsInOrder, PoolSteps, Steps, PoolCall, Operations
<1>3. ASSUME n \in DOMAIN q
      PROVE  s.does = "write" /\ s.then = "next" /\ s.kept = {} /\ Surely(s)
  BY <1>1, <1>2, <1>3 DEF StoresThenSwitches
<1>4. /\ \A k \in 1..(n - 1) : "pools" \in q[k].cells => device["pools"] = Mark(c)
      /\ \A j, k \in 1..(n - 1) :
           j <= k /\ "pools" \in q[j].cells /\ "active_pools" \in q[k].cells
             => device["active_pools"] = Mark(c)
  BY DEF StoredSoFar
<1>5. CASE Answered(c)
  <2>1. n \in DOMAIN q /\ s \in Requests /\ Went(c, s.then) /\ device' = After(c, s)
    BY <1>5, AnsweredDoes
  <2>2. calls'[c].at = n + 1 /\ calls'[c].end = "none"
    BY <1>1, <1>3, <2>1 DEF Went
  <2>3. /\ device'["pools"] = IF "pools" \in s.cells THEN Mark(c) ELSE device["pools"]
        /\ "active_pools" \in s.cells => device'["active_pools"] = device'["pools"]
        /\ "active_pools" \notin s.cells => device'["active_pools"] = device["active_pools"]
    BY <1>1, <1>3, <2>1, AfterIs, SwitchIs DEF Changes, Wanted
  <2>4. ASSUME NEW k \in 1..n, "pools" \in q[k].cells
        PROVE  device'["pools"] = Mark(c)
    <3>1. k = n \/ k \in 1..(n - 1)
      BY <1>1
    <3> QED
      BY <1>1, <1>4, <2>3, <2>4, <3>1
  <2>5. ASSUME NEW j \in 1..n, NEW k \in 1..n, j <= k, "pools" \in q[j].cells,
               "active_pools" \in q[k].cells
        PROVE  device'["active_pools"] = Mark(c)
    <3>1. CASE "active_pools" \in s.cells
      BY <2>3, <2>4, <2>5, <3>1
    <3>2. CASE "active_pools" \notin s.cells
      <4>1. j \in 1..(n - 1) /\ k \in 1..(n - 1)
        BY <1>1, <2>5, <3>2
      <4> QED
        BY <1>4, <2>3, <2>5, <3>2, <4>1
    <3> QED
      BY <3>1, <3>2
  <2>6. calls'[c].at - 1 = n
    BY <1>1, <2>2
  <2>7. \A k \in 1..(calls'[c].at - 1) : "pools" \in Steps(c)'[k].cells => device'["pools"] = Mark(c)
    BY <1>2, <2>4, <2>6
  <2>8. \A j, k \in 1..(calls'[c].at - 1) :
          j <= k /\ "pools" \in Steps(c)'[j].cells /\ "active_pools" \in Steps(c)'[k].cells
            => device'["active_pools"] = Mark(c)
    BY <1>2, <2>5, <2>6
  <2>9. StoredSoFar(c)'
    BY <2>7, <2>8 DEF StoredSoFar, Mark
  <2> QED
    BY <2>2, <2>9
<1>6. CASE Refused(c) \/ Lost(c)
  <2>1. /\ n \in DOMAIN q /\ s \in Requests
        /\ Went(c, s.fail.refused) \/ Went(c, s.fail.lost)
    BY <1>6, RefusedDoes, LostDoes
  <2> QED
    BY <1>1, <1>3, <2>1 DEF Surely, Went, Requests, Failures
<1>7. CASE Looks(c)
  <2>1. n \in DOMAIN q /\ s.does \in {"needs", "erase", "done_if", "verify"}
    BY <1>7, LooksDoes
  <2> QED
    BY <1>3, <2>1
<1>8. CASE Return(c)
  <2>1. n > Len(q) /\ device' = device /\ Went(c, "true")
    BY <1>8, ReturnDoes
  <2>2. PICK j \in DOMAIN q, k \in DOMAIN q :
          j <= k /\ "pools" \in q[j].cells /\ "active_pools" \in q[k].cells
    BY <1>2 DEF StoresThenSwitches
  <2>3. j \in 1..(n - 1) /\ k \in 1..(n - 1)
    BY <1>1, <2>1
  <2>4. device["pools"] = Mark(c) /\ device["active_pools"] = Mark(c)
    BY <1>4, <2>2, <2>3
  <2> QED
    BY <2>1, <2>4 DEF Went, LeavesItsPools, Mark
<1>9. CASE Drop(c)
  BY <1>9, DropDoes DEF Went
<1> QED
  BY <1>5, <1>6, <1>7, <1>8, <1>9 DEF Acts

LEMMA OverlapPoolsStays ==
  ASSUME ControlTypeOK, \A b \in Table : WellFormed(b), [Next]_vars, NEW c \in Calls, Begun(c),
         OverlapsPools(c)
  PROVE  OverlapsPools(c)'
<1>1. PICK other \in Others(c) :
        PoolCall(other) /\ other \notin calls[c].after /\ c \notin calls[other].after
  BY DEF OverlapsPools
<1>2. other \in Calls /\ Begun(other)
  BY <1>1 DEF Others, PoolCall, Begun
<1>3. /\ PoolCall(other)' /\ calls'[c].after = calls[c].after
      /\ calls'[other].after = calls[other].after
  BY <1>1, <1>2, CallsGoOn DEF PoolCall
<1> QED
  BY <1>1, <1>3 DEF OverlapsPools, Others

(* While such a call is under way, and after it, nobody else touches the   *)
(* pools.                                                                  *)
LEMMA PoolsKept ==
  ASSUME ControlTypeOK, \A b \in Table : WellFormed(b) /\ PoolsInOrder(b), AfterOver, NoneApply,
         [Next]_vars, NEW c \in Calls, PoolCall(c), ~Acts(c), ~OverlapsPools(c),
         ~Over(c) \/ IsLast(c), backend.name \in ManyStepPools, "pools" \notin touched'
  PROVE  /\ calls'[c] = calls[c] /\ device'["pools"] = device["pools"]
         /\ backend.name \in SwitchOver => device'["active_pools"] = device["active_pools"]
<1>1. Begun(c)
  BY DEF PoolCall, Begun
<1>2. ASSUME NEW d \in Calls, Acts(d)
      PROVE  /\ calls'[c] = calls[c] /\ device'["pools"] = device["pools"]
             /\ backend.name \in SwitchOver => device'["active_pools"] = device["active_pools"]
  <2>1. d \in Others(c) /\ Begun(d) /\ ~Over(d) /\ calls'[c] = calls[c]
    BY <1>2, ActsDo DEF OnlyCall, Others
  <2>2. ~PoolCall(d)
    <3>1. d \notin calls[c].after
      BY <2>1 DEF AfterOver
    <3>2. ~Over(c) => c \notin calls[d].after
      BY <1>2 DEF AfterOver
    <3> QED
      BY <2>1, <3>1, <3>2 DEF OverlapsPools, IsLast
  <2> QED
    BY <1>2, <2>1, <2>2, OthersLeavePools
<1>3. ASSUME NEW d \in Calls, NEW op \in DOMAIN Operations(backend), Start(d, op)
      PROVE  calls'[c] = calls[c] /\ device' = device
  BY <1>1, <1>3, StartDoes DEF OnlyCall
<1>4. ASSUME Elsewhere
      PROVE  /\ calls' = calls /\ device'["pools"] = device["pools"]
             /\ device'["active_pools"] = device["active_pools"]
  <2>1. device \in [Cells -> Values] /\ {"pools", "active_pools"} \subseteq Cells
    BY DEF ControlTypeOK, Cells, Settings
  <2>2. PICK x \in Used(backend) \intersect {"pools", "target", "fan", "overclock"} :
          device' = [device EXCEPT ![x] = "elsewhere"] /\ touched' = touched \union {x}
    BY <1>4 DEF Elsewhere
  <2>3. x # "pools" /\ x # "active_pools"
    BY <2>2
  <2>4. calls' = calls
    BY <1>4 DEF Elsewhere
  <2> QED
    BY <2>1, <2>2, <2>3, <2>4
<1> QED
  BY <1>2, <1>3, <1>4, StepCases

LEMMA PoolCallsHoldNext ==
  ASSUME ControlTypeOK, \A b \in Table : WellFormed(b) /\ PoolsInOrder(b), AfterOver, NoneApply,
         PoolCallsHold, [Next]_vars
  PROVE  PoolCallsHold'
<1>1. backend' = backend /\ touched \subseteq touched'
  BY StepCases DEF Elsewhere
<1> SUFFICES ASSUME NEW c \in Calls, HasThePools(c)', ~OverlapsPools(c)'
             PROVE  /\ ~Over(c)' => SoFar(c)'
                    /\ Succeeded(c)' =>
                         /\ backend.name = "LuxMiner" => "pools" \in calls'[c].did
                         /\ IsLast(c)' => LeavesItsPools(c)'
  BY <1>1 DEF PoolCallsHold
<1>2. /\ backend.name \in ManyStepPools /\ PoolCall(c)' /\ "pools" \notin touched'
      /\ "pools" \notin touched
      /\ backend.name = "LuxMiner" => calls'[c].read["pools"] # "unread"
  BY <1>1 DEF HasThePools
<1>3. CASE ~Begun(c)
  <2>1. calls'[c].read["pools"] = "unread" /\ calls'[c].at = 1 /\ calls'[c].end = "none"
    BY <1>3, <1>2, NewlyBegun, StartDoes DEF PoolCall, Begun, Cells, Settings
  <2> QED
    BY <1>1, <1>2, <2>1 DEF SoFar, StoredSoFar, Succeeded
<1>4. CASE Begun(c)
  <2>1. PoolCall(c) /\ ~OverlapsPools(c) /\ Steps(c)' = Steps(c)
    BY <1>2, <1>4, OverlapPoolsStays, CallsGoOn DEF PoolCall
  <2>2. /\ HasThePools(c) /\ ~Over(c) => SoFar(c)
        /\ HasThePools(c) /\ Succeeded(c) =>
             /\ backend.name = "LuxMiner" => "pools" \in calls[c].did
             /\ IsLast(c) => LeavesItsPools(c)
    BY <2>1 DEF PoolCallsHold
  <2>3. IsLast(c)' => IsLast(c)
    BY <1>4, CallsGoOn DEF IsLast, Others, PoolCall, Begun
  <2>4. CASE Acts(c)
    <3>1. ~Over(c)
      BY <2>4, ActsDo
    <3>2. CASE backend.name = "LuxMiner"
      <4>1. calls[c].read["pools"] # "unread" => GroupsSoFar(c)
        BY <1>2, <2>1, <2>2, <3>1, <3>2 DEF HasThePools, SoFar
      <4>2. /\ calls'[c].end = "none" => GroupsSoFar(c)'
            /\ calls'[c].end = "true" => device'["pools"] = Mark(c) /\ "pools" \in calls'[c].did
        BY <1>2, <2>1, <2>4, <3>2, <4>1, GroupsGoOn
      <4> QED
        BY <1>1, <3>2, <4>2 DEF SoFar, Over, Succeeded, LeavesItsPools, SwitchOver, Mark
    <3>3. CASE backend.name # "LuxMiner"
      <4>1. StoredSoFar(c) /\ backend.name \in SwitchOver
        BY <1>2, <2>1, <2>2, <3>1, <3>3 DEF HasThePools, SoFar, ManyStepPools
      <4>2. /\ calls'[c].end = "none" => StoredSoFar(c)'
            /\ calls'[c].end = "true" => LeavesItsPools(c)'
        BY <1>1, <2>1, <2>4, <4>1, StoredGoesOn
      <4> QED
        BY <1>1, <3>3, <4>2 DEF SoFar, Over, Succeeded
    <3> QED
      BY <3>2, <3>3
  <2>5. CASE ~Acts(c)
    <3>1. CASE ~Over(c)
      <4>1. /\ calls'[c] = calls[c] /\ device'["pools"] = device["pools"]
            /\ backend.name \in SwitchOver => device'["active_pools"] = device["active_pools"]
        BY <1>2, <2>1, <2>5, <3>1, PoolsKept
      <4>2. SoFar(c)
        BY <1>2, <2>1, <2>2, <3>1, <4>1 DEF HasThePools
      <4>3. SoFar(c)'
        BY <1>1, <1>2, <2>1, <4>1, <4>2
           DEF SoFar, GroupsSoFar, StoredSoFar, Mark, Half, ManyStepPools
      <4> QED
        BY <3>1, <4>1, <4>3 DEF Over, Succeeded
    <3>2. CASE Over(c)
      <4>1. calls'[c] = calls[c]
        BY <1>4, <3>2, CallsGoOn
      <4>2. HasThePools(c)
        BY <1>2, <2>1, <4>1 DEF HasThePools
      <4>3. ASSUME IsLast(c)', Succeeded(c)
            PROVE  LeavesItsPools(c)'
        <5>1. /\ device'["pools"] = device["pools"]
              /\ backend.name \in SwitchOver => device'["active_pools"] = device["active_pools"]
          BY <1>2, <2>1, <2>3, <2>5, <4>3, PoolsKept
        <5> QED
          BY <1>1, <2>2, <2>3, <4>2, <4>3, <5>1 DEF LeavesItsPools, Mark
      <4> QED
        BY <2>2, <3>2, <4>1, <4>2, <4>3 DEF Over, Succeeded
    <3> QED
      BY <3>1, <3>2
  <2> QED
    BY <2>4, <2>5
<1> QED
  BY <1>3, <1>4

(* The invariant behind PoolsAreWhole. *)
PoolInvariant ==
  ControlTypeOK /\ AfterOver /\ NoneApply /\ PoolsKnown /\ NoneSet /\ PoolCallsHold

LEMMA PoolInit ==
  ASSUME \A b \in Table : WellFormed(b), Init
  PROVE  PoolInvariant
<1>1. /\ OwnInvariant /\ PoolsKnown
      /\ device["pools"] = "old" /\ device["active_pools"] = "old"
  BY OwnInit, PoolsKnownInit DEF Init
<1>2. \A c \in Calls : ~PoolCall(c)
  BY IdleTyped DEF Init, ControlInit, PoolCall
<1>3. NoneSet /\ PoolCallsHold
  BY <1>1, <1>2 DEF NoneSet, PoolCallsHold, HasThePools
<1> QED
  BY <1>1, <1>3 DEF OwnInvariant, PoolInvariant

LEMMA PoolNext ==
  ASSUME \A b \in Table : WellFormed(b) /\ PoolsInOrder(b), PoolInvariant, [Next]_vars
  PROVE  PoolInvariant'
<1>1. ControlTypeOK' /\ AfterOver' /\ NoneApply'
  BY TypeNext, AfterOverNext, NoneApplyNext DEF PoolInvariant
<1> QED
  BY <1>1, PoolsKnownNext, NoneSetNext, PoolCallsHoldNext DEF PoolInvariant

(* Where the pools are one setting they are never in part; where they take *)
(* several requests, the last set_pools_config that succeeds leaves its    *)
(* own and no others, in use, whatever other calls, refusals, lost answers *)
(* and dropped calls left behind: for any number of callers and troubles   *)
(* and any table in which the pools are written as one, stored and switched*)
(* over to for sure, or removed, added and filled group by group.          *)
THEOREM PoolsAlwaysWhole ==
  ASSUME \A b \in Table : WellFormed(b) /\ PoolsInOrder(b)
  PROVE  Spec => []PoolsAreWhole
<1>1. Init => PoolInvariant
  BY PoolInit
<1>2. PoolInvariant /\ [Next]_vars => PoolInvariant'
  BY PoolNext
<1>3. PoolInvariant => PoolsAreWhole
  <2> SUFFICES ASSUME PoolInvariant, "pools" \notin touched
               PROVE  PoolsAreWhole
    BY DEF PoolsAreWhole
  <2>1. backend.name # "LuxMiner" \/ (\A c \in Calls : ~PoolCall(c)) =>
          device["pools"] \notin Partial
    BY NoPartial DEF PoolInvariant, PoolsKnown, NoneSet, ManyStepPools
  <2>2. backend.name \in SwitchOver /\ (\A c \in Calls : ~PoolCall(c)) =>
          device["active_pools"] = device["pools"]
    BY DEF PoolInvariant, NoneSet, ManyStepPools
  <2>3. ASSUME NEW c \in Calls, backend.name \in ManyStepPools, LastPools(c)
        PROVE  LeavesItsPools(c)
    <3>1. HasThePools(c) /\ IsLast(c) /\ Succeeded(c)
      BY <2>3 DEF LastPools, HasThePools, IsLast
    <3>2. ~OverlapsPools(c)
      BY <3>1 DEF IsLast, OverlapsPools
    <3> QED
      BY <3>1, <3>2 DEF PoolInvariant, PoolCallsHold
  <2> QED
    BY <2>1, <2>2, <2>3 DEF PoolsAreWhole, LeavesItsPools
<1> QED
  BY <1>1, <1>2, <1>3, PTL DEF Spec

-----------------------------------------------------------------------------
(* AnswersAreReal.  A request that must succeed for the operation to go on *)
SureWrite(s) == s.does = "write" /\ s.fail.refused # "next" /\ s.fail.lost # "next"

SureBefore(q, n, x) == \E m \in 1..(n - 1) : SureWrite(q[m]) /\ x \in q[m].cells

(* The operation can only say Ok(true) when what it is about was written   *)
(* for sure, or was found as it should be.                                 *)
SureSteps(q, x) ==
  /\ SureBefore(q, Len(q) + 1, x)
  /\ \A n \in DOMAIN q :
       /\ q[n].then = "true" => SureBefore(q, n, x) \/ (q[n].does = "write" /\ x \in q[n].cells)
       /\ q[n].does = "done_if" => q[n].cells = {x}
       /\ q[n].does = "verify" => SureBefore(q, n, x)

(* LuxMiner fills groups of pools one by one: PoolCallsHold says when they *)
(* are there.                                                              *)
FillsGroups(name, op) == name = "LuxMiner" /\ op = "set_pools"

SucceedsWhenDone(b) ==
  \A op \in DOMAIN Operations(b) :
    <<b.name, op>> \notin MayOnlyHope /\ ~FillsGroups(b.name, op) =>
      \A x \in Means(b, op) : SureSteps(Operations(b)[op], x)

(* Before step n the call has written x, and neither x again nor anything  *)
(* that what it wants depends on.                                          *)
Wrote(q, n, x) ==
  \E k \in 1..(n - 1) :
    /\ q[k].does = "write" /\ x \in q[k].cells
    /\ \A m \in (k + 1)..(n - 1) :
         /\ ~(Changes(q[m]) /\ x \in q[m].cells \union q[m].kept)
         /\ ~(q[m].does = "read" /\ "history" \in q[m].cells)

(* What is verified was written before and read after.                     *)
VerifiedSteps(q) ==
  \A n \in DOMAIN q : q[n].does = "verify" =>
    \A x \in q[n].cells : x \notin Derived /\ Fresh(q, n, x) /\ Wrote(q, n, x)

VerifiesItsOwn(b) == \A op \in DOMAIN Operations(b) : VerifiedSteps(Operations(b)[op])

Honest(b) == SucceedsWhenDone(b) /\ VerifiesItsOwn(b)

(* A call past a sure write has done it.                                   *)
SureDone ==
  \A c \in Calls : Begun(c) =>
    \A m \in 1..(calls[c].at - 1) :
      SureWrite(Steps(c)[m]) => Steps(c)[m].cells \subseteq calls[c].did

LEMMA SureDoneNext ==
  ASSUME ControlTypeOK, \A b \in Table : WellFormed(b), SureDone, [Next]_vars
  PROVE  SureDone'
<1> SUFFICES ASSUME NEW c \in Calls, Begun(c)', NEW m \in 1..(calls'[c].at - 1),
                    SureWrite(Steps(c)'[m])
             PROVE  Steps(c)'[m].cells \subseteq calls'[c].did
  BY DEF SureDone, SureWrite
<1>1. CASE ~Begun(c)
  BY <1>1, NewlyBegun, StartDoes
<1>2. CASE Begun(c)
  <2>1. Steps(c)' = Steps(c) /\ calls[c].at \in Nat
    BY <1>2, CallsGoOn, StepsTyped DEF CallRecords
  <2>2. m \in 1..(calls[c].at - 1) => Steps(c)[m].cells \subseteq calls[c].did
    BY <1>2, <2>1 DEF SureDone, SureWrite
  <2>3. ASSUME Acts(c)
        PROVE  Steps(c)[m].cells \subseteq calls'[c].did
    <3>1. calls[c].did \subseteq calls'[c].did
      BY <2>3, ActsDo
    <3>2. CASE m # calls[c].at
      <4>1. \E end : Went(c, end)
        BY <2>3, AnsweredDoes, RefusedDoes, LostDoes, LooksDoes, ReturnDoes, DropDoes DEF Acts
      <4>2. m \in 1..(calls[c].at - 1)
        BY <2>1, <3>2, <4>1 DEF Went
      <4> QED
        BY <2>2, <3>1, <4>2
    <3>3. CASE m = calls[c].at
      <4>1. SureWrite(Current(c)) /\ calls'[c].at = calls[c].at + 1
        <5>1. \E end : Went(c, end)
          BY <2>3, AnsweredDoes, RefusedDoes, LostDoes, LooksDoes, ReturnDoes, DropDoes DEF Acts
        <5> QED
          BY <2>1, <3>3, <5>1 DEF Went, Current, SureWrite
      <4>2. Answered(c)
        <5>1. ~Refused(c)
          BY <2>1, <4>1, RefusedDoes DEF Went, SureWrite
        <5>2. ~Lost(c)
          BY <2>1, <4>1, LostDoes DEF Went, SureWrite
        <5>3. ~Looks(c)
          BY <4>1, LooksDoes DEF SureWrite
        <5>4. ~Return(c) /\ ~Drop(c)
          BY <2>1, <4>1, ReturnDoes, DropDoes DEF Went
        <5> QED
          BY <2>3, <5>1, <5>2, <5>3, <5>4 DEF Acts
      <4>3. Current(c).cells \subseteq calls'[c].did
        BY <4>1, <4>2, AnsweredDoes DEF Done, SureWrite
      <4> QED
        BY <3>3, <4>3 DEF Current
    <3> QED
      BY <3>2, <3>3
  <2>4. CASE calls'[c] = calls[c]
    BY <2>1, <2>2, <2>4
  <2>5. Acts(c) \/ calls'[c] = calls[c]
    <3>1. ASSUME NEW d \in Calls \ {c}, Acts(d)
          PROVE  calls'[c] = calls[c]
      BY <3>1, ActsDo DEF OnlyCall
    <3>2. ASSUME NEW d \in Calls, NEW op \in DOMAIN Operations(backend), Start(d, op)
          PROVE  calls'[c] = calls[c]
      BY <1>2, <3>2, StartDoes DEF OnlyCall
    <3>3. Elsewhere => calls' = calls
      BY DEF Elsewhere
    <3> QED
      BY <3>1, <3>2, <3>3, StepCases
  <2> QED
    BY <2>1, <2>3, <2>4, <2>5
<1> QED
  BY <1>1, <1>2

(* The two halves of AnswersAreReal. *)
TrueIsDone ==
  \A c \in Calls :
    Succeeded(c) /\ <<backend.name, calls[c].op>> \notin MayOnlyHope /\ ~MayJoin(c) =>
      \A x \in Means(backend, calls[c].op) : x \in calls[c].did \/ AsWanted(c, x)

FailureHasReason ==
  \A c \in Calls :
    calls[c].end \in {"error", "false"} => Troubled \/ lacks # "nothing" \/ Overlapped(c)

LEMMA TrueIsDoneNext ==
  ASSUME ControlTypeOK, \A b \in Table : WellFormed(b) /\ SucceedsWhenDone(b), SureDone, TrueIsDone,
         [Next]_vars, PoolCallsHold'
  PROVE  TrueIsDone'
<1>1. backend' = backend
  BY StepCases
<1> SUFFICES ASSUME NEW c \in Calls, calls'[c].end = "true",
                    <<backend.name, calls'[c].op>> \notin MayOnlyHope, ~MayJoin(c)',
                    NEW x \in Means(backend, calls'[c].op)
             PROVE  x \in calls'[c].did \/ AsWanted(c, x)'
  BY <1>1 DEF TrueIsDone, Succeeded
<1>0. CASE FillsGroups(backend.name, calls'[c].op)
  <2>1. x = "pools"
    BY <1>0 DEF FillsGroups, Means, Meant
  <2>2. HasThePools(c)' /\ ~OverlapsPools(c)' /\ Succeeded(c)'
    BY <1>0, <1>1 DEF FillsGroups, MayJoin, HasThePools, PoolCall, Succeeded, ManyStepPools
  <2> QED
    BY <1>0, <1>1, <2>1, <2>2 DEF PoolCallsHold, FillsGroups
<1>2. CASE ~FillsGroups(backend.name, calls'[c].op) /\ calls'[c] = calls[c]
  BY <1>2 DEF TrueIsDone, Succeeded, AsWanted, Wanted, MayJoin, PoolCall, FillsGroups
<1>3. CASE \E op \in DOMAIN Operations(backend) : Start(c, op)
  BY <1>3, StartDoes
<1>4. CASE ~FillsGroups(backend.name, calls'[c].op) /\ Acts(c)
  <2> DEFINE q == Steps(c)
             n == calls[c].at
             s == Current(c)
  <2>1. /\ Begun(c) /\ ~Over(c)
        /\ calls'[c].op = calls[c].op /\ calls[c].did \subseteq calls'[c].did
        /\ backend \in Table /\ calls[c].op \in DOMAIN Operations(backend) /\ q \in Seq(Requests)
        /\ n \in Nat /\ calls[c].end = "none"
    BY <1>4, ActsDo, StepsTyped DEF ControlTypeOK, CallRecords, Over
  <2>2. /\ SureBefore(q, Len(q) + 1, x)
        /\ n \in DOMAIN q =>
             /\ s.then = "true" => SureBefore(q, n, x) \/ (s.does = "write" /\ x \in s.cells)
             /\ s.does = "done_if" => s.cells = {x}
             /\ s.does = "verify" => SureBefore(q, n, x)
    BY <1>4, <2>1 DEF SucceedsWhenDone, SureSteps, Steps, Current
  <2>3. ASSUME NEW m \in Nat, m <= n, SureBefore(q, m, x)
        PROVE  x \in calls'[c].did
    BY <2>1, <2>3 DEF SureDone, SureBefore
  <2>4. CASE Answered(c)
    <3>1. n \in DOMAIN q /\ s.then = "true" /\ calls'[c].did = calls[c].did \union Done(c, s)
      BY <2>1, <2>4, AnsweredDoes DEF Went
    <3> QED
      BY <2>1, <2>2, <2>3, <3>1 DEF Done
  <2>5. ~Refused(c)
    <3>1. Refused(c) => s \in Requests /\ Went(c, s.fail.refused)
      BY RefusedDoes
    <3> QED
      BY <2>1, <3>1 DEF Went, Requests, Failures
  <2>6. ~Lost(c)
    <3>1. Lost(c) => s \in Requests /\ Went(c, s.fail.lost)
      BY LostDoes
    <3> QED
      BY <2>1, <3>1 DEF Went, Requests, Failures
  <2>7. CASE Looks(c)
    <3>1. /\ n \in DOMAIN q /\ s \in Requests /\ s.does \in {"needs", "erase", "done_if", "verify"}
          /\ calls'[c].read = calls[c].read
          /\ \E y \in s.cells : Went(c, Finds(c, y))
      BY <2>7, LooksDoes
    <3>2. PICK y \in s.cells : Went(c, Finds(c, y))
      BY <3>1
    <3>3. Finds(c, y) = "true"
      BY <2>1, <3>2 DEF Went
    <3>4. CASE s.does \in {"needs", "erase"}
      BY <3>1, <3>3, <3>4 DEF Finds, Requests, Failures
    <3>5. CASE s.does = "done_if"
      <4>1. y = x /\ AsWanted(c, y)
        BY <2>2, <3>1, <3>2, <3>3, <3>5 DEF Finds
      <4> QED
        BY <2>1, <3>1, <4>1 DEF AsWanted, Wanted
    <3>6. CASE s.does = "verify"
      BY <2>1, <2>2, <2>3, <3>1, <3>6
    <3> QED
      BY <3>1, <3>4, <3>5, <3>6
  <2>8. CASE Return(c)
    <3>1. n > Len(q)
      BY <2>8, ReturnDoes
    <3> QED
      BY <2>1, <2>2, <2>3, <3>1
  <2>9. ~Drop(c)
    BY <2>1, DropDoes DEF Went
  <2> QED
    BY <1>4, <2>4, <2>5, <2>6, <2>7, <2>8, <2>9 DEF Acts
<1> QED
  BY <1>0, <1>2, <1>3, <1>4, ActsOrStays

(* While a call is alone and nothing has gone wrong, the device has what   *)
(* it has written.                                                         *)
WrittenHolds ==
  ~Troubled =>
    \A c \in Calls : Begun(c) /\ ~Over(c) /\ ~Overlapped(c) =>
      \A x \in Cells \ Derived :
        Wrote(Steps(c), calls[c].at, x) => device[x] = Wanted(c, x)

LEMMA WroteBefore ==
  ASSUME NEW q, NEW n \in Nat, NEW x, Wrote(q, n + 1, x), ~(q[n].does = "write" /\ x \in q[n].cells)
  PROVE  /\ Wrote(q, n, x)
         /\ ~(Changes(q[n]) /\ x \in q[n].cells \union q[n].kept)
         /\ ~(q[n].does = "read" /\ "history" \in q[n].cells)
<1>1. PICK k \in 1..n :
        /\ q[k].does = "write" /\ x \in q[k].cells
        /\ \A m \in (k + 1)..n :
             /\ ~(Changes(q[m]) /\ x \in q[m].cells \union q[m].kept)
             /\ ~(q[m].does = "read" /\ "history" \in q[m].cells)
  BY DEF Wrote
<1>2. k \in 1..(n - 1) /\ n \in (k + 1)..n
  BY <1>1
<1> QED
  BY <1>1, <1>2 DEF Wrote

LEMMA WantedStays ==
  ASSUME NEW c, NEW x, calls'[c].op = calls[c].op,
         calls'[c].read["history"] = calls[c].read["history"]
  PROVE  Wanted(c, x)' = Wanted(c, x)
BY DEF Wanted

LEMMA WrittenHoldsNext ==
  ASSUME ControlTypeOK, \A b \in Table : WellFormed(b), AfterOver, WrittenHolds, [Next]_vars
  PROVE  WrittenHolds'
<1> SUFFICES ASSUME ~Troubled', NEW c \in Calls, Begun(c)', ~Over(c)', ~Overlapped(c)',
                    NEW x \in Cells \ Derived, Wrote(Steps(c)', calls'[c].at, x)
             PROVE  device'[x] = Wanted(c, x)'
  BY DEF WrittenHolds
<1>1. CASE ~Begun(c)
  <2>1. calls'[c].at = 1
    BY <1>1, NewlyBegun, StartDoes
  <2> QED
    BY <2>1 DEF Wrote
<1>2. CASE Begun(c)
  <2>1. /\ ~Over(c) /\ ~Overlapped(c) /\ ~Troubled
        /\ Answered(c) \/ Looks(c) \/ (UNCHANGED device /\ calls'[c] = calls[c])
    BY <1>2, StillAlone
  <2>2. Wrote(Steps(c), calls[c].at, x) => device[x] = Wanted(c, x)
    BY <1>2, <2>1 DEF WrittenHolds
  <2>3. Steps(c)' = Steps(c) /\ Steps(c) \in Seq(Requests) /\ calls[c].at \in Nat
    BY <1>2, CallsGoOn, StepsTyped DEF CallRecords
  <2>4. CASE Answered(c)
    <3>1. /\ Current(c) \in Requests /\ Went(c, Current(c).then) /\ device' = After(c, Current(c))
          /\ calls'[c].read = [y \in Cells |->
               IF Current(c).does = "read" /\ y \in Current(c).cells
               THEN device[y] ELSE calls[c].read[y]]
      BY <2>4, AnsweredDoes
    <3>2. /\ calls'[c].at = calls[c].at + 1 /\ calls'[c].op = calls[c].op
          /\ "history" \in Cells
      BY <3>1 DEF Requests, Went, Over, Cells, Facts
    <3>3. CASE Current(c).does = "write" /\ x \in Current(c).cells
      <4>1. device'[x] = Wanted(c, x)
        BY <3>1, <3>3, AfterIs
      <4>2. Wanted(c, x)' = Wanted(c, x)
        BY <3>1, <3>2, <3>3, WantedStays
      <4> QED
        BY <4>1, <4>2
    <3>4. CASE ~(Current(c).does = "write" /\ x \in Current(c).cells)
      <4>1. /\ Wrote(Steps(c), calls[c].at, x)
            /\ ~(Changes(Current(c)) /\ x \in Current(c).cells \union Current(c).kept)
            /\ ~(Current(c).does = "read" /\ "history" \in Current(c).cells)
        <5> DEFINE q == Steps(c)
                   n == calls[c].at
        <5>1. Wrote(q, n + 1, x) /\ ~(q[n].does = "write" /\ x \in q[n].cells) /\ n \in Nat
          BY <2>3, <3>2, <3>4 DEF Current
        <5> HIDE DEF q, n
        <5>2. /\ Wrote(q, n, x)
              /\ ~(Changes(q[n]) /\ x \in q[n].cells \union q[n].kept)
              /\ ~(q[n].does = "read" /\ "history" \in q[n].cells)
          BY <5>1, WroteBefore
        <5> QED
          BY <5>2 DEF Current, q, n
      <4>2. device'[x] = device[x]
        BY <3>1, <4>1, AfterIs
      <4>3. Wanted(c, x)' = Wanted(c, x)
        BY <3>1, <3>2, <4>1, WantedStays
      <4> QED
        BY <2>2, <4>1, <4>2, <4>3
    <3> QED
      BY <3>3, <3>4
  <2>5. CASE Looks(c)
    <3>1. /\ Current(c).does \in {"needs", "erase", "done_if", "verify"} /\ ~IsRequest(c)
          /\ device' = device
          /\ calls'[c].read = calls[c].read
          /\ \E end : Went(c, end)
      BY <2>5, LooksDoes
    <3>2. calls'[c].at \in {calls[c].at, calls[c].at + 1} /\ calls'[c].op = calls[c].op
      BY <3>1 DEF Went
    <3>3. Wrote(Steps(c), calls[c].at, x)
      BY <2>3, <3>1, <3>2, WroteBefore DEF Current
    <3> QED
      BY <2>2, <3>1, <3>2, <3>3, WantedStays
  <2>6. CASE UNCHANGED device /\ calls'[c] = calls[c]
    BY <2>2, <2>3, <2>6, WantedStays
  <2> QED
    BY <2>1, <2>4, <2>5, <2>6
<1> QED
  BY <1>1, <1>2

(* Only trouble touches a setting from elsewhere.                          *)
TouchIsTrouble == touched # {} => Troubled

LEMMA TouchIsTroubleNext ==
  ASSUME ControlTypeOK, \A b \in Table : WellFormed(b), TouchIsTrouble, [Next]_vars
  PROVE  TouchIsTrouble'
<1>1. CASE Elsewhere
  BY <1>1, TroublesStay DEF TouchIsTrouble
<1>2. CASE ~Elsewhere
  BY <1>2, StepCases, TroublesStay DEF TouchIsTrouble
<1> QED
  BY <1>1, <1>2

LEMMA FailureHasReasonNext ==
  ASSUME ControlTypeOK, \A b \in Table : WellFormed(b) /\ VerifiesItsOwn(b), AfterOver,
         ReadsHold, WrittenHolds, TouchIsTrouble, FailureHasReason, [Next]_vars
  PROVE  FailureHasReason'
<1>1. backend' = backend /\ lacks' = lacks
  BY StepCases
<1>3. Troubled => Troubled'
  BY TroublesStay
<1> SUFFICES ASSUME NEW c \in Calls, calls'[c].end \in {"error", "false"}, ~Troubled',
                    lacks = "nothing", ~Overlapped(c)'
             PROVE  FALSE
  BY <1>1 DEF FailureHasReason
<1>4. CASE Over(c)
  <2>1. Begun(c) /\ calls'[c] = calls[c]
    BY <1>4, CallsGoOn, IdleTyped DEF ControlTypeOK, Over
  <2> QED
    BY <1>3, <2>1, OverlapStays DEF FailureHasReason
<1>5. CASE ~Over(c)
  <2>1. Acts(c)
    <3>1. calls'[c] # calls[c]
      BY <1>5 DEF Over
    <3>2. ASSUME NEW op \in DOMAIN Operations(backend), Start(c, op)
          PROVE  FALSE
      BY <3>2, StartDoes
    <3> QED
      BY <3>1, <3>2, ActsOrStays
  <2>2. /\ Begun(c) /\ backend \in Table /\ calls[c].op \in DOMAIN Operations(backend)
        /\ calls[c].at \in Nat /\ Steps(c) \in Seq(Requests) /\ calls[c].end = "none"
    BY <1>5, <2>1, ActsDo, StepsTyped DEF ControlTypeOK, CallRecords, Over
  <2>3. ~Overlapped(c) /\ ~Troubled
    BY <1>3, <2>2, OverlapStays
  <2>4. ~Refused(c) /\ ~Lost(c) /\ ~Drop(c)
    BY <2>1, TroublesStay
  <2>5. ~Answered(c)
    <3>1. Answered(c) => Current(c) \in Requests /\ Went(c, Current(c).then)
      BY AnsweredDoes
    <3> QED
      BY <2>2, <3>1 DEF Went, Requests
  <2>6. ~Return(c)
    BY ReturnDoes DEF Went
  <2>7. CASE Looks(c)
    <3>1. /\ calls[c].at \in DOMAIN Steps(c)
          /\ Current(c) \in Requests
          /\ Current(c).does \in {"needs", "erase", "done_if", "verify"}
      BY <2>7, LooksDoes
    <3>2. PICK x \in Current(c).cells : Went(c, Finds(c, x))
      BY <2>7, LooksDoes
    <3>3. Finds(c, x) \in {"error", "false"} /\ x \in Cells
      BY <2>2, <3>1, <3>2 DEF Went, Requests
    <3>4. CASE Current(c).does = "needs"
      BY <3>3, <3>4 DEF Finds, Cells, Settings, Facts
    <3>5. CASE Current(c).does \in {"erase", "done_if"}
      BY <3>3, <3>5 DEF Finds
    <3>6. CASE Current(c).does = "verify"
      <4>1. /\ x \notin Derived /\ Fresh(Steps(c), calls[c].at, x)
            /\ Wrote(Steps(c), calls[c].at, x)
        BY <2>2, <3>1, <3>2, <3>6 DEF VerifiesItsOwn, VerifiedSteps, Steps, Current
      <4>2. calls[c].read[x] = device[x] /\ device[x] = Wanted(c, x)
        BY <1>5, <2>2, <2>3, <3>3, <4>1 DEF ReadsHold, WrittenHolds, TouchIsTrouble
      <4> QED
        BY <3>3, <3>6, <4>2 DEF Finds
    <3> QED
      BY <3>1, <3>4, <3>5, <3>6
  <2> QED
    BY <2>1, <2>4, <2>5, <2>6, <2>7 DEF Acts
<1> QED
  BY <1>4, <1>5

(* The invariant behind AnswersAreReal. *)
RealInvariant ==
  PoolInvariant /\ ReadsHold /\ WrittenHolds /\ TouchIsTrouble /\ SureDone /\ TrueIsDone
    /\ FailureHasReason

LEMMA RealInit ==
  ASSUME \A b \in Table : WellFormed(b), Init
  PROVE  RealInvariant
<1>1. \A c \in Calls : calls[c] = Idle
  BY DEF Init, ControlInit
<1>2. ReadsHold /\ WrittenHolds /\ SureDone /\ TrueIsDone /\ FailureHasReason
  BY <1>1, IdleTyped
     DEF ReadsHold, WrittenHolds, SureDone, TrueIsDone, FailureHasReason, Begun, Succeeded
<1>3. TouchIsTrouble
  BY DEF Init, ControlInit, TouchIsTrouble
<1> QED
  BY <1>2, <1>3, PoolInit DEF RealInvariant

LEMMA RealNext ==
  ASSUME \A b \in Table : WellFormed(b) /\ Honest(b) /\ PoolsInOrder(b), RealInvariant,
         [Next]_vars
  PROVE  RealInvariant'
<1>1. PoolInvariant'
  BY PoolNext DEF RealInvariant
<1>2. ReadsHold' /\ WrittenHolds' /\ TouchIsTrouble' /\ SureDone'
  BY ReadsHoldNext, WrittenHoldsNext, TouchIsTroubleNext, SureDoneNext
     DEF RealInvariant, PoolInvariant
<1>3. TrueIsDone'
  BY <1>1, TrueIsDoneNext DEF RealInvariant, PoolInvariant, Honest
<1>4. FailureHasReason'
  BY FailureHasReasonNext DEF RealInvariant, PoolInvariant, Honest
<1> QED
  BY <1>1, <1>2, <1>3, <1>4 DEF RealInvariant

(* Ok(true) means done and anything else has a reason, for any number of   *)
(* concurrent calls on any table that is honest: an operation says Ok(true)*)
(* only behind a write that had to succeed, or groups that it has filled,  *)
(* and verifies what it wrote.                                             *)
THEOREM AnswersAlwaysReal ==
  ASSUME \A b \in Table : WellFormed(b) /\ Honest(b) /\ PoolsInOrder(b)
  PROVE  Spec => []AnswersAreReal
<1>1. Init => RealInvariant
  BY RealInit
<1>2. RealInvariant /\ [Next]_vars => RealInvariant'
  BY RealNext
<1>3. RealInvariant => AnswersAreReal
  BY DEF RealInvariant, TrueIsDone, FailureHasReason, AnswersAreReal
<1> QED
  BY <1>1, <1>2, <1>3, PTL DEF Spec

-----------------------------------------------------------------------------
(* The reads.  A reader tries its alternatives in their order: the first   *)
(* one that can be used is the least of a set of naturals.                 *)
LEMMA FirstOfSome ==
  ASSUME NEW T, T \subseteq Nat, T # {}
  PROVE  Min(T) \in T /\ \A n \in T : Min(T) <= n
<1> DEFINE R == OpToRel(<, Nat)
<1>1. \E m \in T : \A n \in T : ~(<<n, m>> \in R)
  BY NatLessThanWellFounded, WFMin
<1>2. PICK m \in T : \A n \in T : ~(<<n, m>> \in R)
  BY <1>1
<1>3. \A n \in T : ~(n < m)
  BY <1>2 DEF OpToRel
<1> HIDE DEF R
<1>4. \A n \in T : m <= n
  BY <1>3
<1> QED
  BY <1>4 DEF Min

(* What answered of the commands for the fields when some were lost.       *)
Answering(b, fields, lost, d) == [c \in Asked(b, fields) \ lost |-> d]

(* What the parser of f needs to be collected.                             *)
Own(name, f) == Collects(f) \union AlsoNeeds(name, f)

(* A reader or a row looks at nothing but its own fields, or it tries what *)
(* else it looks at only after what is its own and always tells.           *)
LooksAtIts(own, needs) == \A s \in needs : s[1] \in own

LooksAt(located, own, r) ==
  \A n \in DOMAIN r.tries :
    \/ LooksAtIts(own, r.tries[n].needs)
    \/ \E m \in DOMAIN r.tries :
         /\ m < n /\ r.tries[m].when = "always"
         /\ LooksAtIts(own, r.tries[m].needs) /\ r.tries[m].needs \subseteq located

PartsLookAt(own, t) ==
  \A p \in DOMAIN t.parts : \A needs \in t.parts[p].needs : LooksAtIts(own, needs)

(* When both m and n can be used, so can something that is tried before m. *)
TriedBefore(tries, m, n) ==
  \E k \in DOMAIN tries :
    /\ k < m /\ tries[k].needs \subseteq tries[m].needs \union tries[n].needs
    /\ tries[k].when = "always" \/ (tries[k].when = tries[n].when /\ tries[n].needs # {})

(* What it makes of some of its sources it makes of all of them, or it is  *)
(* one of the things it says instead; and of none of them it makes nothing.*)
SaysTheSame(instead, r) ==
  /\ r.otherwise \in Blank \union instead \/ DOMAIN r.tries = {}
  /\ \A m, n \in DOMAIN r.tries :
       \/ r.tries[m].says = r.tries[n].says \/ r.tries[m].needs \subseteq r.tries[n].needs
       \/ n < m \/ r.tries[n].says \in Blank \union instead \/ TriedBefore(r.tries, m, n)

PartsBlank(t) == \A p \in DOMAIN t.parts : t.parts[p].otherwise \in Blank

Numbered(b, f) == DOMAIN ReaderOf(b, f).tries \subseteq Nat

LEMMA SourceIs ==
  ASSUME NEW b, NEW fields, NEW lost, NEW d, NEW s
  PROVE  /\ s \in Sources(b, fields, Answering(b, fields, lost, d))
              <=> s \in b.located /\ s[1] \in fields /\ s[2] \notin lost
         /\ s \in Sources(b, fields, Answering(b, fields, lost, d))
              => Answering(b, fields, lost, d)[s[2]] = d
<1>1. s \in b.located /\ s[1] \in fields => s[2] \in Asked(b, fields)
  BY DEF Asked
<1> QED
  BY <1>1 DEF Sources, Answering

(* The alternatives that can be used are those whose sources are there and *)
(* that the device, the same in all answers, tells.                        *)
LEMMA UsableIs ==
  ASSUME NEW b, NEW f, NEW fields, NEW lost, NEW d
  PROVE  Usable(b, f, fields, Answering(b, fields, lost, d)) =
           {n \in DOMAIN ReaderOf(b, f).tries :
              /\ \A s \in ReaderOf(b, f).tries[n].needs :
                   s \in b.located /\ s[1] \in fields /\ s[2] \notin lost
              /\ \A s \in ReaderOf(b, f).tries[n].needs : Told(ReaderOf(b, f).tries[n].when, d)}
<1> DEFINE a == Answering(b, fields, lost, d)
           tries == ReaderOf(b, f).tries
<1>1. \A n : tries[n].needs \subseteq Sources(b, fields, a) <=>
               \A s \in tries[n].needs : s \in b.located /\ s[1] \in fields /\ s[2] \notin lost
  BY SourceIs
<1>2. \A n : tries[n].needs \subseteq Sources(b, fields, a) =>
               \A s \in tries[n].needs : a[s[2]] = d
  BY SourceIs
<1> HIDE DEF a
<1>3. Usable(b, f, fields, a) =
        {n \in DOMAIN tries :
           /\ tries[n].needs \subseteq Sources(b, fields, a)
           /\ \A s \in tries[n].needs : Told(tries[n].when, a[s[2]])}
  BY DEF Usable
<1> HIDE DEF tries
<1>4. \A n \in DOMAIN tries :
         /\ tries[n].needs \subseteq Sources(b, fields, a)
         /\ \A s \in tries[n].needs : Told(tries[n].when, a[s[2]])
       <=>
         /\ \A s \in tries[n].needs : s \in b.located /\ s[1] \in fields /\ s[2] \notin lost
         /\ \A s \in tries[n].needs : Told(tries[n].when, d)
  BY <1>1, <1>2
<1> QED
  BY <1>3, <1>4 DEF a, tries

(* A field is read alike from all answers and from those to its own fields.*)
LEMMA ReadsAlike ==
  ASSUME NEW b, NEW f, NEW own, LooksAt(b.located, own, ReaderOf(b, f)), Numbered(b, f), NEW d,
         NEW fields, NEW more, own \subseteq fields, fields \subseteq more
  PROVE  Reads(b, f, fields, Answering(b, fields, {}, d)) =
           Reads(b, f, more, Answering(b, more, {}, d))
<1> DEFINE tries == ReaderOf(b, f).tries
           Is(n, some) ==
             /\ \A s \in tries[n].needs : s \in b.located /\ s[1] \in some /\ s[2] \notin {}
             /\ \A s \in tries[n].needs : Told(tries[n].when, d)
           few == Usable(b, f, fields, Answering(b, fields, {}, d))
           all == Usable(b, f, more, Answering(b, more, {}, d))
<1>1. few = {n \in DOMAIN tries : Is(n, fields)} /\ all = {n \in DOMAIN tries : Is(n, more)}
  BY UsableIs
<1>2. \A n \in DOMAIN tries :
        /\ Is(n, fields) => Is(n, more)
        /\ LooksAtIts(own, tries[n].needs) /\ Is(n, more) => Is(n, fields)
  BY DEF LooksAtIts
<1>3. \A m \in DOMAIN tries :
        /\ tries[m].when = "always"
        /\ LooksAtIts(own, tries[m].needs) /\ tries[m].needs \subseteq b.located
        => Is(m, more)
  BY DEF LooksAtIts, Told
<1>4. \A n \in DOMAIN tries :
        \/ LooksAtIts(own, tries[n].needs)
        \/ \E m \in DOMAIN tries :
             /\ m < n /\ tries[m].when = "always"
             /\ LooksAtIts(own, tries[m].needs) /\ tries[m].needs \subseteq b.located
  BY DEF LooksAt
<1>5. DOMAIN tries \subseteq Nat
  BY DEF Numbered
<1> HIDE DEF Is, tries, few, all
<1>6. few \subseteq all /\ all \subseteq Nat /\ all \subseteq DOMAIN tries
  BY <1>1, <1>2, <1>5
<1>7. CASE all = {}
  BY <1>6, <1>7 DEF Reads, few, all
<1>8. CASE all # {}
  <2>1. /\ Min(all) \in all /\ \A n \in all : n \in Nat /\ Min(all) <= n
        /\ Min(all) \in Nat
    BY <1>6, <1>8, FirstOfSome
  <2>2. LooksAtIts(own, tries[Min(all)].needs)
    <3>1. \A m \in all : ~(m < Min(all))
      BY ONLY <2>1
    <3>2. Min(all) \in DOMAIN tries
      BY <1>6, <2>1
    <3>3. \A m \in DOMAIN tries :
            tries[m].when = "always" /\ LooksAtIts(own, tries[m].needs)
              /\ tries[m].needs \subseteq b.located => m \in all
      BY <1>1, <1>3
    <3> QED
      BY ONLY <1>4, <3>1, <3>2, <3>3
  <2>3. Min(all) \in few
    BY <1>1, <1>2, <1>6, <2>1, <2>2
  <2>4. Min(few) \in few /\ Min(few) <= Min(all) /\ Min(few) \in Nat
    BY <1>6, <2>3, FirstOfSome
  <2>5. Min(all) <= Min(few)
    BY <1>6, <2>1, <2>4
  <2>6. Min(few) = Min(all)
    BY ONLY <2>1, <2>4, <2>5
  <2> QED
    BY <1>8, <2>3, <2>6 DEF Reads, few, all
<1> QED
  BY <1>7, <1>8

LEMMA RowsAlike ==
  ASSUME NEW b, NEW f, NEW own, PartsLookAt(own, b.rows[f]), NEW d,
         NEW fields, NEW more, own \subseteq fields, fields \subseteq more
  PROVE  RowParts(b, f, fields, Answering(b, fields, {}, d)) =
           RowParts(b, f, more, Answering(b, more, {}, d))
<1> DEFINE parts == b.rows[f].parts
           few == Sources(b, fields, Answering(b, fields, {}, d))
           all == Sources(b, more, Answering(b, more, {}, d))
<1>1. \A p \in DOMAIN parts : \A needs \in parts[p].needs :
        needs \subseteq few <=> needs \subseteq all
  BY SourceIs DEF PartsLookAt, LooksAtIts
<1> HIDE DEF few, all
<1>2. \A p \in DOMAIN parts :
        (\E needs \in parts[p].needs : needs \subseteq few) <=>
          (\E needs \in parts[p].needs : needs \subseteq all)
  BY <1>1
<1>3. /\ RowParts(b, f, fields, Answering(b, fields, {}, d)) =
           [p \in DOMAIN parts |-> IF \E needs \in parts[p].needs : needs \subseteq few
                                   THEN "given" ELSE parts[p].otherwise]
      /\ RowParts(b, f, more, Answering(b, more, {}, d)) =
           [p \in DOMAIN parts |-> IF \E needs \in parts[p].needs : needs \subseteq all
                                   THEN "given" ELSE parts[p].otherwise]
  BY DEF RowParts, few, all
<1> QED
  BY <1>2, <1>3

(* What a lost answer takes out of a value is all of it, or something else *)
(* is said instead.                                                        *)
LEMMA ReadsLess ==
  ASSUME NEW b, NEW f, NEW instead, Numbered(b, f), SaysTheSame(instead, ReaderOf(b, f)), NEW d,
         NEW lost, NEW fields, NEW more, fields \subseteq more
  PROVE  Reads(b, f, fields, Answering(b, fields, lost, d))
           \in Blank \union instead \union {Reads(b, f, more, Answering(b, more, {}, d))}
<1> DEFINE tries == ReaderOf(b, f).tries
           few == Usable(b, f, fields, Answering(b, fields, lost, d))
           all == Usable(b, f, more, Answering(b, more, {}, d))
<1>1. few \subseteq all /\ all \subseteq Nat /\ all \subseteq DOMAIN tries
  BY UsableIs DEF Numbered
<1>2. CASE few = {}
  <2>1. CASE DOMAIN tries = {}
    <3>1. all = {}
      BY <1>1, <2>1
    <3> QED
      BY <1>2, <3>1 DEF Reads
  <2>2. CASE DOMAIN tries # {}
    <3>1. ReaderOf(b, f).otherwise \in Blank \union instead
      BY <2>2 DEF SaysTheSame
    <3> QED
      BY <1>2, <3>1 DEF Reads
  <2> QED
    BY <2>1, <2>2
<1>3. CASE few # {}
  <2>1. /\ Min(few) \in few /\ Min(all) \in all /\ \A n \in few : Min(few) <= n
        /\ Min(all) <= Min(few) /\ Min(all) \in Nat /\ Min(few) \in Nat
    BY <1>1, <1>3, FirstOfSome
  <2>2. CASE tries[Min(all)].needs \subseteq tries[Min(few)].needs
    <3>1. Min(all) \in few
      BY <2>1, <2>2, UsableIs
    <3>2. Min(all) = Min(few)
      BY <2>1, <3>1
    <3> QED
      BY <1>1, <1>3, <3>2 DEF Reads
  <2>3. CASE tries[Min(few)].says = tries[Min(all)].says
    BY <1>1, <1>3, <2>3 DEF Reads
  <2>4. CASE tries[Min(few)].says \in Blank \union instead
    BY <1>1, <1>3, <2>4 DEF Reads
  <2>5. CASE Min(few) < Min(all)
    BY <2>1, <2>5
  <2>6. Min(all) \in DOMAIN tries /\ Min(few) \in DOMAIN tries
    BY <1>1, <2>1
  <2>7. ~TriedBefore(tries, Min(all), Min(few))
    <3> SUFFICES ASSUME NEW k \in DOMAIN tries, k < Min(all),
                        tries[k].needs \subseteq tries[Min(all)].needs \union tries[Min(few)].needs,
                        \/ tries[k].when = "always"
                        \/ tries[k].when = tries[Min(few)].when /\ tries[Min(few)].needs # {}
                 PROVE  FALSE
      BY DEF TriedBefore
    <3>1. Min(all) \in all /\ Min(few) \in all
      BY <1>1, <2>1
    <3>2. k \in all
      <4>1. \A s \in tries[k].needs : s \in b.located /\ s[1] \in more /\ s[2] \notin {}
        BY <3>1, UsableIs
      <4>2. tries[Min(few)].needs # {} => Told(tries[Min(few)].when, d)
        BY <3>1, UsableIs
      <4>3. Told(tries[k].when, d)
        BY <4>2 DEF Told
      <4> QED
        BY <4>1, <4>3, UsableIs
    <3>3. Min(all) <= k
      BY <1>1, <3>2, FirstOfSome
    <3> QED
      BY <1>1, <2>1, <3>2, <3>3
  <2> QED
    BY <2>2, <2>3, <2>4, <2>5, <2>6, <2>7 DEF SaysTheSame
<1> QED
  BY <1>2, <1>3

LEMMA RowsLess ==
  ASSUME NEW b, NEW f, PartsBlank(b.rows[f]), NEW d, NEW lost,
         NEW fields, NEW more, fields \subseteq more, NEW p \in DOMAIN b.rows[f].parts
  PROVE  RowParts(b, f, fields, Answering(b, fields, lost, d))[p]
           \in Blank \union {RowParts(b, f, more, Answering(b, more, {}, d))[p]}
<1> DEFINE parts == b.rows[f].parts
           few == Sources(b, fields, Answering(b, fields, lost, d))
           all == Sources(b, more, Answering(b, more, {}, d))
<1>1. few \subseteq all
  BY SourceIs DEF Sources
<1>2. parts[p].otherwise \in Blank
  BY DEF PartsBlank
<1> QED
  BY <1>1, <1>2 DEF RowParts

-----------------------------------------------------------------------------
(* FieldsStandAlone and LossOnlyRemoves: what is wanted of the readers and *)
(* rows of a backend.                                                      *)
KeepsToItsFields(b) ==
  \A f \in Getters(b) :
    IF f \in DOMAIN b.rows THEN PartsLookAt(Own(b.name, f), b.rows[f])
    ELSE Numbered(b, f) /\ LooksAt(b.located, Own(b.name, f), ReaderOf(b, f))

OnlyLoses(b) ==
  \A f \in Getters(b) :
    IF f \in DOMAIN b.rows THEN PartsBlank(b.rows[f])
    ELSE Numbered(b, f) /\ SaysTheSame(Instead(b.name, f), ReaderOf(b, f))

(* Any fields may be collected together, and any answers be lost: more     *)
(* than the reads that Operation makes.                                    *)
LEMMA AnyReadStandsAlone ==
  ASSUME NEW b, KeepsToItsFields(b), NEW f \in Getters(b), NEW d, NEW fields, NEW more,
         Own(b.name, f) \subseteq fields, fields \subseteq more
  PROVE  Whole(b, f, fields, Answering(b, fields, {}, d)) =
           Whole(b, f, more, Answering(b, more, {}, d))
<1>1. CASE f \in DOMAIN b.rows
  BY <1>1, RowsAlike DEF KeepsToItsFields, Whole
<1>2. CASE f \notin DOMAIN b.rows
  <2>1. Numbered(b, f) /\ LooksAt(b.located, Own(b.name, f), ReaderOf(b, f))
    BY <1>2 DEF KeepsToItsFields
  <2> QED
    BY <1>2, <2>1, ReadsAlike DEF Whole
<1> QED
  BY <1>1, <1>2

LEMMA AnyLossOnlyRemoves ==
  ASSUME NEW b, OnlyLoses(b), NEW f \in Getters(b), NEW d, NEW lost, NEW fields, NEW more,
         fields \subseteq more, NEW p \in DOMAIN Whole(b, f, more, Answering(b, more, {}, d))
  PROVE  Whole(b, f, fields, Answering(b, fields, lost, d))[p]
           \in Blank \union Instead(b.name, f)
                \union {Whole(b, f, more, Answering(b, more, {}, d))[p]}
<1>1. CASE f \in DOMAIN b.rows
  <2>1. PartsBlank(b.rows[f])
    BY <1>1 DEF OnlyLoses
  <2>2. p \in DOMAIN b.rows[f].parts
    BY <1>1 DEF Whole, RowParts
  <2> QED
    BY <1>1, <2>1, <2>2, RowsLess DEF Whole
<1>2. CASE f \notin DOMAIN b.rows
  <2>1. Numbered(b, f) /\ SaysTheSame(Instead(b.name, f), ReaderOf(b, f))
    BY <1>2 DEF OnlyLoses
  <2>2. Reads(b, f, fields, Answering(b, fields, lost, d))
          \in Blank \union Instead(b.name, f)
               \union {Reads(b, f, more, Answering(b, more, {}, d))}
    BY <2>1, ReadsLess
  <2>3. p = "value"
    BY <1>2 DEF Whole
  <2> QED
    BY <1>2, <2>2, <2>3 DEF Whole
<1> QED
  BY <1>1, <1>2

(* A read of many fields is of a device that nobody controls, so that its  *)
(* answers are the device as it still is.                                  *)
ReadingShape == DOMAIN reading = DOMAIN NoReading

AtOnce ==
  /\ backend \in Table /\ ReadingShape
  /\ awaited = 0 => \A c \in Calls : ~Begun(c)
  /\ reading.of = "at_once" =>
       /\ awaited = 0 /\ reading.todo = {}
       /\ reading.answers = Answering(backend, reading.fields, reading.lost, device)

LEMMA AtOnceInit == Init => AtOnce
<1> SUFFICES ASSUME Init PROVE AtOnce
  OBVIOUS
<1>1. reading = NoReading /\ backend \in Table /\ calls = [c \in Calls |-> Idle]
  BY DEF Init, ControlInit
<1>2. reading.of = "nothing"
  BY <1>1 DEF NoReading
<1> QED
  BY <1>1, <1>2 DEF AtOnce, ReadingShape, Begun, Idle

LEMMA NobodyActs ==
  ASSUME awaited = 0, \A c \in Calls : ~Begun(c)
  PROVE  ~ControlNext
<1>1. \A c \in Calls, op \in DOMAIN Operations(backend) : ~Start(c, op)
  BY DEF Start, Calls
<1>2. \A c \in Calls :
        ~(Answered(c) \/ Refused(c) \/ Lost(c) \/ Looks(c) \/ Return(c) \/ Drop(c))
  BY DEF Answered, Refused, Lost, Looks, Return, Drop, Due
<1>3. ~Elsewhere
  BY DEF Elsewhere
<1> QED
  BY <1>1, <1>2, <1>3 DEF ControlNext

LEMMA AtOnceNext == AtOnce /\ [Next]_vars => AtOnce'
<1> SUFFICES ASSUME AtOnce, [Next]_vars PROVE AtOnce'
  OBVIOUS
<1> USE DEF AtOnce
<1>1. backend' = backend /\ awaited' = awaited
  BY StepCases
<1>2. CASE Act
  <2>1. awaited # 0
    BY <1>2, NobodyActs DEF Act
  <2>2. reading' = reading
    BY <1>2 DEF Act
  <2> QED
    BY <1>1, <2>1, <2>2 DEF ReadingShape
<1>3. CASE ReadAtOnce
  <2>0. PICK fields \in FieldSets :
          \E lost \in Losses(fields), boards \in BoardsThere(fields) :
            reading' = [of |-> "at_once", fields |-> fields, todo |-> {}, lost |-> lost,
                        answers |-> [c \in Asked(backend, fields) \ lost |-> device],
                        reported |-> boards[1], on |-> boards[2], after |-> {}]
    BY <1>3 DEF ReadAtOnce
  <2>1. PICK lost \in Losses(fields), boards \in BoardsThere(fields) :
          reading' = [of |-> "at_once", fields |-> fields, todo |-> {}, lost |-> lost,
                      answers |-> [c \in Asked(backend, fields) \ lost |-> device],
                      reported |-> boards[1], on |-> boards[2], after |-> {}]
    BY <2>0
  <2>2. awaited = 0 /\ device' = device /\ calls' = calls
    BY <1>3 DEF ReadAtOnce, cvars
  <2>3. ReadingShape'
    BY <2>1 DEF ReadingShape, NoReading
  <2>4. /\ reading'.todo = {} /\ reading'.fields = fields /\ reading'.lost = lost
        /\ reading'.answers = [c \in Asked(backend, fields) \ lost |-> device]
    BY <2>1
  <2> QED
    BY <1>1, <2>2, <2>3, <2>4 DEF Answering, Begun
<1>4. CASE BeginRead
  <2>1. PICK f \in {"IsMining", "TuningTarget"} :
          reading' = [NoReading EXCEPT !.of = f, !.fields = Collects(f),
                                       !.todo = Asked(backend, Collects(f)),
                                       !.after = {c \in Calls : Over(c)}]
    BY <1>4 DEF BeginRead
  <2>2. reading'.of = f /\ ReadingShape'
    BY <2>1 DEF NoReading, ReadingShape
  <2> QED
    BY <1>1, <1>4, <2>2 DEF BeginRead
<1>5. CASE Fetch
  <2>1. PICK c \in reading.todo :
          reading' = [reading EXCEPT !.todo = @ \ {c},
                                     !.answers = [x \in {c} |-> device] ++ @]
    BY <1>5 DEF Fetch
  <2>2. reading'.of = reading.of /\ ReadingShape'
    BY <2>1 DEF ReadingShape, NoReading
  <2>3. calls' = calls
    BY <1>5 DEF Fetch, cvars
  <2> QED
    BY <1>1, <2>1, <2>2, <2>3 DEF Begun
<1>6. CASE UNCHANGED vars
  BY <1>6 DEF vars, cvars, ReadingShape, Begun, Answering, Asked
<1> QED
  BY <1>2, <1>3, <1>4, <1>5, <1>6 DEF Next

LEMMA AtOnceAnswers ==
  ASSUME AtOnce, reading.of = "at_once"
  PROVE  /\ reading.answers = Answering(backend, reading.fields, reading.lost, device)
         /\ EverythingAnswered = Answering(backend, DataFields \union reading.fields, {}, device)
BY DEF AtOnce, EverythingAnswered, Answering

(* A getter, get_data_filtered and get_data say the same of a field when   *)
(* they collect what its parser needs, for any table whose parsers look at *)
(* nothing but that.                                                       *)
THEOREM FieldsAlwaysStandAlone ==
  ASSUME \A b \in Table : KeepsToItsFields(b)
  PROVE  Spec => []FieldsStandAlone
<1>1. AtOnce => FieldsStandAlone
  <2> SUFFICES ASSUME AtOnce, reading.of = "at_once", reading.lost = {},
                      NEW f \in ReadFields
               PROVE  AsRead(f) = InFull(f)
    BY DEF FieldsStandAlone
  <2>1. /\ f \in Getters(backend) /\ Own(backend.name, f) \subseteq reading.fields
        /\ KeepsToItsFields(backend)
    BY DEF ReadFields, AtOnce, Own
  <2> QED
    BY <2>1, AtOnceAnswers, AnyReadStandsAlone DEF AsRead, InFull
<1> QED
  BY <1>1, AtOnceInit, AtOnceNext, PTL DEF Spec

(* A lost answer takes values out of a read and changes none but in the    *)
(* named ways, for any table whose parsers make of some of their sources   *)
(* what they make of all, or say one of the named things instead.          *)
THEOREM LossAlwaysOnlyRemoves ==
  ASSUME \A b \in Table : OnlyLoses(b)
  PROVE  Spec => []LossOnlyRemoves
<1>1. AtOnce => LossOnlyRemoves
  <2> SUFFICES ASSUME AtOnce, reading.of = "at_once", NEW f \in ReadFields,
                      NEW p \in DOMAIN InFull(f)
               PROVE  AsRead(f)[p] \in Blank \union Instead(backend.name, f) \union {InFull(f)[p]}
    BY DEF LossOnlyRemoves
  <2>1. f \in Getters(backend) /\ OnlyLoses(backend)
    BY DEF ReadFields, AtOnce
  <2> QED
    BY <2>1, AtOnceAnswers, AnyLossOnlyRemoves DEF AsRead, InFull
<1> QED
  BY <1>1, AtOnceInit, AtOnceNext, PTL DEF Spec

-----------------------------------------------------------------------------
(* ReadingIsOfOneMoment: what is wanted of the reader of the target.  A    *)
(* limit is told only where the mode does not override it: no operation of *)
(* the backend touches the mode, or the same answer was tried for it first.*)
(* WhatsMinerV3 tries another answer first, Marathon has only this one.    *)
KeepsNormal(b) == "mode" \notin Used(b)

TellsTheTarget(b) ==
  LET tries == ReaderOf(b, "TuningTarget").tries
  IN  /\ DOMAIN tries \subseteq Nat
      /\ \A n \in DOMAIN tries :
           /\ tries[n].needs # {}
           /\ tries[n].says = "mode" => tries[n].when = "mode"
           /\ tries[n].says = "power" =>
                \/ KeepsNormal(b)
                \/ \E m \in DOMAIN tries, s \in tries[n].needs :
                     m < n /\ tries[m].when = "mode"
                       /\ tries[m].needs = {s} /\ tries[n].needs = {s}
                \/ /\ b.name = "WhatsMinerV3"
                   /\ \E m \in DOMAIN tries, s \in b.located :
                        /\ m < n /\ tries[m].when = "mode"
                        /\ tries[m].needs = {s} /\ s[1] = "TuningTarget"
                \/ /\ b.name = "Marathon"
                   /\ \A s, u \in b.located :
                        s[1] = "TuningTarget" /\ u[1] = "TuningTarget" => s[2] = u[2]

ModeUntouched == KeepsNormal(backend) => device["mode"] = "normal"

(* Each answer is of a device whose target was seen, and as long as some   *)
(* are to come that of the device is; those that are not there are to come.*)
TargetTold ==
  /\ ReadingShape
  /\ reading.of = "TuningTarget" =>
       /\ reading.fields = {"TuningTarget"}
       /\ DOMAIN reading.answers \union reading.todo = Asked(backend, {"TuningTarget"})
       /\ \A c \in DOMAIN reading.answers :
            /\ Target(reading.answers[c]) \in seen
            /\ KeepsNormal(backend) => reading.answers[c]["mode"] = "normal"
       /\ reading.todo # {} => Target(device) \in seen

LEMMA ModeUntouchedInit == Init => ModeUntouched
<1> SUFFICES ASSUME Init, KeepsNormal(backend) PROVE device["mode"] = "normal"
  BY DEF ModeUntouched
<1>1. PICK running \in {"mining", "paused"}, mode \in Modes(backend), split \in {"off", "on"} :
        device = Device(running, mode, IF mode = "sleep" THEN "low" ELSE "none", split)
  BY DEF Init, ControlInit
<1>2. mode = "normal"
  BY DEF Modes, KeepsNormal
<1> QED
  BY <1>1, <1>2 DEF Device, Cells, Settings

(* A step that is not about a cell nor keeps it leaves it alone.           *)
LEMMA UnusedStays ==
  ASSUME ControlTypeOK, \A b \in Table : WellFormed(b), NEW x \in Cells \ Derived,
         x \notin Used(backend), [Next]_vars
  PROVE  device'[x] = device[x]
<1>1. ASSUME NEW c \in Calls, Acts(c) PROVE device'[x] = device[x]
  <2>1. CASE device' = device
    BY <2>1
  <2>2. CASE /\ calls[c].at \in DOMAIN Steps(c) /\ Current(c) \in Requests
             /\ device' = After(c, Current(c))
    <3>1. calls[c].op \in DOMAIN Operations(backend)
      BY <1>1, ActsDo, StepsTyped
    <3>2. x \notin Current(c).cells \union Current(c).kept
      BY <2>2, <3>1 DEF Used, Current, Steps
    <3> QED
      BY <2>2, <3>2, AfterIs
  <2> QED
    BY <1>1, <2>1, <2>2, ActsDo
<1>2. CASE Elsewhere
  <2>1. PICK y \in Used(backend) : device' = [device EXCEPT ![y] = "elsewhere"]
    BY <1>2 DEF Elsewhere
  <2> QED
    BY <2>1 DEF ControlTypeOK
<1>3. ASSUME NEW c \in Calls, NEW op \in DOMAIN Operations(backend), Start(c, op)
      PROVE  device'[x] = device[x]
  BY <1>3 DEF Start
<1> QED
  BY <1>1, <1>2, <1>3, StepCases

LEMMA ModeUntouchedNext ==
  ASSUME ControlTypeOK, \A b \in Table : WellFormed(b), ModeUntouched, [Next]_vars
  PROVE  ModeUntouched'
<1>1. "mode" \in Cells \ Derived
  BY DEF Cells, Settings, Derived
<1>2. backend' = backend
  BY StepCases
<1> QED
  BY <1>1, <1>2, UnusedStays DEF ModeUntouched, KeepsNormal

LEMMA TargetToldInit == Init => TargetTold
<1> SUFFICES ASSUME Init PROVE TargetTold
  OBVIOUS
<1>1. reading = NoReading
  BY DEF Init
<1>2. reading.of = "nothing" /\ ReadingShape
  BY <1>1 DEF NoReading, ReadingShape
<1> QED
  BY <1>2 DEF TargetTold

LEMMA TargetToldNext ==
  ASSUME TargetTold, ModeUntouched, [Next]_vars
  PROVE  TargetTold'
<1> USE DEF TargetTold
<1>1. backend' = backend
  BY StepCases
<1>2. CASE Act
  <2>1. reading' = reading /\ ReadingShape'
    BY <1>2 DEF Act, ReadingShape
  <2>2. /\ reading.todo = {} => seen' = seen
        /\ reading.todo # {} => seen' = seen \union {Target(device)'}
    BY <1>2 DEF Act, TargetsSoFar, Target, InMode
  <2> QED
    BY <1>1, <2>1, <2>2 DEF Asked
<1>3. CASE ReadAtOnce
  <2>1. PICK fields \in FieldSets :
          \E lost \in Losses(fields), boards \in BoardsThere(fields) :
            reading' = [of |-> "at_once", fields |-> fields, todo |-> {}, lost |-> lost,
                        answers |-> [c \in Asked(backend, fields) \ lost |-> device],
                        reported |-> boards[1], on |-> boards[2], after |-> {}]
    BY <1>3 DEF ReadAtOnce
  <2>2. reading'.of = "at_once" /\ ReadingShape'
    BY <2>1 DEF ReadingShape, NoReading
  <2> QED
    BY <2>2
<1>4. CASE BeginRead
  <2>1. PICK f \in {"IsMining", "TuningTarget"} :
          reading' = [NoReading EXCEPT !.of = f, !.fields = Collects(f),
                                       !.todo = Asked(backend, Collects(f)),
                                       !.after = {c \in Calls : Over(c)}]
    BY <1>4 DEF BeginRead
  <2>2. reading'.answers = << >> /\ ReadingShape'
    BY <2>1 DEF NoReading, ReadingShape
  <2>3. DOMAIN reading'.answers = {}
    BY <2>2
  <2>6. reading'.of = f /\ reading'.fields = Collects(f) /\ reading'.todo = Asked(backend, Collects(f))
    BY <2>1 DEF NoReading
  <2>7. reading'.of = "TuningTarget" => reading'.fields = {"TuningTarget"}
                                        /\ reading'.todo = Asked(backend, {"TuningTarget"})
    BY <2>6 DEF Collects
  <2>4. seen' = {Target(device)} /\ device' = device
    BY <1>4 DEF BeginRead, cvars
  <2>5. Target(device)' \in seen'
    BY <2>4 DEF Target, InMode
  <2> QED
    BY <1>1, <2>2, <2>3, <2>5, <2>7 DEF Asked
<1>5. CASE Fetch
  <2>1. PICK c \in reading.todo :
          reading' = [reading EXCEPT !.todo = @ \ {c},
                                     !.answers = [x \in {c} |-> device] ++ @]
    BY <1>5 DEF Fetch
  <2>2. /\ reading'.of = reading.of /\ ReadingShape'
        /\ reading'.answers = [x \in {c} |-> device] ++ reading.answers
        /\ reading.todo # {} /\ reading'.fields = reading.fields
        /\ reading'.todo = reading.todo \ {c}
    BY <2>1 DEF ReadingShape, NoReading
  <2>3. /\ DOMAIN reading'.answers = {c} \union DOMAIN reading.answers
        /\ reading'.answers[c] = device
        /\ \A x \in DOMAIN reading.answers : x # c => reading'.answers[x] = reading.answers[x]
    BY <2>2 DEF ++
  <2>4. seen' = seen /\ device' = device
    BY <1>5 DEF Fetch, cvars
  <2>5. Target(device)' = Target(device)
    BY <2>4 DEF Target, InMode
  <2>6. ASSUME reading.of = "TuningTarget"
        PROVE  \A x \in DOMAIN reading'.answers :
                 /\ Target(reading'.answers[x]) \in seen
                 /\ KeepsNormal(backend) => reading'.answers[x]["mode"] = "normal"
    <3>1. Target(reading'.answers[c]) \in seen
      BY <2>2, <2>3, <2>6
    <3>2. KeepsNormal(backend) => reading'.answers[c]["mode"] = "normal"
      BY <2>3 DEF ModeUntouched
    <3>3. \A x \in DOMAIN reading.answers :
            /\ Target(reading.answers[x]) \in seen
            /\ KeepsNormal(backend) => reading.answers[x]["mode"] = "normal"
      BY <2>6
    <3>4. ASSUME NEW x \in DOMAIN reading'.answers
          PROVE  /\ Target(reading'.answers[x]) \in seen
                 /\ KeepsNormal(backend) => reading'.answers[x]["mode"] = "normal"
      <4>1. CASE x = c
        BY <3>1, <3>2, <4>1
      <4>2. CASE x # c
        <5>1. x \in DOMAIN reading.answers /\ reading'.answers[x] = reading.answers[x]
          BY <2>3, <4>2
        <5> QED
          BY <3>3, <5>1
      <4> QED
        BY <4>1, <4>2
    <3> QED
      BY <3>4
  <2>7. DOMAIN reading'.answers \union reading'.todo = DOMAIN reading.answers \union reading.todo
    BY <2>1, <2>2, <2>3
  <2> QED
    BY <1>1, <2>2, <2>4, <2>5, <2>6, <2>7 DEF Asked
<1>6. CASE UNCHANGED vars
  <2>1. reading' = reading /\ seen' = seen /\ device' = device
    BY <1>6 DEF vars, cvars
  <2>2. Target(device)' = Target(device) /\ ReadingShape'
    BY <2>1 DEF Target, InMode, ReadingShape
  <2> QED
    BY <1>1, <2>1, <2>2 DEF Asked
<1> QED
  BY <1>2, <1>3, <1>4, <1>5, <1>6 DEF Next

ModeChangedMeanwhile ==
  \E a, b \in DOMAIN reading.answers : InMode(reading.answers[a]) /\ ~InMode(reading.answers[b])

AllInMode == \A a \in DOMAIN reading.answers : InMode(reading.answers[a])

(* The target of the answer that is used is the one that is reported.      *)
LEMMA ReportsOneSeen ==
  ASSUME TellsTheTarget(backend), TargetTold, reading.of = "TuningTarget", HasRead
  PROVE  \/ ReportedTarget(backend, "TuningTarget", reading.fields, reading.answers)
              \in seen \union {"none"}
         \/ backend.name = "WhatsMinerV3" /\ ModeChangedMeanwhile
         \/ backend.name = "Marathon" /\ AllInMode
<1> DEFINE tries == ReaderOf(backend, "TuningTarget").tries
           usable == Usable(backend, "TuningTarget", reading.fields, reading.answers)
           n == Min(usable)
           s == CHOOSE s \in tries[n].needs : TRUE
           d == reading.answers[s[2]]
<1>0. ReportedTarget(backend, "TuningTarget", reading.fields, reading.answers) =
        IF usable = {} THEN "none"
        ELSE CASE tries[n].says = "mode" -> d["mode"]
               [] tries[n].says = "power" -> d["target"]
               [] OTHER -> Target(d)
  BY DEF ReportedTarget
<1> SUFFICES ASSUME usable # {}
             PROVE  \/ (CASE tries[n].says = "mode" -> d["mode"]
                          [] tries[n].says = "power" -> d["target"]
                          [] OTHER -> Target(d)) \in seen
                    \/ backend.name = "WhatsMinerV3" /\ ModeChangedMeanwhile
                    \/ backend.name = "Marathon" /\ AllInMode
  BY <1>0
<1>1. usable \subseteq DOMAIN tries /\ DOMAIN tries \subseteq Nat
  BY DEF Usable, TellsTheTarget
<1>2. n \in usable /\ \A m \in usable : n <= m
  BY <1>1, FirstOfSome
<1>3. \A m \in DOMAIN tries : m \in usable <=>
        /\ tries[m].needs \subseteq Sources(backend, reading.fields, reading.answers)
        /\ \A t \in tries[m].needs : Told(tries[m].when, reading.answers[t[2]])
  BY DEF Usable
<1>4. s \in tries[n].needs
  BY <1>1, <1>2 DEF TellsTheTarget
<1>5. s[2] \in DOMAIN reading.answers
  BY <1>1, <1>2, <1>3, <1>4 DEF Sources
<1>9. s \in backend.located /\ s[1] = "TuningTarget"
  BY <1>1, <1>2, <1>3, <1>4 DEF Sources, TargetTold
<1>10. \A t \in backend.located : t[1] = "TuningTarget" =>
         t \in Sources(backend, reading.fields, reading.answers) /\ t[2] \in DOMAIN reading.answers
  BY DEF TargetTold, HasRead, Asked, Sources
<1>6. Target(d) \in seen /\ (KeepsNormal(backend) => d["mode"] = "normal")
  BY <1>5 DEF TargetTold
<1>7. CASE tries[n].says = "mode"
  <2>1. Told("mode", d)
    BY <1>1, <1>2, <1>3, <1>4, <1>7 DEF TellsTheTarget
  <2>2. Target(d) = d["mode"]
    BY <2>1 DEF Told, Target
  <2> QED
    BY <1>6, <1>7, <2>2
<1>8. CASE tries[n].says = "power" /\ ~InMode(d)
  BY <1>6, <1>8 DEF Target
<1>11. CASE tries[n].says = "power" /\ InMode(d)
  <2>1. ~KeepsNormal(backend)
    BY <1>6, <1>11 DEF InMode
  <2>2. CASE \E m \in DOMAIN tries, t \in tries[n].needs :
               m < n /\ tries[m].when = "mode" /\ tries[m].needs = {t} /\ tries[n].needs = {t}
    <3>1. PICK m \in DOMAIN tries :
            m < n /\ tries[m].when = "mode" /\ tries[m].needs = {s} /\ tries[n].needs = {s}
      BY <1>4, <2>2
    <3>2. m \notin usable
      BY <1>1, <1>2, <3>1
    <3>3. ~Told("mode", d)
      BY <1>1, <1>2, <1>3, <3>1, <3>2
    <3> QED
      BY <1>11, <3>3 DEF Told
  <2>3. CASE /\ backend.name = "WhatsMinerV3"
             /\ \E m \in DOMAIN tries, t \in backend.located :
                  /\ m < n /\ tries[m].when = "mode"
                  /\ tries[m].needs = {t} /\ t[1] = "TuningTarget"
    <3>1. PICK m \in DOMAIN tries, t \in backend.located :
            /\ m < n /\ tries[m].when = "mode"
            /\ tries[m].needs = {t} /\ t[1] = "TuningTarget"
      BY <2>3
    <3>2. m \notin usable
      BY <1>1, <1>2, <3>1
    <3>3. ~Told("mode", reading.answers[t[2]])
      BY <1>3, <1>10, <3>1, <3>2
    <3> QED
      BY <1>5, <1>10, <1>11, <2>3, <3>1, <3>3 DEF Told, ModeChangedMeanwhile
  <2>4. CASE /\ backend.name = "Marathon"
             /\ \A t, u \in backend.located :
                  t[1] = "TuningTarget" /\ u[1] = "TuningTarget" => t[2] = u[2]
    <3>1. ASSUME NEW x \in DOMAIN reading.answers
          PROVE  x = s[2]
      <4>1. x \in Asked(backend, {"TuningTarget"})
        BY <3>1 DEF TargetTold
      <4>2. PICK t \in backend.located : t[1] = "TuningTarget" /\ t[2] = x
        BY <4>1 DEF Asked
      <4> QED
        BY <1>9, <2>4, <4>2
    <3> QED
      BY <1>11, <2>4, <3>1 DEF AllInMode
  <2> QED
    BY <1>1, <1>2, <1>11, <2>1, <2>2, <2>3, <2>4 DEF TellsTheTarget
<1> QED
  BY <1>6, <1>7, <1>8, <1>11

(* The target of a read that calls go on beside was in force at some       *)
(* moment of it; on a WhatsMinerV3 it may be another only when the mode    *)
(* changed between the two answers, and on a Marathon in a mode: for any   *)
(* table of backends that read it so.                                      *)
THEOREM ReadingAlwaysOfOneMoment ==
  ASSUME \A b \in Table : WellFormed(b) /\ TellsTheTarget(b)
  PROVE  Spec => []ReadingIsOfOneMoment
<1> DEFINE Inv == ControlTypeOK /\ ModeUntouched /\ TargetTold
<1>1. Init => Inv
  BY TypeInit, ModeUntouchedInit, TargetToldInit
<1>2. Inv /\ [Next]_vars => Inv'
  BY TypeNext, ModeUntouchedNext, TargetToldNext
<1>3. Inv => ReadingIsOfOneMoment
  BY ReportsOneSeen DEF ReadingIsOfOneMoment, ControlTypeOK, ModeChangedMeanwhile, AllInMode
<1> QED
  BY <1>1, <1>2, <1>3, PTL DEF Spec

-----------------------------------------------------------------------------
(* RowsAreBoards: the rows of a backend find the boards in one way, or it  *)
(* is one of those that mix the ways.                                      *)
BoardKeys == {"id", "number", "serial", "position", "active"}

FindsBoards(b) ==
  LET parts == b.rows["Hashboards"].parts
  IN  IF b.name \in MixesBoards THEN \A p \in DOMAIN parts : parts[p].key \in BoardKeys
      ELSE \/ \A p \in DOMAIN parts : parts[p].key = "position"
           \/ \A p \in DOMAIN parts : parts[p].key \in {"id", "number", "serial"}

(* The boards that are in the answers, and those that are on.              *)
BoardsReported ==
  reading.reported \in {Boards, Boards \ {2}} /\ reading.on \in {Boards, Boards \ {2}}

LEMMA RanksOfBoards ==
  /\ Cardinality(Boards) = 3 /\ Cardinality(Boards \ {2}) = 2
  /\ \A n \in Boards : Cardinality({y \in Boards : y <= n}) = n
  /\ Cardinality({y \in Boards \ {2} : y <= 1}) = 1
  /\ Cardinality({y \in Boards \ {2} : y <= 3}) = 2
<1>1. Cardinality({1}) = 1 /\ IsFiniteSet({1})
  BY FS_Singleton
<1>2. /\ IsFiniteSet({1} \union {2}) /\ Cardinality({1} \union {2}) = 2
      /\ Cardinality({1} \union {3}) = 2
  BY <1>1, FS_AddElement
<1>3. Cardinality(({1} \union {2}) \union {3}) = 3
  BY <1>2, FS_AddElement
<1>4. /\ Boards = ({1} \union {2}) \union {3} /\ Boards \ {2} = {1} \union {3}
      /\ {y \in Boards : y <= 1} = {1} /\ {y \in Boards : y <= 2} = {1} \union {2}
      /\ {y \in Boards : y <= 3} = ({1} \union {2}) \union {3}
      /\ {y \in Boards \ {2} : y <= 1} = {1} /\ {y \in Boards \ {2} : y <= 3} = {1} \union {3}
  BY DEF Boards
<1>5. \A n \in Boards : n = 1 \/ n = 2 \/ n = 3
  BY DEF Boards
<1> QED
  BY <1>1, <1>2, <1>3, <1>4, <1>5

(* No board is at two places of a list.                                    *)
LEMMA PlacesDiffer ==
  ASSUME NEW R \in {Boards, Boards \ {2}}, NEW i \in Boards, NEW j \in Boards,
         Nth(R, i) # 0, Nth(R, i) = Nth(R, j)
  PROVE  i = j
<1> DEFINE Rank(x) == Cardinality({y \in R : y <= x})
<1>1. \A n \in 1..Cardinality(R) : \E x \in R : Rank(x) = n
  <2>1. CASE R = Boards
    BY <2>1, RanksOfBoards DEF Boards
  <2>2. CASE R = Boards \ {2}
    <3>1. \A n \in 1..2 : n = 1 \/ n = 2
      OBVIOUS
    <3>2. 1 \in Boards \ {2} /\ 3 \in Boards \ {2}
      BY DEF Boards
    <3> QED
      BY <2>2, <3>1, <3>2, RanksOfBoards
  <2> QED
    BY <2>1, <2>2
<1>2. \A n : n \in 1..Cardinality(R) => Rank(Nth(R, n)) = n
  BY <1>1 DEF Nth
<1>3. \A n : Nth(R, n) # 0 => n \in 1..Cardinality(R)
  BY DEF Nth
<1> HIDE DEF Rank
<1> QED
  BY <1>2, <1>3

(* Up to a board that is missing or off every way finds the same.          *)
LEMMA PlacesAgree ==
  ASSUME BoardsReported, NEW slot \in Boards, AllThere(slot), NEW key \in BoardKeys
  PROVE  EntryAt(key, slot, reading.reported, reading.on) = slot
<1> DEFINE R == reading.reported
           Rank(x) == Cardinality({y \in R : y <= x})
<1>1. /\ R \in {Boards, Boards \ {2}} /\ reading.on \subseteq Boards
      /\ slot \in 1..3 /\ 1..slot \subseteq R /\ 1..slot \subseteq reading.on
  BY DEF BoardsReported, AllThere, Boards
<1>2. slot \in 1..slot
  BY <1>1
<1>3. slot \in R /\ slot \in reading.on
  BY <1>1, <1>2
<1>4. /\ slot \in 1..Cardinality(R) /\ Rank(slot) = slot
      /\ \A x \in R : Rank(x) = slot => x = slot
  <2>1. CASE R = Boards
    BY <1>1, <2>1, RanksOfBoards DEF Boards
  <2>2. CASE R = Boards \ {2}
    <3>1. 2 \notin 1..slot
      BY <1>1, <2>2
    <3>2. slot = 1
      BY <1>1, <3>1
    <3>3. \A x \in R : x = 1 \/ x = 3
      BY <2>2 DEF Boards
    <3> QED
      BY <2>2, <3>2, <3>3, RanksOfBoards
  <2> QED
    BY <1>1, <2>1, <2>2
<1>5. Nth(R, slot) = slot
  BY <1>3, <1>4 DEF Nth
<1>6. {x \in reading.on : x <= slot} = 1..slot
  BY <1>1 DEF Boards
<1>7. Cardinality({x \in reading.on : x <= slot}) = slot
  <2>1. Cardinality(1..slot) = slot
    <3>1. 1 \in Int /\ slot \in Int /\ ~(1 > slot)
      BY <1>1
    <3>2. Cardinality(1..slot) = IF 1 > slot THEN 0 ELSE slot - 1 + 1
      BY <3>1, FS_Interval
    <3> QED
      BY <3>1, <3>2
  <2> QED
    BY <1>6, <2>1
<1> QED
  BY <1>3, <1>5, <1>7 DEF EntryAt, BoardKeys

LEMMA BoardsReportedNext ==
  /\ Init => BoardsReported
  /\ BoardsReported /\ [Next]_vars => BoardsReported'
<1>1. Init => BoardsReported
  BY DEF Init, NoReading, BoardsReported
<1>2. ASSUME BoardsReported, [Next]_vars PROVE BoardsReported'
  <2>1. CASE Act \/ UNCHANGED vars
    BY <1>2, <2>1 DEF Act, vars, BoardsReported
  <2>2. CASE ReadAtOnce
    <3>1. \E fields, lost : \E boards \in BoardsThere(fields) :
            reading'.reported = boards[1] /\ reading'.on = boards[2]
      BY <2>2 DEF ReadAtOnce
    <3>2. \A fields : \A boards \in BoardsThere(fields) :
            boards[1] \in {Boards, Boards \ {2}} /\ boards[2] \in {Boards, Boards \ {2}}
      BY DEF BoardsThere
    <3> QED
      BY <3>1, <3>2 DEF BoardsReported
  <2>3. CASE BeginRead
    <3>1. reading'.reported = Boards /\ reading'.on = Boards
      BY <2>3 DEF BeginRead, NoReading
    <3> QED
      BY <3>1 DEF BoardsReported
  <2>4. CASE Fetch
    <3>1. PICK c \in reading.todo :
            reading' = [reading EXCEPT !.todo = @ \ {c}, !.answers = [x \in {c} |-> device] ++ @]
      BY <2>4 DEF Fetch
    <3>2. reading'.reported = reading.reported /\ reading'.on = reading.on
      BY <3>1
    <3> QED
      BY <1>2, <3>2 DEF BoardsReported
  <2> QED
    BY <1>2, <2>1, <2>2, <2>3, <2>4 DEF Next
<1> QED
  BY <1>1, <1>2

(* All parts of a row are of one board and no board is in two rows, for    *)
(* any table whose rows find the boards in one way; with the backends that *)
(* mix the ways as far as all boards before are there and on.              *)
THEOREM RowsAlwaysBoards ==
  ASSUME \A b \in Table : FindsBoards(b)
  PROVE  Spec => []RowsAreBoards
<1> DEFINE InTable == backend \in Table
<1>1. Init => BoardsReported /\ InTable
  BY BoardsReportedNext DEF Init, ControlInit
<1>2. (BoardsReported /\ InTable) /\ [Next]_vars => (BoardsReported /\ InTable)'
  BY BoardsReportedNext, StepCases
<1>3. BoardsReported /\ InTable => RowsAreBoards
  <2> DEFINE parts == backend.rows["Hashboards"].parts
             Entry(p, row) == EntryAt(parts[p].key, row, reading.reported, reading.on)
  <2> SUFFICES ASSUME BoardsReported, InTable, NEW p \in DOMAIN parts, NEW q \in DOMAIN parts,
                      NEW row \in Boards, NEW other \in Boards,
                      Entry(p, row) # 0, Entry(q, other) # 0,
                      backend.name \in MixesBoards => AllThere(row) /\ AllThere(other)
               PROVE  Entry(p, row) = Entry(q, other) <=> row = other
    BY DEF RowsAreBoards
  <2>1. CASE parts[p].key = "position" /\ parts[q].key = "position"
    <3>1. /\ Entry(p, row) = Nth(reading.reported, row)
          /\ Entry(q, other) = Nth(reading.reported, other)
      BY <2>1 DEF EntryAt
    <3> HIDE DEF Entry
    <3> QED
      BY <3>1, PlacesDiffer DEF BoardsReported
  <2>2. CASE /\ parts[p].key \in {"id", "number", "serial"}
             /\ parts[q].key \in {"id", "number", "serial"}
    <3>1. Entry(p, row) = row /\ Entry(q, other) = other
      BY <2>2 DEF EntryAt
    <3> QED
      BY <3>1
  <2>3. CASE backend.name \in MixesBoards
    <3>1. parts[p].key \in BoardKeys /\ parts[q].key \in BoardKeys
      BY <2>3 DEF FindsBoards
    <3>2. Entry(p, row) = row /\ Entry(q, other) = other
      BY <2>3, <3>1, PlacesAgree
    <3> QED
      BY <3>2
  <2> QED
    BY <2>1, <2>2, <2>3 DEF FindsBoards
<1> QED
  BY <1>1, <1>2, <1>3, PTL DEF Spec

-----------------------------------------------------------------------------
(* PauseResumeKeepsTuning.  The steps of pause and resume write the cell x *)
(* that sleeping is about; resume ends only behind such a write or where x *)
(* was found awake, and writes a mode only after it has found the device   *)
(* asleep and has read what the mode was.                                  *)

(* Before the step n of q it has asked for x, answered or not, and has not *)
(* changed it since.                                                       *)
Looked(q, n, x) ==
  \E k \in 1..(n - 1) :
    /\ q[k].does = "read" /\ x \in q[k].cells
    /\ \A m \in (k + 1)..(n - 1) : ~(Changes(q[m]) /\ x \in q[m].cells \union q[m].kept)

PauseSteps(q, x) ==
  \A n \in DOMAIN q : Changes(q[n]) => q[n].does = "write" /\ q[n].cells = {x}

LooksBack(q, n) ==
  /\ \A m \in 1..(n - 1) : ~Changes(q[m])
  /\ \E j, k \in 1..(n - 1) :
       j < k /\ q[j].does = "done_if" /\ q[k].does = "read" /\ "history" \in q[k].cells

ResumeSteps(q, x) ==
  /\ \E n \in DOMAIN q : Changes(q[n])
  /\ \A n \in DOMAIN q :
       /\ q[n].then = "next" /\ q[n].does # "verify"
       /\ q[n].does = "done_if" => q[n].cells = {x} /\ Looked(q, n, x)
       /\ x = "mode" /\ Changes(q[n]) => LooksBack(q, n)

ReturnsToMode(b) ==
  \A op \in {"pause", "resume"} \intersect DOMAIN Operations(b) :
    \A x \in Means(b, op) :
      /\ PauseSteps(Operations(b)[op], x)
      /\ op = "resume" => ResumeSteps(Operations(b)[op], x)

PausesWell(b) == IF b.name \in ForgetsItsMode THEN SleepsInMode(b) ELSE ReturnsToMode(b)

(* The calls so far are pauses and resumes, one after the other. *)
OnlyPauses ==
  /\ ~Troubled
  /\ \A c \in Calls : Begun(c) => calls[c].op \in {"pause", "resume"} /\ ~Overlapped(c)

Sleep == CHOOSE x \in Means(backend, "pause") : TRUE

(* All but the cell that sleeping is about is as it was at first. *)
RestKept == OnlyPauses => \A x \in Cells \ {"history", Sleep} : device[x] = was[x]

WasAsIs ==
  was["running"] \in {"mining", "paused"} /\ was["mode"] \in {"normal", "low", "sleep"}

(* Where the mode is found again. *)
Returning == OnlyPauses /\ Mining(was) /\ backend.name \notin ForgetsItsMode

Asleep(x) == IF x = "mode" THEN "sleep" ELSE "paused"

(* Without trouble what was asked for is what the device has.              *)
LooksHold ==
  \A c \in Calls : Begun(c) /\ ~Over(c) /\ ~Overlapped(c) /\ ~Troubled =>
    \A x \in Cells \ Derived :
      Looked(Steps(c), calls[c].at, x) => calls[c].read[x] = device[x]

(* The device is awake as at first, or asleep and has not forgotten. *)
RemembersWhat ==
  Returning =>
    \/ device[Sleep] = was[Sleep]
    \/ device[Sleep] = Asleep(Sleep) /\ (Sleep = "mode" => device["history"] = was["mode"])

(* A resume that goes on after it has looked has found the device asleep,  *)
(* and has read what the mode was.                                         *)
FoundAsleep ==
  Returning =>
    \A d \in Calls : Begun(d) /\ ~Over(d) /\ calls[d].op = "resume" =>
      \A j \in 1..(calls[d].at - 1) :
        /\ Steps(d)[j].does = "done_if"
        /\ \A m \in 1..(calls[d].at - 1) : ~Changes(Steps(d)[m])
        => /\ device[Sleep] = Asleep(Sleep)
           /\ \A k \in (j + 1)..(calls[d].at - 1) :
                Steps(d)[k].does = "read" /\ "history" \in Steps(d)[k].cells
                  => calls[d].read["history"] = device["history"]

(* Nobody has begun since. *)
Last(d) == \A c \in Others(d) : Begun(c) => c \in calls[d].after

Awoken(d) ==
  \/ calls[d].end = "true"
  \/ \E m \in 1..(calls[d].at - 1) : m \in DOMAIN Steps(d) /\ Changes(Steps(d)[m])

(* After a resume the device is as at first. *)
ResumedAsBefore ==
  Returning =>
    \A d \in Calls : Begun(d) /\ calls[d].op = "resume" /\ Last(d) /\ Awoken(d) =>
      device[Sleep] = was[Sleep]

PauseInvariant ==
  /\ TouchIsTrouble /\ RestKept /\ WasAsIs /\ LooksHold
  /\ RemembersWhat /\ FoundAsleep /\ ResumedAsBefore

-----------------------------------------------------------------------------
LEMMA LookedBefore ==
  ASSUME NEW q, NEW n \in Nat, NEW x, Looked(q, n + 1, x),
         ~(q[n].does = "read" /\ x \in q[n].cells)
  PROVE  Looked(q, n, x) /\ ~(Changes(q[n]) /\ x \in q[n].cells \union q[n].kept)
<1>1. PICK k \in 1..n :
        /\ q[k].does = "read" /\ x \in q[k].cells
        /\ \A m \in (k + 1)..n : ~(Changes(q[m]) /\ x \in q[m].cells \union q[m].kept)
  BY DEF Looked
<1>2. k \in 1..(n - 1) /\ n \in (k + 1)..n
  BY <1>1
<1> QED
  BY <1>1, <1>2 DEF Looked

LEMMA LooksHoldNext ==
  ASSUME ControlTypeOK, \A b \in Table : WellFormed(b), AfterOver, LooksHold, [Next]_vars
  PROVE  LooksHold'
<1> SUFFICES ASSUME NEW c \in Calls, Begun(c)', ~Over(c)', ~Overlapped(c)', ~Troubled',
                    NEW x \in Cells \ Derived,
                    Looked(Steps(c)', calls'[c].at, x)
             PROVE  calls'[c].read[x] = device'[x]
  BY DEF LooksHold
<1>1. CASE ~Begun(c)
  <2>1. calls'[c].at = 1
    BY <1>1, NewlyBegun, StartDoes
  <2> QED
    BY <2>1 DEF Looked
<1>2. CASE Begun(c)
  <2> DEFINE q == Steps(c)
             n == calls[c].at
             s == Current(c)
  <2>1. /\ ~Over(c) /\ ~Overlapped(c) /\ ~Troubled
        /\ Answered(c) \/ Looks(c) \/ (UNCHANGED device /\ calls'[c] = calls[c])
    BY <1>2, StillAlone
  <2>2. Looked(q, n, x) => calls[c].read[x] = device[x]
    BY <1>2, <2>1 DEF LooksHold
  <2>3. Steps(c)' = q /\ q \in Seq(Requests) /\ n \in Nat /\ s = q[n]
    BY <1>2, CallsGoOn, StepsTyped DEF CallRecords, Current
  <2>4. CASE Answered(c)
    <3>1. /\ s \in Requests /\ Went(c, s.then) /\ device' = After(c, s)
          /\ calls'[c].read[x] = IF s.does = "read" /\ x \in s.cells
                                 THEN device[x] ELSE calls[c].read[x]
      BY <2>4, AnsweredDoes
    <3>2. s.then \in {"next", "true"} /\ calls'[c].at = n + 1
      BY <3>1 DEF Requests, Went, Over
    <3>3. CASE s.does = "read" /\ x \in s.cells
      BY <3>1, <3>3 DEF After
    <3>4. CASE ~(s.does = "read" /\ x \in s.cells)
      <4>1. Looked(q, n, x) /\ ~(Changes(s) /\ x \in s.cells \union s.kept)
        BY <2>3, <3>2, <3>4, LookedBefore
      <4>2. device'[x] = device[x]
        BY <3>1, <4>1, AfterIs
      <4> QED
        BY <2>2, <3>1, <3>4, <4>1, <4>2
    <3> QED
      BY <3>3, <3>4
  <2>5. CASE Looks(c)
    <3>1. /\ s.does # "read" /\ device' = device /\ calls'[c].read = calls[c].read
          /\ \E end : Went(c, end)
      BY <2>5, LooksDoes
    <3>2. calls'[c].at \in {n, n + 1}
      BY <3>1 DEF Went
    <3>3. Looked(q, n, x)
      BY <2>3, <3>1, <3>2, LookedBefore
    <3> QED
      BY <2>2, <3>1, <3>3
  <2>6. CASE UNCHANGED device /\ calls'[c] = calls[c]
    BY <2>2, <2>3, <2>6
  <2> QED
    BY <2>1, <2>4, <2>5, <2>6
<1> QED
  BY <1>1, <1>2

LEMMA SleepIs ==
  /\ Means(backend, "pause") = {Sleep} /\ Means(backend, "resume") = {Sleep}
  /\ Sleep \in {"mode", "running"} /\ Sleep \in Cells \ Derived
  /\ SleepsInMode(backend) => Sleep = "mode"
BY DEF Means, Meant, Sleep, Cells, Settings, Derived

LEMMA OnlyPausesBefore ==
  ASSUME ControlTypeOK, \A b \in Table : WellFormed(b), [Next]_vars, OnlyPauses'
  PROVE  OnlyPauses /\ Sleep' = Sleep /\ was' = was /\ backend' = backend
<1>1. UNCHANGED <<backend, was>>
  BY StepCases
<1>2. ~Troubled
  BY TroublesStay DEF OnlyPauses
<1>3. ASSUME NEW c \in Calls, Begun(c)
      PROVE  calls[c].op \in {"pause", "resume"} /\ ~Overlapped(c)
  BY <1>3, CallsGoOn, OverlapStays DEF OnlyPauses
<1> QED
  BY <1>1, <1>2, <1>3 DEF OnlyPauses, Sleep, Means, SleepsInMode, Operations

LEMMA RestKeptNext ==
  ASSUME \A b \in Table : WellFormed(b) /\ WritesItsOwn(b), OwnInvariant, TouchIsTrouble,
         RestKept, [Next]_vars
  PROVE  RestKept'
<1> USE DEF OwnInvariant
<1> SUFFICES ASSUME OnlyPauses', NEW x \in Cells, x # "history", x # Sleep
             PROVE  device'[x] = was[x]
  BY OnlyPausesBefore DEF RestKept
<1>1. OnlyPauses /\ device[x] = was[x]
  BY OnlyPausesBefore DEF RestKept
<1>2. ASSUME NEW c \in Calls, Acts(c), device'[x] # device[x]
      PROVE  FALSE
  <2>1. Begun(c) /\ ~Over(c) /\ calls[c] \in CallRecords
    BY <1>2, ActsDo DEF ControlTypeOK
  <2>2. calls'[c] # calls[c]
    <3>1. Answered(c) \/ Looks(c) \/ Return(c)
      BY <1>2, TroublesStay DEF OnlyPauses
    <3>2. CASE Answered(c)
      <4>1. Went(c, Current(c).then) /\ Current(c) \in Requests
        BY <3>2, AnsweredDoes
      <4> QED
        BY <2>1, <4>1 DEF Went, Over, Requests, CallRecords
    <3>3. CASE Looks(c) \/ Return(c)
      BY <1>2, <3>3, LooksDoes, ReturnDoes
    <3> QED
      BY <3>1, <3>2, <3>3
  <2>3. x \notin Means(backend, calls[c].op) \union Aside(backend.name, calls[c].op)
    BY <1>1, <2>1, SleepIs DEF OnlyPauses, Aside
  <2> QED
    BY <1>1, <1>2, <2>1, <2>2, <2>3, OnlyItsOwn DEF OnlyPauses, TouchIsTrouble
<1>3. ~Elsewhere
  BY TroublesStay DEF OnlyPauses
<1>4. ASSUME NEW c \in Calls, NEW op \in DOMAIN Operations(backend), Start(c, op)
      PROVE  device' = device
  BY <1>4, StartDoes
<1> QED
  BY <1>1, <1>2, <1>3, <1>4, StepCases

(* What the steps of pause and resume are, and what they leave.            *)
LEMMA PauseStepsAre ==
  ASSUME ControlTypeOK, \A b \in Table : WellFormed(b) /\ WritesItsOwn(b) /\ PausesWell(b),
         Returning, NEW c \in Calls, Begun(c)
  PROVE  /\ calls[c].op \in {"pause", "resume"} /\ ~Overlapped(c) /\ ~Troubled
         /\ Steps(c) \in Seq(Requests) /\ calls[c] \in CallRecords
         /\ PauseSteps(Steps(c), Sleep)
         /\ calls[c].op = "resume" => ResumeSteps(Steps(c), Sleep)
         /\ \A n \in DOMAIN Steps(c) : "history" \notin Steps(c)[n].kept
<1>1. /\ calls[c].op \in {"pause", "resume"} /\ calls[c].op \in DOMAIN Operations(backend)
      /\ ~Overlapped(c) /\ ~Troubled
      /\ Steps(c) \in Seq(Requests) /\ calls[c] \in CallRecords /\ backend \in Table
  BY StepsTyped DEF Returning, OnlyPauses, ControlTypeOK
<1>2. ReturnsToMode(backend)
  BY <1>1 DEF PausesWell, Returning
<1>3. Sleep \in Means(backend, calls[c].op)
  BY <1>1, SleepIs
<1>4. \A n \in DOMAIN Steps(c) : "history" \notin Steps(c)[n].kept
  BY <1>1 DEF WritesItsOwn, OwnSteps, Derived, Steps
<1> QED
  BY <1>1, <1>2, <1>3, <1>4 DEF ReturnsToMode, Steps

(* What is wanted of a resume: what was.                                   *)
LEMMA ResumeWants ==
  ASSUME ControlTypeOK, \A b \in Table : WellFormed(b) /\ WritesItsOwn(b) /\ PausesWell(b),
         Returning, WasAsIs, RemembersWhat, FoundAsleep,
         NEW c \in Calls, Begun(c), ~Over(c), calls[c].op = "resume",
         calls[c].at \in DOMAIN Steps(c), Changes(Current(c))
  PROVE  Wanted(c, Sleep) = was[Sleep]
<1>1. ResumeSteps(Steps(c), Sleep) /\ calls[c].at \in Nat
  BY PauseStepsAre DEF CallRecords
<1>2. CASE Sleep = "running"
  BY <1>2 DEF Wanted, Returning, Mining
<1>3. CASE Sleep = "mode"
  <2>1. LooksBack(Steps(c), calls[c].at)
    BY <1>1, <1>3 DEF ResumeSteps, Current
  <2>2. /\ device["mode"] = "sleep"
        /\ calls[c].read["history"] = device["history"]
    BY <1>1, <1>3, <2>1 DEF LooksBack, FoundAsleep, Asleep
  <2>3. device["history"] = was["mode"]
    BY <1>3, <2>2 DEF RemembersWhat, Returning, Mining
  <2> QED
    BY <1>3, <2>2, <2>3 DEF Wanted, WasAsIs
<1> QED
  BY <1>2, <1>3, SleepIs

LEMMA PauseLeaves ==
  ASSUME ControlTypeOK, \A b \in Table : WellFormed(b) /\ WritesItsOwn(b) /\ PausesWell(b),
         Returning, WasAsIs, RemembersWhat, FoundAsleep, NEW c \in Calls, Answered(c)
  PROVE  /\ ~Changes(Current(c)) => device' = device
         /\ Changes(Current(c)) =>
              /\ calls[c].op = "resume" => device'[Sleep] = was[Sleep]
              /\ calls[c].op = "pause" =>
                   /\ device'[Sleep] = Asleep(Sleep)
                   /\ Sleep = "mode" =>
                        device'["history"] = IF device["mode"] # "sleep" THEN device["mode"]
                                             ELSE device["history"]
<1> DEFINE s == Current(c)
<1>1. /\ Begun(c) /\ ~Over(c) /\ calls[c].at \in DOMAIN Steps(c) /\ s \in Requests
      /\ device' = After(c, s)
  BY AnsweredDoes
<1>2. /\ calls[c].op \in {"pause", "resume"}
      /\ PauseSteps(Steps(c), Sleep) /\ "history" \notin s.kept
  BY <1>1, PauseStepsAre DEF Current
<1>3. CASE ~Changes(s)
  BY <1>1, <1>3 DEF Changes, After
<1>4. CASE Changes(s)
  <2>1. s.does = "write" /\ s.cells = {Sleep}
    BY <1>1, <1>2, <1>4 DEF PauseSteps, Current
  <2>2. device'[Sleep] = Wanted(c, Sleep)
    BY <1>1, <2>1, SleepIs, AfterIs
  <2>3. calls[c].op = "resume" => device'[Sleep] = was[Sleep]
    BY <1>1, <1>4, <2>2, ResumeWants
  <2>4. calls[c].op = "pause" => device'[Sleep] = Asleep(Sleep)
    BY <2>2, SleepIs DEF Wanted, Asleep
  <2>5. ASSUME calls[c].op = "pause", Sleep = "mode"
        PROVE  device'["history"] = IF device["mode"] # "sleep" THEN device["mode"]
                                    ELSE device["history"]
    <3> DEFINE d == [x \in Cells |->
                 CASE x \in s.cells -> IF x = "active_pools" THEN "apply" ELSE Wanted(c, x)
                   [] x \in s.kept -> calls[c].read[x]
                   [] OTHER -> device[x]]
    <3>1. {"mode", "pools", "history", "active_pools"} \subseteq Cells
      BY DEF Cells, Settings, Facts
    <3>2. d["history"] = device["history"] /\ d["mode"] = "sleep"
      <4>1. "mode" \in s.cells /\ "history" \notin s.cells /\ "history" \notin s.kept
        BY <1>2, <2>1, <2>5
      <4>2. "mode" \notin s.kept
        BY <1>1, <4>1 DEF Requests
      <4>3. Wanted(c, "mode") = "sleep"
        BY <2>5 DEF Wanted
      <4>4. d["mode"] = Wanted(c, "mode")
        BY <3>1, <4>1, <4>2
      <4>5. d["history"] = device["history"]
        BY <3>1, <4>1
      <4> QED
        BY <4>3, <4>4, <4>5
    <3>3. DOMAIN d = Cells
      OBVIOUS
    <3>4. device' = Settled(d)
      BY <1>1, <2>1 DEF After, Written
    <3> HIDE DEF d
    <3> QED
      BY <3>1, <3>2, <3>3, <3>4 DEF Settled
  <2> QED
    BY <1>4, <2>3, <2>4, <2>5
<1> QED
  BY <1>3, <1>4

LEMMA ReturningBefore ==
  ASSUME ControlTypeOK, \A b \in Table : WellFormed(b), [Next]_vars, Returning'
  PROVE  Returning /\ OnlyPauses' /\ Sleep' = Sleep /\ was' = was /\ backend' = backend
BY OnlyPausesBefore DEF Returning, Mining

(* Without trouble the device is changed by answers only.                  *)
LEMMA OnlyAnswersChange ==
  ASSUME ControlTypeOK, \A b \in Table : WellFormed(b), [Next]_vars, ~Troubled',
         device' # device
  PROVE  \E c \in Calls : Answered(c)
<1>1. ASSUME NEW c \in Calls, Acts(c) PROVE Answered(c)
  BY <1>1, TroublesStay, LooksDoes, ReturnDoes
<1>2. ASSUME NEW c \in Calls, NEW op \in DOMAIN Operations(backend), Start(c, op) PROVE FALSE
  BY <1>2, StartDoes
<1>3. ~Elsewhere
  BY TroublesStay
<1> QED
  BY <1>1, <1>2, <1>3, StepCases

LEMMA RemembersWhatNext ==
  ASSUME ControlTypeOK, \A b \in Table : WellFormed(b) /\ WritesItsOwn(b) /\ PausesWell(b),
         WasAsIs, RemembersWhat, FoundAsleep, [Next]_vars
  PROVE  RemembersWhat'
<1> SUFFICES ASSUME Returning'
             PROVE  \/ device'[Sleep] = was[Sleep]
                    \/ /\ device'[Sleep] = Asleep(Sleep)
                       /\ Sleep = "mode" => device'["history"] = was["mode"]
  BY ReturningBefore DEF RemembersWhat, Asleep
<1>1. Returning /\ ~Troubled'
  BY ReturningBefore DEF OnlyPauses
<1>2. CASE device' = device
  BY <1>1, <1>2 DEF RemembersWhat
<1>3. CASE device' # device
  <2>1. PICK c \in Calls : Answered(c)
    BY <1>1, <1>3, OnlyAnswersChange
  <2>2. Changes(Current(c)) /\ calls[c].op \in {"pause", "resume"}
    BY <1>1, <1>3, <2>1, PauseLeaves, AnsweredDoes, PauseStepsAre
  <2>3. CASE calls[c].op = "resume"
    BY <1>1, <2>1, <2>2, <2>3, PauseLeaves
  <2>4. CASE calls[c].op = "pause"
    <3>1. /\ device'[Sleep] = Asleep(Sleep)
          /\ Sleep = "mode" =>
               device'["history"] = IF device["mode"] # "sleep" THEN device["mode"]
                                    ELSE device["history"]
      BY <1>1, <2>1, <2>2, <2>4, PauseLeaves
    <3> QED
      BY <1>1, <3>1 DEF RemembersWhat, Returning, Mining, Asleep
  <2> QED
    BY <2>2, <2>3, <2>4
<1> QED
  BY <1>2, <1>3

LEMMA FoundAsleepNext ==
  ASSUME \A b \in Table : WellFormed(b) /\ WritesItsOwn(b) /\ PausesWell(b), OwnInvariant,
         LooksHold, WasAsIs, RemembersWhat, FoundAsleep, [Next]_vars
  PROVE  FoundAsleep'
<1> USE DEF OwnInvariant
<1> SUFFICES ASSUME Returning', NEW d \in Calls, Begun(d)', ~Over(d)', calls'[d].op = "resume",
                    NEW j \in 1..(calls'[d].at - 1), Steps(d)'[j].does = "done_if",
                    \A m \in 1..(calls'[d].at - 1) : ~Changes(Steps(d)'[m])
             PROVE  /\ device'[Sleep] = Asleep(Sleep)
                    /\ \A k \in (j + 1)..(calls'[d].at - 1) :
                         Steps(d)'[k].does = "read" /\ "history" \in Steps(d)'[k].cells
                           => calls'[d].read["history"] = device'["history"]
  BY ReturningBefore DEF FoundAsleep, Asleep, Changes
<1>1. Returning /\ OnlyPauses' /\ ~Troubled'
  BY ReturningBefore DEF OnlyPauses
<1>2. Begun(d)
  BY NewlyBegun, StartDoes
<1>3. ~Overlapped(d)'
  BY <1>1 DEF OnlyPauses
<1>4. /\ ~Over(d) /\ ~Overlapped(d) /\ ~Troubled
      /\ Answered(d) \/ Looks(d) \/ (UNCHANGED device /\ calls'[d] = calls[d])
  BY <1>1, <1>2, <1>3, StillAlone
<1> DEFINE q == Steps(d)
           at == calls[d].at
<1>5. /\ Steps(d)' = q /\ q \in Seq(Requests) /\ at \in Nat /\ calls[d].op = "resume"
      /\ ResumeSteps(q, Sleep)
  <2>1. Steps(d)' = q /\ calls[d].op = "resume"
    BY <1>2, CallsGoOn
  <2> QED
    BY <1>1, <1>2, <2>1, PauseStepsAre DEF CallRecords
<1>6. ASSUME j < at, \A m \in 1..(at - 1) : ~Changes(q[m])
      PROVE  /\ device[Sleep] = Asleep(Sleep)
             /\ \A k \in (j + 1)..(at - 1) : q[k].does = "read" /\ "history" \in q[k].cells
                  => calls[d].read["history"] = device["history"]
  BY <1>1, <1>2, <1>4, <1>5, <1>6 DEF FoundAsleep
<1>7. CASE UNCHANGED device /\ calls'[d] = calls[d]
  BY <1>5, <1>6, <1>7
<1>8. CASE Answered(d)
  <2>1. /\ Current(d) \in Requests /\ IsRequest(d) /\ Went(d, Current(d).then)
        /\ calls'[d].read = [x \in Cells |-> IF Current(d).does = "read" /\ x \in Current(d).cells
                                             THEN device[x] ELSE calls[d].read[x]]
        /\ "history" \in Cells
    BY <1>8, AnsweredDoes DEF Cells, Facts
  <2>2. calls'[d].at = at + 1
    BY <2>1 DEF Went, Requests, Over
  <2>3. ~Changes(q[at]) /\ q[at] = Current(d)
    <3>1. at \in DOMAIN q
      BY <1>8, AnsweredDoes
    <3> QED
      BY <1>5, <2>2, <3>1 DEF Current
  <2>4. device' = device
    BY <1>1, <1>8, <2>3, PauseLeaves
  <2>5. j # at
    BY <1>5, <2>1, <2>3 DEF IsRequest
  <2>6. /\ device[Sleep] = Asleep(Sleep)
        /\ \A k \in (j + 1)..(at - 1) : q[k].does = "read" /\ "history" \in q[k].cells
             => calls[d].read["history"] = device["history"]
    BY <1>5, <1>6, <2>2, <2>5
  <2>7. calls'[d].read["history"] = IF q[at].does = "read" /\ "history" \in q[at].cells
                                    THEN device["history"] ELSE calls[d].read["history"]
    BY <2>1, <2>3
  <2> QED
    BY <1>5, <2>2, <2>4, <2>6, <2>7
<1>9. CASE Looks(d)
  <2>1. /\ Current(d) \in Requests
        /\ Current(d).does \in {"needs", "erase", "done_if", "verify"}
        /\ device' = device /\ calls'[d].read = calls[d].read
        /\ at \in DOMAIN q
    BY <1>9, LooksDoes
  <2>2. PICK x \in Current(d).cells : Went(d, Finds(d, x))
    BY <1>9, LooksDoes
  <2>3. Finds(d, x) = "next" /\ calls'[d].at = at + 1
    <3>1. Finds(d, x) \in {"error", "false", "true", "next"}
      BY <2>1 DEF Finds, Requests, Failures
    <3> QED
      BY <2>2, <3>1 DEF Went, Over
  <2>4. CASE j < at
    <3>1. Current(d).does # "read" /\ Current(d) = q[at]
      BY <2>1 DEF Current
    <3>2. /\ device[Sleep] = Asleep(Sleep)
          /\ \A k \in (j + 1)..(at - 1) : q[k].does = "read" /\ "history" \in q[k].cells
               => calls[d].read["history"] = device["history"]
      <4>1. \A m \in 1..(at - 1) : ~Changes(q[m])
        BY <1>5, <2>3
      <4> HIDE DEF q, at
      <4> QED
        BY <1>6, <2>4, <4>1
    <3> QED
      BY <1>5, <2>1, <2>3, <3>1, <3>2
  <2>5. CASE j = at
    <3>1. Current(d).does = "done_if" /\ Current(d) = q[at]
      BY <1>5, <2>1, <2>5 DEF Current
    <3>2. x = Sleep /\ Looked(q, at, Sleep)
      BY <1>5, <2>1, <2>2, <3>1 DEF ResumeSteps
    <3>3. calls[d].read[Sleep] = device[Sleep]
      BY <1>2, <1>4, <3>2, SleepIs DEF LooksHold
    <3>4. device[Sleep] \in {"unread", "sleep", "paused"}
      BY <1>5, <2>3, <3>1, <3>2, <3>3 DEF Finds, AsWanted
    <3>5. was[Sleep] \notin {"unread", "sleep", "paused"}
      BY <1>1, SleepIs DEF WasAsIs, Returning, Mining
    <3>6. device[Sleep] = Asleep(Sleep)
      BY <1>1, <3>4, <3>5 DEF RemembersWhat
    <3> QED
      BY <2>1, <2>3, <2>5, <3>6
  <2> QED
    BY <1>5, <2>3, <2>4, <2>5
<1> QED
  BY <1>4, <1>7, <1>8, <1>9

LEMMA LastStays ==
  ASSUME ControlTypeOK, \A b \in Table : WellFormed(b), [Next]_vars,
         NEW d \in Calls, Begun(d), Last(d)'
  PROVE  Last(d)
BY CallsGoOn DEF Last, Others

(* While nobody has begun since, only the call itself can change anything. *)
LEMMA OnlyTheLastActs ==
  ASSUME ControlTypeOK, \A b \in Table : WellFormed(b), AfterOver, NEW d \in Calls, Begun(d),
         Last(d), NEW c \in Calls, Acts(c)
  PROVE  c = d
BY ActsDo DEF AfterOver, Last, Others

LEMMA ResumedAsBeforeNext ==
  ASSUME \A b \in Table : WellFormed(b) /\ WritesItsOwn(b) /\ PausesWell(b), OwnInvariant,
         LooksHold, WasAsIs, RemembersWhat, FoundAsleep, ResumedAsBefore, [Next]_vars
  PROVE  ResumedAsBefore'
<1> USE DEF OwnInvariant
<1> SUFFICES ASSUME Returning', NEW d \in Calls, Begun(d)', calls'[d].op = "resume",
                    Last(d)', Awoken(d)'
             PROVE  device'[Sleep] = was[Sleep]
  BY ReturningBefore DEF ResumedAsBefore
<1>1. Returning /\ ~Troubled'
  BY ReturningBefore DEF OnlyPauses
<1>2. Begun(d)
  <2>1. CASE ~Begun(d)
    <3>1. calls'[d].at = 1 /\ calls'[d].end = "none"
      BY <2>1, NewlyBegun, StartDoes
    <3> QED
      BY <3>1 DEF Awoken
  <2> QED
    BY <2>1
<1> DEFINE q == Steps(d)
           at == calls[d].at
<1>3. /\ Steps(d)' = q /\ q \in Seq(Requests) /\ at \in Nat /\ calls[d].op = "resume"
      /\ ResumeSteps(q, Sleep) /\ PauseSteps(q, Sleep) /\ ~Overlapped(d) /\ ~Troubled
  <2>1. Steps(d)' = q /\ calls[d].op = "resume"
    BY <1>2, CallsGoOn
  <2> QED
    BY <1>1, <1>2, <2>1, PauseStepsAre DEF CallRecords
<1>4. Last(d)
  BY <1>2, LastStays
<1>5. Awoken(d) => device[Sleep] = was[Sleep]
  BY <1>1, <1>2, <1>3, <1>4 DEF ResumedAsBefore
<1>6. CASE calls'[d] = calls[d] /\ device' = device
  BY <1>3, <1>5, <1>6 DEF Awoken
<1>7. ASSUME NEW n \in Nat, n <= at, n \in DOMAIN q, Changes(q[n]), n # at
      PROVE  Awoken(d)
  BY <1>3, <1>7 DEF Awoken
<1>8. CASE Answered(d)
  <2>1. /\ Current(d) = q[at] /\ at \in DOMAIN q /\ Went(d, Current(d).then)
        /\ Current(d).then = "next" /\ ~Over(d)
    BY <1>3, <1>8, AnsweredDoes DEF Current, ResumeSteps
  <2>2. CASE Changes(Current(d))
    BY <1>1, <1>3, <1>8, <2>2, PauseLeaves
  <2>3. CASE ~Changes(Current(d))
    <3>1. device' = device
      BY <1>1, <1>8, <2>3, PauseLeaves
    <3>2. Awoken(d)
      BY <1>3, <1>7, <2>1, <2>3 DEF Awoken, Went, Changes, Over
    <3> QED
      BY <1>5, <3>1, <3>2
  <2> QED
    BY <2>2, <2>3
<1>9. CASE Looks(d)
  <2>1. /\ Current(d) = q[at] /\ at \in DOMAIN q /\ Current(d) \in Requests
        /\ Current(d).does \in {"needs", "done_if"} /\ device' = device /\ ~Over(d)
    BY <1>3, <1>9, LooksDoes DEF Current, ResumeSteps, PauseSteps, Changes
  <2>2. PICK x \in Current(d).cells : Went(d, Finds(d, x))
    BY <1>9, LooksDoes
  <2>3. CASE Finds(d, x) = "true"
    <3>1. Current(d).does = "done_if" /\ AsWanted(d, x)
      BY <2>1, <2>3 DEF Finds, Requests, Failures
    <3>2. x = Sleep /\ Looked(q, at, Sleep)
      BY <1>3, <2>1, <2>2, <3>1 DEF ResumeSteps
    <3>3. calls[d].read[Sleep] = device[Sleep]
      BY <1>2, <1>3, <2>1, <3>2, SleepIs DEF LooksHold
    <3>4. device[Sleep] \notin {"sleep", "paused"}
      BY <1>3, <3>1, <3>2, <3>3 DEF AsWanted
    <3> QED
      BY <1>1, <2>1, <3>4 DEF RemembersWhat, Asleep
  <2>4. CASE Finds(d, x) # "true"
    <3>1. calls'[d].end # "true" /\ calls'[d].at \in {at, at + 1} /\ ~Changes(q[at])
      BY <2>1, <2>2, <2>4 DEF Went, Changes, Over
    <3>2. Awoken(d)
      BY <1>3, <1>7, <3>1 DEF Awoken, Changes
    <3> QED
      BY <1>5, <2>1, <3>2
  <2> QED
    BY <2>3, <2>4
<1>10. CASE Return(d)
  <2>1. at > Len(q) /\ device' = device
    BY <1>10, ReturnDoes
  <2>2. Awoken(d)
    BY <1>3, <2>1 DEF Awoken, ResumeSteps
  <2> QED
    BY <1>5, <2>1, <2>2
<1> QED
  <2>1. ASSUME NEW c \in Calls, Acts(c)
        PROVE  Answered(d) \/ Looks(d) \/ Return(d)
    BY <1>1, <1>2, <1>4, <2>1, OnlyTheLastActs, TroublesStay
  <2>2. ASSUME NEW c \in Calls, NEW op \in DOMAIN Operations(backend), Start(c, op)
        PROVE  calls'[d] = calls[d] /\ device' = device
    BY <1>2, <2>2, StartDoes DEF OnlyCall
  <2>3. ~Elsewhere
    BY <1>1, TroublesStay
  <2> QED
    BY <1>6, <1>8, <1>9, <1>10, <2>1, <2>2, <2>3, StepCases

LEMMA PauseInit ==
  ASSUME Init
  PROVE  PauseInvariant
<1>1. was = device /\ \A c \in Calls : calls[c] = Idle
  BY DEF Init, ControlInit
<1>2. PICK running \in {"mining", "paused"}, mode \in Modes(backend), split \in {"off", "on"} :
        device = Device(running, mode, IF mode = "sleep" THEN "low" ELSE "none", split)
  BY DEF Init, ControlInit
<1>3. WasAsIs
  BY <1>1, <1>2 DEF WasAsIs, Device, Modes, Cells, Settings
<1>4. \A c \in Calls : ~Begun(c)
  BY <1>1, IdleTyped DEF Begun
<1> QED
  BY <1>1, <1>3, <1>4
     DEF PauseInvariant, LooksHold, RestKept, RemembersWhat, FoundAsleep, ResumedAsBefore,
         TouchIsTrouble, Init, ControlInit

LEMMA PauseNext ==
  ASSUME \A b \in Table : WellFormed(b) /\ WritesItsOwn(b) /\ PausesWell(b), OwnInvariant,
         PauseInvariant, [Next]_vars
  PROVE  PauseInvariant'
<1>1. WasAsIs'
  BY StepCases DEF PauseInvariant, WasAsIs
<1> QED
  BY <1>1, TouchIsTroubleNext, RestKeptNext, LooksHoldNext, RemembersWhatNext, FoundAsleepNext,
     ResumedAsBeforeNext
     DEF PauseInvariant, OwnInvariant

LEMMA PausedAndResumed ==
  ASSUME \A b \in Table : PausesWell(b), ControlTypeOK, PauseInvariant
  PROVE  PauseResumeKeepsTuning
<1> SUFFICES ASSUME NEW c \in Calls, NEW d \in Calls,
                    Succeeded(c), calls[c].op = "pause",
                    Succeeded(d), calls[d].op = "resume", calls[d].after = {c},
                    \A other \in Calls \ {c, d} : ~Begun(other),
                    ~Troubled, Mining(was),
                    NEW x \in Cells \ {"history"}
             PROVE  device[x] = was[x] \/ (x = "mode" /\ backend.name \in ForgetsItsMode)
  BY DEF PauseResumeKeepsTuning
<1>1. c # d /\ Begun(c) /\ Begun(d) /\ ~Overlapped(c) /\ ~Overlapped(d) /\ Last(d)
  BY DEF Begun, Overlapped, Others, Last
<1>2. OnlyPauses
  BY <1>1 DEF OnlyPauses
<1>3. CASE x # Sleep
  BY <1>2, <1>3 DEF PauseInvariant, RestKept
<1>4. CASE x = Sleep /\ backend.name \in ForgetsItsMode
  BY <1>4, SleepIs DEF ControlTypeOK, PausesWell
<1>5. CASE x = Sleep /\ backend.name \notin ForgetsItsMode
  <2>1. Returning /\ Awoken(d)
    BY <1>2, <1>5 DEF Returning, Awoken, Succeeded
  <2> QED
    BY <1>1, <1>5, <2>1 DEF PauseInvariant, ResumedAsBefore
<1> QED
  BY <1>3, <1>4, <1>5

(* A pause and a resume after it leave a miner as it was, mining in the    *)
(* mode it mined in, whatever else they sent, for any table of backends    *)
(* that resume so.                                                         *)
THEOREM PauseAlwaysKeepsTuning ==
  ASSUME \A b \in Table : WellFormed(b) /\ WritesItsOwn(b) /\ PausesWell(b)
  PROVE  Spec => []PauseResumeKeepsTuning
<1> DEFINE Inv == OwnInvariant /\ PauseInvariant
<1>1. Init => Inv
  BY OwnInit, PauseInit
<1>2. Inv /\ [Next]_vars => Inv'
  BY OwnNext, PauseNext
<1>3. Inv => PauseResumeKeepsTuning
  BY PausedAndResumed DEF OwnInvariant
<1> QED
  BY <1>1, <1>2, <1>3, PTL DEF Spec

-----------------------------------------------------------------------------
(* TargetReadsBack.  An operation that tunes writes what it sets before it *)
(* can say Ok(true), and the limit is in force: nothing but the normal     *)
(* mode is left.  With every answer there the reader finds it.             *)
TuneOps == {"set_power_limit", "tune_power", "tune_mode"}
Tuned(op) == IF op = "tune_mode" THEN "mode" ELSE "target"

Writes(s, x) == s.does = "write" /\ x \in s.cells

OnlyWrites(q) ==
  \A n \in DOMAIN q :
    /\ Changes(q[n]) => q[n].does = "write" /\ q[n].kept \intersect {"mode", "target"} = {}
    /\ q[n].does # "done_if"

Reaches(q, x) ==
  /\ \E m \in DOMAIN q : Writes(q[m], x)
  /\ \A n \in DOMAIN q :
       q[n].then = "true" \/ q[n].does = "verify" => \E m \in 1..n : Writes(q[m], x)

(* No mode overrides the limit when the operation is over. *)
LeavesNoMode(b, op, q) ==
  \/ KeepsNormal(b)
  \/ Reaches(q, "mode")
  \/ /\ op = "set_power_limit" /\ b.name \in {"WhatsMinerV2", "WhatsMinerV3"}
     /\ \A n \in DOMAIN q : ~Writes(q[n], "mode")

TunesAsFit(b, op, q) ==
  OnlyWrites(q) /\ Reaches(q, Tuned(op)) /\ (op = "tune_mode" \/ LeavesNoMode(b, op, q))

(* The backend tunes by the mode only, and mines whenever it does not      *)
(* sleep in one.                                                           *)
TunesAwake(b) ==
  "running" \notin Used(b) /\ TuneOps \intersect DOMAIN Operations(b) = {"tune_mode"}

(* Some alternative can always be used, a mode is only told in that mode,  *)
(* and where the mode can be set it is looked at before the limit.         *)
FindsBy(located, modes, awake, r) ==
  LET There(n) == r.tries[n].needs \subseteq {s \in located : s[1] = "TuningTarget"}
  IN  /\ DOMAIN r.tries \subseteq Nat
      /\ \E n \in DOMAIN r.tries :
           /\ There(n)
           /\ r.tries[n].when = "always" \/ (r.tries[n].when = "mining" /\ awake)
      /\ \A n \in DOMAIN r.tries :
           /\ r.tries[n].needs # {}
           /\ r.tries[n].says = "mode" => r.tries[n].when = "mode"
           /\ r.tries[n].says = "power" /\ modes =>
                \E m \in DOMAIN r.tries : m < n /\ There(m) /\ r.tries[m].when = "mode"

FindsTarget(b) ==
  FindsBy(b.located, "tune_mode" \in DOMAIN Operations(b), TunesAwake(b),
          b.readers["TuningTarget"])

ReadsItBack(b) ==
  "TuningTarget" \in DOMAIN b.readers /\ TuneOps \intersect DOMAIN Operations(b) # {} =>
    /\ FindsTarget(b)
    /\ \A op \in TuneOps \intersect DOMAIN Operations(b) : TunesAsFit(b, op, Operations(b)[op])

KeepsRunning ==
  awaited > 0 /\ "running" \notin Used(backend) => device["running"] = "mining"

(* Nobody has begun, nothing has changed. *)
Untouched == ~Troubled /\ (\A c \in Calls : ~Begun(c)) => device = was

(* The steps of a call that are behind it. *)
Passed(c) ==
  {m \in DOMAIN Steps(c) : m < calls[c].at \/ (m = calls[c].at /\ Over(c))}

(* What a call that tunes alone has written is there, all else of the      *)
(* tuning is as it was.                                                    *)
TunedSo ==
  \A c \in Calls :
    Alone(c) /\ Begun(c) /\ calls[c].op \in TuneOps /\ OnlyWrites(Steps(c)) =>
      \A x \in {"mode", "target"} :
        device[x] = IF \E m \in Passed(c) : Writes(Steps(c)[m], x) THEN Wanted(c, x) ELSE was[x]

(* Where a call can say Ok(true). *)
SaysTrue(s) == s.then = "true" \/ s.does \in {"done_if", "verify"}

EndsTrue ==
  \A c \in Calls : Succeeded(c) /\ Begun(c) =>
    \/ calls[c].at > Len(Steps(c))
    \/ calls[c].at \in DOMAIN Steps(c) /\ SaysTrue(Steps(c)[calls[c].at])

(* A read after a call that was alone is of the device as it is. *)
ReadAfter ==
  /\ ReadingShape
  /\ \A c \in reading.after : c \in Calls /\ Over(c)
  /\ reading.of = "TuningTarget" =>
       /\ awaited > 0 /\ reading.fields = {"TuningTarget"}
       /\ DOMAIN reading.answers \union reading.todo = Asked(backend, {"TuningTarget"})
       /\ \A c \in Calls : Alone(c) /\ reading.after = {c} =>
            \A k \in DOMAIN reading.answers : reading.answers[k] = device

TuneInvariant == KeepsRunning /\ Untouched /\ TunedSo /\ EndsTrue /\ ReadAfter

LEMMA TuneInit == Init => TuneInvariant
<1> SUFFICES ASSUME Init PROVE TuneInvariant
  OBVIOUS
<1>1. /\ reading = NoReading /\ was = device /\ calls = [c \in Calls |-> Idle]
      /\ awaited > 0 => device["running"] = "mining"
  BY DEF Init, ControlInit
<1>2. \A c \in Calls : ~Begun(c) /\ ~Succeeded(c)
  BY <1>1 DEF Begun, Succeeded, Idle
<1>3. reading.of = "nothing" /\ reading.after = {} /\ ReadingShape
  BY <1>1 DEF NoReading, ReadingShape
<1> QED
  BY <1>1, <1>2, <1>3 DEF TuneInvariant, KeepsRunning, Untouched, TunedSo, EndsTrue, ReadAfter

LEMMA KeepsRunningNext ==
  ASSUME ControlTypeOK, \A b \in Table : WellFormed(b), KeepsRunning, [Next]_vars
  PROVE  KeepsRunning'
<1>1. "running" \in Cells \ Derived
  BY DEF Cells, Settings, Derived
<1>2. backend' = backend /\ awaited' = awaited
  BY StepCases
<1> QED
  BY <1>1, <1>2, UnusedStays DEF KeepsRunning

(* Calls that have begun stay so. *)
LEMMA AloneBefore ==
  ASSUME ControlTypeOK, \A b \in Table : WellFormed(b), [Next]_vars, NEW c \in Calls, Alone(c)'
  PROVE  Alone(c) /\ ~Troubled /\ ~Troubled'
<1>1. ~Troubled /\ ~Troubled'
  BY TroublesStay DEF Alone
<1>2. \A d \in Others(c) : ~Begun(d)
  BY CallsGoOn DEF Alone, Others
<1> QED
  BY <1>1, <1>2 DEF Alone

LEMMA UntouchedNext ==
  ASSUME ControlTypeOK, \A b \in Table : WellFormed(b), Untouched, [Next]_vars
  PROVE  Untouched'
<1> SUFFICES ASSUME ~Troubled', \A c \in Calls : ~Begun(c)'
             PROVE  device' = was'
  BY DEF Untouched
<1>1. ~Troubled /\ ~Elsewhere /\ \A c \in Calls : ~Begun(c)
  BY TroublesStay, CallsGoOn
<1>2. \A c \in Calls : ~Acts(c)
  BY <1>1, ActsDo
<1>3. device = was /\ was' = was
  BY <1>1, StepCases DEF Untouched
<1> QED
  BY <1>1, <1>2, <1>3, StartDoes, StepCases

(* What a call does that is alone.                                         *)
LEMMA AloneActs ==
  ASSUME ControlTypeOK, \A b \in Table : WellFormed(b), [Next]_vars,
         NEW c \in Calls, Begun(c), Alone(c)'
  PROVE  \/ Answered(c) \/ Looks(c) \/ Return(c)
         \/ UNCHANGED device /\ calls'[c] = calls[c]
<1>1. Alone(c) /\ ~Troubled'
  BY AloneBefore
<1>2. ASSUME NEW d \in Calls, Acts(d)
      PROVE  Answered(c) \/ Looks(c) \/ Return(c)
  <2>1. d = c
    BY <1>1, <1>2, ActsDo DEF Alone, Others
  <2> QED
    BY <1>1, <1>2, <2>1, TroublesStay
<1>3. ASSUME NEW d \in Calls, NEW op \in DOMAIN Operations(backend), Start(d, op)
      PROVE  UNCHANGED device /\ calls'[c] = calls[c]
  BY <1>3, StartDoes DEF OnlyCall
<1>4. ~Elsewhere
  BY <1>1, TroublesStay
<1> QED
  BY <1>2, <1>3, <1>4, StepCases

(* What an operation that tunes sets the limit and the mode to.            *)
LEMMA TuningWants ==
  ASSUME NEW c \in Calls, calls[c].op \in TuneOps
  PROVE  /\ Wanted(c, "target") = Mark(c)
         /\ Wanted(c, "mode") = IF calls[c].op = "tune_mode" THEN "high" ELSE "normal"
BY DEF Wanted, TuneOps

LEMMA TunedSoNext ==
  ASSUME ControlTypeOK, \A b \in Table : WellFormed(b), Untouched, TunedSo, [Next]_vars
  PROVE  TunedSo'
<1> SUFFICES ASSUME NEW c \in Calls, Alone(c)', Begun(c)', calls'[c].op \in TuneOps,
                    OnlyWrites(Steps(c)'), NEW x \in {"mode", "target"}
             PROVE  device'[x] = IF \E m \in Passed(c)' : Writes((Steps(c)')[m], x)
                                 THEN Wanted(c, x)' ELSE was'[x]
  BY DEF TunedSo
<1>1. /\ Alone(c) /\ ~Troubled /\ ~Troubled' /\ was' = was
      /\ x \in Cells \ Derived /\ x \notin {"history", "active_pools"}
  BY AloneBefore, StepCases DEF Cells, Settings, Derived
<1>2. CASE ~Begun(c)
  <2>1. PICK op \in DOMAIN Operations(backend) : Start(c, op)
    BY <1>2, NewlyBegun
  <2>2. calls'[c].at = 1 /\ calls'[c].end = "none" /\ device' = device
    BY <2>1, StartDoes
  <2>3. device = was
    BY <1>1, <1>2 DEF Alone, Untouched, Others
  <2>4. Steps(c)' \in Seq(Requests)
    <3>1. ControlTypeOK' /\ backend' = backend
      BY TypeNext, StepCases
    <3>2. calls'[c].op \in DOMAIN Operations(backend') /\ backend' \in Table
      BY <3>1 DEF ControlTypeOK
    <3> QED
      BY <3>2 DEF WellFormed, Steps, Operations
  <2>5. Passed(c)' = {}
    BY <2>2, <2>4 DEF Passed, Over
  <2> QED
    BY <1>1, <2>2, <2>3, <2>5
<1>3. CASE Begun(c)
  <2> DEFINE q == Steps(c)
             n == calls[c].at
             written == \E m \in Passed(c) : Writes(q[m], x)
  <2>1. /\ Steps(c)' = q /\ calls'[c].op = calls[c].op /\ q \in Seq(Requests) /\ n \in Nat \ {0}
        /\ Over(c) => calls'[c] = calls[c]
    BY <1>3, CallsGoOn, StepsTyped DEF CallRecords
  <2>2. Wanted(c, x)' = Wanted(c, x)
    BY <2>1 DEF Wanted, TuneOps
  <2>3. device[x] = IF written THEN Wanted(c, x) ELSE was[x]
    BY <1>1, <1>3, <2>1 DEF TunedSo
  <2>4. CASE Answered(c) \/ Looks(c)
    <3>1. /\ ~Over(c) /\ n \in DOMAIN q /\ Current(c) \in Requests
          /\ \E end : Went(c, end) /\ end # "none"
      <4>1. CASE Answered(c)
        BY <4>1, AnsweredDoes DEF Requests
      <4>2. CASE Looks(c)
        <5>1. PICK y \in Current(c).cells : Went(c, Finds(c, y))
          BY <4>2, LooksDoes
        <5>2. Finds(c, y) # "none"
          BY <4>2, LooksDoes DEF Requests, Finds, Failures
        <5> QED
          BY <4>2, <5>1, <5>2, LooksDoes
      <4> QED
        BY <2>4, <4>1, <4>2
    <3>2. /\ Passed(c) = {m \in DOMAIN q : m < n}
          /\ Passed(c)' = {m \in DOMAIN q : m < n} \union {n}
      <4>1. Passed(c) = {m \in DOMAIN q : m < n}
        BY <3>1 DEF Passed
      <4>2. \/ calls'[c].at = n + 1 /\ ~Over(c)'
            \/ calls'[c].at = n /\ Over(c)'
        BY <3>1 DEF Went, Over
      <4>3. DOMAIN q \subseteq Nat
        BY <2>1
      <4>4. Passed(c)' =
              {m \in DOMAIN q : m < calls'[c].at \/ (m = calls'[c].at /\ Over(c)')}
        BY <2>1 DEF Passed
      <4>5. \A m \in DOMAIN q :
              (m < calls'[c].at \/ (m = calls'[c].at /\ Over(c)')) <=> m < n \/ m = n
        BY <2>1, <4>2, <4>3
      <4> QED
        BY <3>1, <4>1, <4>4, <4>5
    <3>3. (\E m \in Passed(c)' : Writes(q[m], x)) <=> written \/ Writes(q[n], x)
      BY <3>2
    <3>4. /\ Writes(q[n], x) => device'[x] = Wanted(c, x)
          /\ ~Writes(q[n], x) => device'[x] = device[x]
      <4>1. CASE Answered(c)
        <5>1. device' = After(c, Current(c)) /\ Current(c) = q[n]
          BY <4>1, AnsweredDoes DEF Current
        <5>2. Changes(Current(c)) => /\ Current(c).does = "write"
                                     /\ x \notin Current(c).kept
          BY <2>1, <3>1, <5>1 DEF OnlyWrites
        <5> QED
          BY <1>1, <3>1, <5>1, <5>2, AfterIs DEF Writes
      <4>2. CASE Looks(c)
        BY <4>2, LooksDoes DEF Current, Writes
      <4> QED
        BY <2>4, <4>1, <4>2
    <3> QED
      BY <1>1, <2>1, <2>2, <2>3, <3>3, <3>4
  <2>5. CASE Return(c)
    <3>1. n > Len(q) /\ ~Over(c) /\ Went(c, "true") /\ device' = device
      BY <2>5, ReturnDoes
    <3>2. calls'[c].at = n
      BY <3>1 DEF Went
    <3>3. n \notin DOMAIN q
      BY <2>1, <3>1
    <3>4. Passed(c)' = Passed(c)
      BY <2>1, <3>1, <3>2, <3>3 DEF Passed
    <3> QED
      BY <1>1, <2>1, <2>2, <2>3, <3>1, <3>4
  <2>6. CASE UNCHANGED device /\ calls'[c] = calls[c]
    <3>1. Passed(c)' = Passed(c)
      BY <2>1, <2>6 DEF Passed, Over
    <3> QED
      BY <1>1, <2>1, <2>2, <2>3, <2>6, <3>1
  <2> QED
    BY <1>3, <2>4, <2>5, <2>6, AloneActs
<1> QED
  BY <1>2, <1>3

LEMMA EndsTrueNext ==
  ASSUME ControlTypeOK, \A b \in Table : WellFormed(b), EndsTrue, [Next]_vars
  PROVE  EndsTrue'
<1> SUFFICES ASSUME NEW c \in Calls, Succeeded(c)', Begun(c)'
             PROVE  \/ calls'[c].at > Len(Steps(c)')
                    \/ /\ calls'[c].at \in DOMAIN (Steps(c)')
                       /\ SaysTrue((Steps(c)')[calls'[c].at])
  BY DEF EndsTrue
<1>1. CASE ~Begun(c)
  BY <1>1, NewlyBegun, StartDoes DEF Succeeded
<1>2. CASE Begun(c)
  <2>1. Steps(c)' = Steps(c)
    BY <1>2, CallsGoOn
  <2>2. CASE calls'[c] = calls[c]
    BY <1>2, <2>1, <2>2 DEF EndsTrue, Succeeded
  <2>3. CASE Answered(c)
    BY <2>1, <2>3, AnsweredDoes DEF Went, Succeeded, SaysTrue, Current, Over, Requests
  <2>4. CASE Looks(c)
    <3>1. /\ calls[c].at \in DOMAIN Steps(c) /\ Current(c) \in Requests /\ ~Over(c)
          /\ Current(c).does \in {"needs", "erase", "done_if", "verify"}
          /\ \E y \in Current(c).cells : Went(c, Finds(c, y))
      BY <2>4, LooksDoes
    <3>2. PICK y \in Current(c).cells : Went(c, Finds(c, y))
      BY <3>1
    <3>3. Finds(c, y) = "true" /\ calls'[c].at = calls[c].at
      BY <3>1, <3>2 DEF Went, Succeeded, Over
    <3>4. Current(c).does \in {"done_if", "verify"}
      BY <3>1, <3>3 DEF Finds, Requests, Failures
    <3> QED
      BY <2>1, <3>1, <3>3, <3>4 DEF SaysTrue, Current
  <2>5. CASE Return(c)
    BY <2>1, <2>5, ReturnDoes DEF Went
  <2>6. CASE Refused(c)
    BY <2>6, RefusedDoes DEF Went, Succeeded, Over, Requests, Failures
  <2>7. CASE Lost(c)
    BY <2>7, LostDoes DEF Went, Succeeded, Over, Requests, Failures
  <2>8. CASE Drop(c)
    BY <2>8, DropDoes DEF Went, Succeeded
  <2>9. ASSUME NEW d \in Calls \ {c}, Acts(d)
        PROVE  calls'[c] = calls[c]
    BY <2>9, ActsDo DEF OnlyCall
  <2>10. ASSUME NEW d \in Calls, NEW op \in DOMAIN Operations(backend), Start(d, op)
         PROVE  calls'[c] = calls[c]
    BY <1>2, <2>10, StartDoes DEF OnlyCall
  <2>11. Elsewhere => calls' = calls
    BY DEF Elsewhere
  <2> QED
    BY <2>2, <2>3, <2>4, <2>5, <2>6, <2>7, <2>8, <2>9, <2>10, <2>11, StepCases DEF Acts
<1> QED
  BY <1>1, <1>2

LEMMA ReadAfterNext ==
  ASSUME ControlTypeOK, \A b \in Table : WellFormed(b), ReadAfter, [Next]_vars
  PROVE  ReadAfter'
<1>1. backend' = backend /\ awaited' = awaited
  BY StepCases
<1>2. \A c \in Calls : Over(c) => Over(c)'
  BY CallsGoOn, IdleTyped DEF ControlTypeOK, Over
<1>3. \A c \in Calls : Alone(c)' /\ Over(c) => Alone(c) /\ device' = device
  <2> SUFFICES ASSUME NEW c \in Calls, Alone(c)', Over(c)
               PROVE  Alone(c) /\ device' = device
    OBVIOUS
  <2>1. Begun(c) /\ Alone(c)
    BY AloneBefore, IdleTyped DEF ControlTypeOK, Over
  <2> QED
    BY <2>1, AloneActs, AnsweredDoes, LooksDoes, ReturnDoes
<1>4. CASE Act \/ UNCHANGED vars
  <2>1. reading' = reading
    BY <1>4 DEF Act, vars
  <2> QED
    BY <1>1, <1>2, <1>3, <2>1 DEF ReadAfter, ReadingShape, Asked
<1>5. CASE ReadAtOnce
  <2>1. PICK fields \in FieldSets :
          \E lost \in Losses(fields), boards \in BoardsThere(fields) :
            reading' = [of |-> "at_once", fields |-> fields, todo |-> {}, lost |-> lost,
                        answers |-> [c \in Asked(backend, fields) \ lost |-> device],
                        reported |-> boards[1], on |-> boards[2], after |-> {}]
    BY <1>5 DEF ReadAtOnce
  <2>2. reading'.of = "at_once" /\ reading'.after = {} /\ ReadingShape'
    BY <2>1 DEF ReadingShape, NoReading
  <2> QED
    BY <2>2 DEF ReadAfter
<1>6. CASE BeginRead
  <2>1. PICK f \in {"IsMining", "TuningTarget"} :
          reading' = [NoReading EXCEPT !.of = f, !.fields = Collects(f),
                                       !.todo = Asked(backend, Collects(f)),
                                       !.after = {c \in Calls : Over(c)}]
    BY <1>6 DEF BeginRead
  <2>2. /\ reading'.answers = << >> /\ ReadingShape' /\ reading'.of = f
        /\ reading'.fields = Collects(f) /\ reading'.todo = Asked(backend, Collects(f))
        /\ reading'.after = {c \in Calls : Over(c)}
    BY <2>1 DEF NoReading, ReadingShape
  <2>3. DOMAIN reading'.answers = {}
    BY <2>2
  <2>4. f = "TuningTarget" => Collects(f) = {"TuningTarget"}
    BY DEF Collects
  <2> QED
    BY <1>1, <1>2, <1>6, <2>2, <2>3, <2>4 DEF ReadAfter, Asked, BeginRead
<1>7. CASE Fetch
  <2>1. PICK k \in reading.todo :
          reading' = [reading EXCEPT !.todo = @ \ {k},
                                     !.answers = [x \in {k} |-> device] ++ @]
    BY <1>7 DEF Fetch
  <2>2. /\ reading'.of = reading.of /\ reading'.fields = reading.fields /\ ReadingShape'
        /\ reading'.after = reading.after /\ reading'.todo = reading.todo \ {k}
        /\ reading'.answers = [x \in {k} |-> device] ++ reading.answers
    BY <2>1 DEF ReadingShape, NoReading, ReadAfter
  <2>3. /\ DOMAIN reading'.answers = {k} \union DOMAIN reading.answers
        /\ \A x \in DOMAIN reading'.answers :
             reading'.answers[x] = IF x = k THEN device ELSE reading.answers[x]
    BY <2>2 DEF ++
  <2>4. device' = device /\ calls' = calls
    BY <1>7 DEF Fetch, cvars
  <2>5. ASSUME reading.of = "TuningTarget", NEW c \in Calls, Alone(c)', reading.after = {c}
        PROVE  \A x \in DOMAIN reading'.answers : reading'.answers[x] = device'
    <3>1. Alone(c)
      BY <2>5, AloneBefore
    <3> QED
      BY <2>3, <2>4, <2>5, <3>1 DEF ReadAfter
  <2>6. reading.of = "TuningTarget" =>
          DOMAIN reading'.answers \union reading'.todo = Asked(backend, {"TuningTarget"})
    BY <2>1, <2>2, <2>3 DEF ReadAfter
  <2> QED
    BY <1>1, <1>2, <2>2, <2>5, <2>6 DEF ReadAfter, Asked
<1> QED
  BY <1>4, <1>5, <1>6, <1>7 DEF Next

LEMMA TuneNext ==
  ASSUME ControlTypeOK, \A b \in Table : WellFormed(b), TuneInvariant, [Next]_vars
  PROVE  TuneInvariant'
BY KeepsRunningNext, UntouchedNext, TunedSoNext, EndsTrueNext, ReadAfterNext DEF TuneInvariant

(* What a call that says Ok(true) had to write before, it has written.     *)
LEMMA Reached ==
  ASSUME ControlTypeOK, \A b \in Table : WellFormed(b), EndsTrue,
         NEW c \in Calls, Begun(c), Succeeded(c), OnlyWrites(Steps(c)),
         NEW x, Reaches(Steps(c), x)
  PROVE  \E m \in Passed(c) : Writes(Steps(c)[m], x)
<1> DEFINE q == Steps(c)
           n == calls[c].at
<1>1. q \in Seq(Requests) /\ n \in Nat /\ Over(c)
  BY StepsTyped DEF CallRecords, Over, Succeeded
<1>2. CASE n > Len(q)
  <2>1. PICK m \in DOMAIN q : Writes(q[m], x)
    BY DEF Reaches
  <2>2. m \in Passed(c)
    BY <1>1, <1>2, <2>1 DEF Passed
  <2> QED
    BY <2>1, <2>2
<1>3. CASE n \in DOMAIN q /\ SaysTrue(q[n])
  <2>1. q[n].then = "true" \/ q[n].does = "verify"
    BY <1>3 DEF SaysTrue, OnlyWrites
  <2>2. PICK m \in 1..n : Writes(q[m], x)
    BY <1>3, <2>1 DEF Reaches
  <2>3. m \in Passed(c)
    BY <1>1, <1>3, <2>2 DEF Passed
  <2> QED
    BY <2>2, <2>3
<1> QED
  BY <1>2, <1>3 DEF EndsTrue

(* What is in force after such a call.                                     *)
LEMMA InForce ==
  ASSUME ControlTypeOK, \A b \in Table : WellFormed(b), TuneInvariant, ModeUntouched,
         NEW c \in Calls, Begun(c), Succeeded(c), Alone(c), calls[c].op \in TuneOps,
         TunesAsFit(backend, calls[c].op, Steps(c)), ~ModeStays(calls[c].op)
  PROVE  /\ device[Tuned(calls[c].op)] = Wanted(c, Tuned(calls[c].op))
         /\ calls[c].op = "tune_mode" <=> InMode(device)
<1>1. \A x \in {"mode", "target"} :
        device[x] = IF \E m \in Passed(c) : Writes(Steps(c)[m], x)
                    THEN Wanted(c, x) ELSE was[x]
  BY DEF TuneInvariant, TunedSo, TunesAsFit
<1>2. \A x \in {"mode", "target"} : Reaches(Steps(c), x) => device[x] = Wanted(c, x)
  BY <1>1, Reached DEF TuneInvariant, TunesAsFit
<1>3. device[Tuned(calls[c].op)] = Wanted(c, Tuned(calls[c].op))
  BY <1>2 DEF TunesAsFit, Tuned
<1>4. CASE calls[c].op = "tune_mode"
  BY <1>3, <1>4, TuningWants DEF Tuned, InMode
<1>5. ASSUME calls[c].op # "tune_mode" PROVE ~InMode(device)
  <2>1. CASE KeepsNormal(backend)
    BY <1>5, <2>1 DEF ModeUntouched, InMode
  <2>2. CASE Reaches(Steps(c), "mode")
    BY <1>2, <1>5, <2>2, TuningWants DEF InMode
  <2>3. CASE /\ calls[c].op = "set_power_limit"
             /\ backend.name \in {"WhatsMinerV2", "WhatsMinerV3"}
             /\ \A n \in DOMAIN Steps(c) : ~Writes(Steps(c)[n], "mode")
    <3>1. device["mode"] = was["mode"]
      BY <1>1, <2>3 DEF Passed
    <3>2. ~InMode(was)
      BY <2>3 DEF ModeStays
    <3> QED
      BY <1>5, <3>1, <3>2 DEF InMode
  <2> QED
    BY <1>5, <2>1, <2>2, <2>3 DEF TunesAsFit, LeavesNoMode
<1> QED
  BY <1>3, <1>4, <1>5

(* With every answer there the reader finds what is in force.              *)
LEMMA FindsWhatIsInForce ==
  ASSUME NEW b, "TuningTarget" \in DOMAIN b.readers, FindsTarget(b), NEW d,
         "running" \notin Used(b) => d["running"] = "mining",
         NEW op \in TuneOps \intersect DOMAIN Operations(b),
         op = "tune_mode" => InMode(d), op # "tune_mode" => ~InMode(d),
         NEW answers, DOMAIN answers = Asked(b, {"TuningTarget"}),
         \A k \in DOMAIN answers : answers[k] = d
  PROVE  ReportedTarget(b, "TuningTarget", {"TuningTarget"}, answers) = d[Tuned(op)]
<1> DEFINE tries == b.readers["TuningTarget"].tries
           usable == Usable(b, "TuningTarget", {"TuningTarget"}, answers)
           n == Min(usable)
           s == CHOOSE s \in tries[n].needs : TRUE
           There(m) == tries[m].needs \subseteq {t \in b.located : t[1] = "TuningTarget"}
<1>1. ReaderOf(b, "TuningTarget").tries = tries
  BY DEF ReaderOf
<1>2. Sources(b, {"TuningTarget"}, answers) = {t \in b.located : t[1] = "TuningTarget"}
  BY DEF Sources, Asked
<1>3. \A m \in DOMAIN tries : \A t \in tries[m].needs : There(m) => answers[t[2]] = d
  BY DEF Asked
<1>4. usable = {m \in DOMAIN tries :
                  There(m) /\ \A t \in tries[m].needs : Told(tries[m].when, d)}
  BY <1>1, <1>2, <1>3 DEF Usable
<1>5. /\ DOMAIN tries \subseteq Nat
      /\ \E m \in DOMAIN tries :
           There(m) /\ (tries[m].when = "always" \/ (tries[m].when = "mining" /\ TunesAwake(b)))
      /\ \A m \in DOMAIN tries :
           /\ tries[m].needs # {}
           /\ tries[m].says = "mode" => tries[m].when = "mode"
           /\ tries[m].says = "power" /\ "tune_mode" \in DOMAIN Operations(b) =>
                \E k \in DOMAIN tries : k < m /\ There(k) /\ tries[k].when = "mode"
  BY DEF FindsTarget, FindsBy
<1> HIDE DEF tries
<1>6. usable # {}
  <2>1. TunesAwake(b) => Mining(d)
    BY DEF TunesAwake, Mining, InMode
  <2>2. PICK m \in DOMAIN tries :
          There(m) /\ (tries[m].when = "always" \/ (tries[m].when = "mining" /\ TunesAwake(b)))
    BY <1>5
  <2>3. Told(tries[m].when, d)
    BY <2>1, <2>2 DEF Told
  <2> QED
    BY <1>4, <2>2, <2>3
<1>7. n \in usable /\ \A m \in usable : n <= m
  BY <1>4, <1>5, <1>6, FirstOfSome
<1>8. s \in tries[n].needs /\ answers[s[2]] = d /\ Told(tries[n].when, d)
  <2>1. s \in tries[n].needs
    BY <1>4, <1>5, <1>7
  <2> QED
    BY <1>3, <1>4, <1>7, <2>1
<1>9. ReportedTarget(b, "TuningTarget", {"TuningTarget"}, answers) =
        CASE tries[n].says = "mode" -> d["mode"]
          [] tries[n].says = "power" -> d["target"]
          [] OTHER -> Target(d)
  BY <1>1, <1>6, <1>8 DEF ReportedTarget
<1>10. Target(d) = d[Tuned(op)]
  BY DEF Target, Tuned
<1>11. CASE tries[n].says = "mode"
  <2>1. InMode(d)
    BY <1>4, <1>5, <1>7, <1>8, <1>11 DEF Told
  <2> QED
    BY <1>9, <1>11, <2>1 DEF Tuned
<1>12. CASE tries[n].says = "power"
  <2>1. op # "tune_mode"
    <3> SUFFICES ASSUME op = "tune_mode" PROVE FALSE
      OBVIOUS
    <3>1. PICK m \in DOMAIN tries : m < n /\ There(m) /\ tries[m].when = "mode"
      BY <1>4, <1>5, <1>7, <1>12
    <3>2. m \in usable
      BY <1>4, <3>1 DEF Told
    <3> QED
      BY <1>4, <1>5, <1>7, <3>1, <3>2
  <2> QED
    BY <1>9, <1>12, <2>1 DEF Tuned
<1> QED
  BY <1>9, <1>10, <1>11, <1>12

(* What a call has set get_tuning_target reports, once nobody else calls   *)
(* and nothing goes wrong, for any table of backends that tune and read    *)
(* the target so.                                                          *)
THEOREM TargetAlwaysReadsBack ==
  ASSUME \A b \in Table : WellFormed(b) /\ ReadsItBack(b)
  PROVE  Spec => []TargetReadsBack
<1> DEFINE Inv == ControlTypeOK /\ ModeUntouched /\ TuneInvariant
<1>1. Init => Inv
  BY TypeInit, ModeUntouchedInit, TuneInit
<1>2. Inv /\ [Next]_vars => Inv'
  BY TypeNext, ModeUntouchedNext, TuneNext
<1>3. Inv => TargetReadsBack
  <2> SUFFICES ASSUME Inv, NEW c \in Calls, Succeeded(c), Alone(c), calls[c].op \in TuneOps,
                      HasRead, reading.of = "TuningTarget", reading.after = {c},
                      "TuningTarget" \in DOMAIN backend.readers, ~ModeStays(calls[c].op)
               PROVE  ReportedTarget(backend, "TuningTarget", reading.fields, reading.answers)
                        = Wanted(c, Tuned(calls[c].op))
    BY DEF TargetReadsBack, TuneOps, Tuned
  <2>1. Begun(c) /\ calls[c].op \in DOMAIN Operations(backend) /\ backend \in Table
    BY DEF ControlTypeOK, Begun, TuneOps
  <2>2. FindsTarget(backend) /\ TunesAsFit(backend, calls[c].op, Steps(c))
    BY <2>1 DEF ReadsItBack, Steps
  <2>3. /\ device[Tuned(calls[c].op)] = Wanted(c, Tuned(calls[c].op))
        /\ calls[c].op = "tune_mode" <=> InMode(device)
    BY <2>1, <2>2, InForce
  <2>4. /\ reading.fields = {"TuningTarget"}
        /\ DOMAIN reading.answers = Asked(backend, {"TuningTarget"})
        /\ \A k \in DOMAIN reading.answers : reading.answers[k] = device
        /\ "running" \notin Used(backend) => device["running"] = "mining"
    BY DEF TuneInvariant, ReadAfter, HasRead, KeepsRunning
  <2> QED
    BY <2>1, <2>2, <2>3, <2>4, FindsWhatIsInForce
<1> QED
  BY <1>1, <1>2, <1>3, PTL DEF Spec

-----------------------------------------------------------------------------
(* A function of sets that grows by f[x] with every x that is added,       *)
(* whichever it is, is the sum of f.                                       *)
AddsUp(f, G, S) ==
  /\ G \in [SUBSET S -> Int]
  /\ G[{}] = 0
  /\ \A s \in SUBSET S : \A x \in s : G[s] = f[x] + G[s \ {x}]

LEMMA SumByElements ==
  ASSUME NEW S, IsFiniteSet(S), NEW f,
         NEW G, AddsUp(f, G, S)
  PROVE  SumFunctionOnSet(f, S) = G[S]
<1> DEFINE Pick(s) == CHOOSE x \in s : TRUE
           Body(g) == [s \in SUBSET S |->
                         IF s = {} THEN 0 ELSE f[Pick(s)] + g[s \ {Pick(s)}]]
           it == CHOOSE g : g = Body(g)
           Wrong == {s \in SUBSET S : it[s] # G[s]}
<1>1. SumFunctionOnSet(f, S) = it[S]
  BY DEF SumFunctionOnSet, FoldFunctionOnSet, MapThenFoldSet
<1>2. \A s \in SUBSET S : s # {} => Pick(s) \in s
  BY Zenon
<1> HIDE DEF Pick
<1>3. G = Body(G)
  BY <1>2 DEF AddsUp
<1>4. it = Body(it)
  <2> HIDE DEF Body
  <2> QED
    BY <1>3, Zenon
<1>5. \A s \in SUBSET S :
        it[s] = IF s = {} THEN 0 ELSE f[Pick(s)] + it[s \ {Pick(s)}]
  <2> DEFINE B == Body(it)
  <2>1. \A s \in SUBSET S : B[s] = IF s = {} THEN 0 ELSE f[Pick(s)] + it[s \ {Pick(s)}]
    <3> HIDE DEF it
    <3> QED
      OBVIOUS
  <2> HIDE DEF it
  <2>2. it = B
    BY <1>4
  <2> HIDE DEF B
  <2> QED
    BY <2>1, <2>2
<1> HIDE DEF it
<1>6. Wrong = {}
  <2> SUFFICES ASSUME Wrong # {} PROVE FALSE
    OBVIOUS
  <2>1. PICK s \in Wrong : \A r \in Wrong : ~(<<r, s>> \in StrictSubsetOrdering(S))
    <3>1. IsWellFoundedOn(StrictSubsetOrdering(S), SUBSET S)
      BY FS_StrictSubsetOrderingWellFounded, FS_FiniteSubsetsOfFinite
    <3>2. Wrong \subseteq SUBSET S
      OBVIOUS
    <3> HIDE DEF Wrong
    <3> QED
      BY <3>1, <3>2, WFMin
  <2>2. s \in SUBSET S /\ it[s] # G[s]
    OBVIOUS
  <2>3. s # {}
    BY <2>2, <1>5 DEF AddsUp
  <2>4. PICK x \in s : x = Pick(s)
    BY <2>2, <2>3, <1>2
  <2>5. it[s \ {x}] = G[s \ {x}]
    <3>1. s \ {x} \in SUBSET S /\ s \ {x} \subseteq s /\ s \ {x} # s
      BY <2>2
    <3>2. <<s \ {x}, s>> \in StrictSubsetOrdering(S)
      BY <2>2, <3>1 DEF StrictSubsetOrdering
    <3>3. s \ {x} \notin Wrong
      <4> HIDE DEF Wrong
      <4> QED
        BY <2>1, <3>2
    <3> QED
      BY <3>1, <3>3
  <2>6. it[s] = f[x] + it[s \ {x}]
    BY <2>2, <2>3, <2>4, <1>5
  <2> QED
    BY <2>2, <2>5, <2>6 DEF AddsUp
<1> QED
  BY <1>1, <1>6

(* The sum of at most three numbers. *)
LEMMA SumOfThree ==
  ASSUME NEW n \in 0..3, NEW f \in [1..n -> Int]
  PROVE  /\ n = 0 => SumFunction(f) = 0
         /\ n = 1 => SumFunction(f) = f[1]
         /\ n = 2 => SumFunction(f) = f[1] + f[2]
         /\ n = 3 => SumFunction(f) = f[1] + f[2] + f[3]
<1> DEFINE Term(i, s) == IF i \in s THEN f[i] ELSE 0
           G == [s \in SUBSET (1..n) |-> Term(1, s) + Term(2, s) + Term(3, s)]
<1>1. G \in [SUBSET (1..n) -> Int]
  OBVIOUS
<1>2. G[{}] = 0
  OBVIOUS
<1>3. ASSUME NEW s \in SUBSET (1..n), NEW x \in s PROVE G[s] = f[x] + G[s \ {x}]
  <2>1. s \ {x} \in SUBSET (1..n)
    OBVIOUS
  <2>2. x \in 1..3 /\ f[x] \in Int
    OBVIOUS
  <2> QED
    BY <2>1, <2>2
<1>4. AddsUp(f, G, 1..n)
  BY <1>1, <1>2, <1>3 DEF AddsUp
<1>5. SumFunctionOnSet(f, 1..n) = G[1..n]
  <2>1. IsFiniteSet(1..n)
    BY FS_Interval
  <2> HIDE DEF G
  <2> QED
    BY <1>4, <2>1, SumByElements
<1>6. SumFunction(f) = SumFunctionOnSet(f, 1..n)
  BY DEF SumFunction
<1>7. /\ n = 0 => G[1..n] = 0
      /\ n = 1 => G[1..n] = f[1]
      /\ n = 2 => G[1..n] = f[1] + f[2]
      /\ n = 3 => G[1..n] = f[1] + f[2] + f[3]
  OBVIOUS
<1> HIDE DEF G
<1> QED
  BY <1>5, <1>6, <1>7

LEMMA TimesKeepsOrder ==
  ASSUME NEW a \in Int, NEW b \in Int, NEW t \in Nat, a <= b PROVE a * t <= b * t
OBVIOUS

(* The share of a weight in a total, and how far rounding takes it.        *)
LEMMA RoundedIsClose ==
  ASSUME NEW w \in Nat, NEW t \in Nat \ {0}, w <= t
  PROVE  /\ Rounded(w, t) \in 0..100
         /\ Rounded(w, t) * t \in Int
         /\ 2 * (Rounded(w, t) * t) <= 200 * w + t
         /\ 200 * w + t < 2 * (Rounded(w, t) * t) + 2 * t
<1> DEFINE r == Rounded(w, t)
<1>1. r \in Int /\ (2 * t) * r <= 200 * w + t /\ 200 * w + t < (2 * t) * r + 2 * t
  BY DEF Rounded
<1>2. (2 * t) * r = 2 * (r * t) /\ r * t \in Int
  BY <1>1
<1>3. r >= 0
  BY <1>1
<1>4. r <= 100
  <2> SUFFICES ASSUME r >= 101 PROVE FALSE
    BY <1>1
  <2>1. r * t >= 101 * t
    BY <1>1
  <2> QED
    BY <1>1, <1>2, <2>1
<1> HIDE DEF r
<1>5. /\ r \in 0..100 /\ r * t \in Int
      /\ 2 * (r * t) <= 200 * w + t /\ 200 * w + t < 2 * (r * t) + 2 * t
  BY <1>1, <1>2, <1>3, <1>4
<1> QED
  BY <1>5 DEF r

(* A share is a natural number, in any total. *)
LEMMA RoundedIsNatural ==
  ASSUME NEW w \in Nat, NEW t \in Nat
  PROVE  Rounded(w, t) \in Nat
<1>1. CASE t = 0
  <2>1. U32 - 1 \in Nat
    BY QuotaAssumption
  <2> QED
    BY <1>1, <2>1 DEF Rounded
<1>2. CASE t # 0
  BY <1>2 DEF Rounded
<1> QED
  BY <1>1, <1>2

(* The ratio of a group whose share is rounded to s when left is not given *)
(* out yet.                                                                *)
Bounded(s, left) == IF s > left THEN left ELSE s

(* The ratios of the first two groups, of weights w, in a total of t. *)
FirstRatio(w, t) == Bounded(Rounded(w[1], t), 100)
SecondRatio(w, t) == Bounded(Rounded(w[2], t), 100 - FirstRatio(w, t))

(* The ratios that are sent. *)
Sent(quotas, n) ==
  LET r1 == FirstRatio(Weights(quotas), TotalQuota(quotas))
      r2 == SecondRatio(Weights(quotas), TotalQuota(quotas))
  IN  IF n = 2 THEN <<r1, 100 - r1>> ELSE <<r1, r2, 100 - r1 - r2>>

LEMMA SumOfNone == SumFunction(<< >>) = 0
<1> DEFINE f == << >>
<1>1. f \in [1..0 -> Int] /\ 0 \in 0..3
  OBVIOUS
<1>2. SumFunction(f) = 0
  <2> HIDE DEF f
  <2> QED
    BY <1>1, SumOfThree
<1> QED
  BY <1>2

LEMMA SumOfOne == ASSUME NEW a \in Int PROVE SumFunction(<<a>>) = a
<1> DEFINE f == <<a>>
<1>1. f \in [1..1 -> Int] /\ f[1] = a
  OBVIOUS
<1>2. SumFunction(f) = a
  <2> HIDE DEF f
  <2> QED
    BY <1>1, SumOfThree
<1> QED
  BY <1>2

LEMMA SumOfTwo == ASSUME NEW a \in Int, NEW b \in Int PROVE SumFunction(<<a, b>>) = a + b
<1> DEFINE f == <<a, b>>
<1>1. f \in [1..2 -> Int] /\ f[1] = a /\ f[2] = b
  OBVIOUS
<1>2. SumFunction(f) = a + b
  <2> HIDE DEF f
  <2>1. SumFunction(f) = f[1] + f[2]
    BY <1>1, SumOfThree
  <2> QED
    BY <1>1, <2>1
<1> QED
  BY <1>2

LEMMA AppendToTwo ==
  ASSUME NEW a, NEW b, NEW c PROVE Append(<<a, b>>, c) = <<a, b, c>>
<1> DEFINE T == {a, b, c}
           s == Append(<<a, b>>, c)
           t == <<a, b, c>>
<1>1. <<a, b>> \in Seq(T) /\ c \in T
  OBVIOUS
<1>2. s \in Seq(T) /\ Len(s) = 3 /\ s[1] = a /\ s[2] = b /\ s[3] = c
  BY <1>1
<1>3. t \in Seq(T) /\ Len(t) = 3 /\ t[1] = a /\ t[2] = b /\ t[3] = c
  OBVIOUS
<1> HIDE DEF s, t
<1>4. \A i \in 1..3 : s[i] = t[i]
  BY <1>2, <1>3
<1>5. s = t
  BY <1>2, <1>3, <1>4, SeqEqual
<1> QED
  BY <1>5 DEF s, t

(* The ratios one after another. *)
LEMMA RatiosUnfold ==
  ASSUME NEW n \in 2..3, NEW quotas \in [1..n -> Nat],
         Rounded(Weights(quotas)[1], TotalQuota(quotas)) \in Nat,
         Rounded(Weights(quotas)[2], TotalQuota(quotas)) \in Nat
  PROVE  EpicRatios(quotas) = Sent(quotas, n)
<1> DEFINE s1 == Rounded(Weights(quotas)[1], TotalQuota(quotas))
           s2 == Rounded(Weights(quotas)[2], TotalQuota(quotas))
           r1 == FirstRatio(Weights(quotas), TotalQuota(quotas))
           r2 == SecondRatio(Weights(quotas), TotalQuota(quotas))
<1>a. r1 = Bounded(s1, 100) /\ r2 = Bounded(s2, 100 - r1) /\ s1 \in Int /\ s2 \in Int
  <2>1. s1 \in Nat /\ s2 \in Nat
    OBVIOUS
  <2>2. r1 = Bounded(s1, 100) /\ r2 = Bounded(s2, 100 - r1)
    BY DEF FirstRatio, SecondRatio
  <2> HIDE DEF s1, s2
  <2> QED
    BY <2>1, <2>2
<1> HIDE DEF r1, r2
<1> DEFINE share(g) == Rounded(Weights(quotas)[g], TotalQuota(quotas))
           Give(g, given) ==
             Append(given, IF g = Len(quotas) \/ share(g) > 100 - SumFunction(given)
                           THEN 100 - SumFunction(given) ELSE share(g))
           Body(h) == [g \in 0..Len(quotas) |-> IF g = 0 THEN << >> ELSE Give(g, h[g - 1])]
           it == CHOOSE h : h = Body(h)
           second == IF n = 2 THEN <<r1, 100 - r1>> ELSE <<r1, r2>>
           third == <<r1, r2, 100 - r1 - r2>>
           G == [g \in 0..Len(quotas) |-> IF g = 0 THEN << >> ELSE IF g = 1 THEN <<r1>>
                                           ELSE IF g = 2 THEN second ELSE third]
<1>1. EpicRatios(quotas) = it[n]
  <2>1. EpicRatios(quotas) = it[Len(quotas)]
    BY DEF EpicRatios
  <2> QED
    BY <2>1
<1>2. r1 \in Int /\ r2 \in Int
  <2> HIDE DEF s1, s2
  <2> QED
    BY <1>a DEF Bounded
<1>3. Give(1, << >>) = <<r1>>
  <2> DEFINE given == << >>
  <2>1. SumFunction(given) = 0
    BY SumOfNone
  <2>2. 1 # Len(quotas) /\ share(1) = s1
    <3>1. Len(quotas) = n /\ 1 # n
      OBVIOUS
    <3>2. share(1) = s1
      BY DEF s1
    <3> QED
      BY <3>1, <3>2
  <2>3. Give(1, given) = Append(given, r1)
    <3> HIDE DEF given
    <3> QED
      BY <2>1, <2>2, <1>a DEF Bounded
  <2> QED
    BY <2>3
<1>4. Give(2, <<r1>>) = second
  <2> DEFINE given == <<r1>>
  <2>1. SumFunction(given) = r1
    BY <1>2, SumOfOne
  <2>2. n = 2 => Give(2, given) = Append(given, 100 - r1)
    BY <2>1
  <2>3. n = 3 => Give(2, given) = Append(given, r2)
    BY <2>1, <1>a DEF Bounded
  <2> QED
    BY <2>2, <2>3
<1>5. n = 3 => Give(3, second) = third
  <2> SUFFICES ASSUME n = 3 PROVE Give(3, second) = third
    OBVIOUS
  <2> DEFINE given == <<r1, r2>>
  <2>1. SumFunction(given) = r1 + r2
    BY <1>2, SumOfTwo
  <2>2. Give(3, given) = Append(given, 100 - (r1 + r2))
    BY <2>1
  <2>3. 100 - (r1 + r2) = 100 - r1 - r2
    BY <1>2
  <2>4. Append(given, 100 - r1 - r2) = third
    BY AppendToTwo
  <2>5. second = given
    OBVIOUS
  <2> HIDE DEF Give, given, second, third
  <2> QED
    BY <2>2, <2>3, <2>4, <2>5
<1> HIDE DEF Give, second, third
<1>6. G = Body(G)
  BY <1>3, <1>4, <1>5
<1>7. it = Body(it)
  <2> HIDE DEF Body, G
  <2> QED
    BY <1>6, Zenon
<1>8. it[0] = << >> /\ \A g \in 1..n : it[g] = Give(g, it[g - 1])
  <2> HIDE DEF it
  <2> DEFINE B == Body(it)
  <2>1. B[0] = << >> /\ \A g \in 1..n : B[g] = Give(g, it[g - 1])
    OBVIOUS
  <2>2. it = B
    BY <1>7
  <2> HIDE DEF B
  <2> QED
    BY <2>1, <2>2
<1> HIDE DEF it
<1>9. it[1] = Give(1, it[0]) /\ it[2] = Give(2, it[1]) /\ (n = 3 => it[3] = Give(3, it[2]))
  BY <1>8
<1>10. it[2] = second /\ (n = 3 => it[3] = third)
  BY <1>3, <1>4, <1>5, <1>8, <1>9
<1>11. CASE n = 2
  BY <1>1, <1>10, <1>11 DEF second, r1, Sent
<1>12. CASE n = 3
  BY <1>1, <1>10, <1>12 DEF third, r1, r2, Sent
<1> QED
  BY <1>11, <1>12

LEMMA TypedTuples ==
  ASSUME NEW T, NEW a \in T, NEW b \in T, NEW c \in T
  PROVE  <<a, b>> \in [1..2 -> T] /\ <<a, b, c>> \in [1..3 -> T]
OBVIOUS

(* What goes out for two groups, and for three: the first ones within half *)
(* a hundredth of their shares, the last one with what is left.  x and y   *)
(* are the ratios times the total.                                         *)
LEMMA TwoShares ==
  ASSUME NEW w \in [1..2 -> Nat \ {0}], NEW t, t = SumFunction(w),
         NEW r1, r1 = FirstRatio(w, t)
  PROVE  /\ r1 \in 0..100
         /\ r1 * t \in (100 * w[1] - t)..(100 * w[1] + t)
         /\ (100 - r1) * t \in (100 * w[2] - t)..(100 * w[2] + t)
<1> DEFINE w1 == w[1]
           w2 == w[2]
<1>0. /\ w1 \in Nat \ {0} /\ w2 \in Nat \ {0} /\ t = w1 + w2
      /\ r1 = Bounded(Rounded(w1, t), 100)
  BY SumOfThree DEF FirstRatio
<1> HIDE DEF w1, w2
<1>1. t \in Nat \ {0} /\ w1 <= t /\ w1 \in Nat /\ w2 \in Nat
  BY <1>0
<1>2. r1 = Rounded(w1, t)
  <2>1. Rounded(w1, t) \in 0..100
    BY <1>1, RoundedIsClose
  <2> QED
    BY <2>1, <1>0 DEF Bounded
<1>3. /\ r1 \in 0..100 /\ r1 * t \in Int
      /\ 2 * (r1 * t) <= 200 * w1 + t /\ 200 * w1 + t < 2 * (r1 * t) + 2 * t
  BY <1>1, <1>2, RoundedIsClose
<1>4. (100 - r1) * t = 100 * t - r1 * t
  BY <1>1, <1>3
<1> DEFINE x == r1 * t
           y == (100 - r1) * t
<1>5. x \in Int /\ y = 100 * t - x /\ 2 * x <= 200 * w1 + t /\ 200 * w1 + t < 2 * x + 2 * t
  BY <1>3, <1>4
<1> HIDE DEF x, y
<1>6. x \in (100 * w1 - t)..(100 * w1 + t) /\ y \in (100 * w2 - t)..(100 * w2 + t)
  BY <1>0, <1>1, <1>5
<1> QED
  BY <1>3, <1>6 DEF x, y, w1, w2

LEMMA ThreeShares ==
  ASSUME NEW w \in [1..3 -> Nat \ {0}], NEW t, t = SumFunction(w),
         NEW r1, r1 = FirstRatio(w, t), NEW r2, r2 = SecondRatio(w, t)
  PROVE  /\ r1 \in 0..100 /\ r2 \in 0..100 /\ 100 - r1 - r2 \in 0..100
         /\ r1 * t \in (100 * w[1] - t)..(100 * w[1] + t)
         /\ r2 * t \in (100 * w[2] - t)..(100 * w[2] + t)
         /\ (100 - r1 - r2) * t \in (100 * w[3] - t)..(100 * w[3] + t)
<1> DEFINE w1 == w[1]
           w2 == w[2]
           w3 == w[3]
<1>0. /\ w1 \in Nat \ {0} /\ w2 \in Nat \ {0} /\ w3 \in Nat \ {0} /\ t = w1 + w2 + w3
      /\ r1 = Bounded(Rounded(w1, t), 100) /\ r2 = Bounded(Rounded(w2, t), 100 - r1)
  BY SumOfThree DEF FirstRatio, SecondRatio
<1> HIDE DEF w1, w2, w3
<1>1. t \in Nat \ {0} /\ w1 <= t /\ w2 <= t /\ w1 \in Nat /\ w2 \in Nat /\ w3 \in Nat
  BY <1>0
<1> DEFINE s2 == Rounded(w2, t)
<1>2. r1 = Rounded(w1, t)
  <2>1. Rounded(w1, t) \in 0..100
    BY <1>1, RoundedIsClose
  <2> QED
    BY <2>1, <1>0 DEF Bounded
<1>3. /\ r1 \in 0..100 /\ r1 * t \in Int
      /\ 2 * (r1 * t) <= 200 * w1 + t /\ 200 * w1 + t < 2 * (r1 * t) + 2 * t
  BY <1>1, <1>2, RoundedIsClose
<1>4. /\ s2 \in 0..100 /\ s2 * t \in Int
      /\ 2 * (s2 * t) <= 200 * w2 + t /\ 200 * w2 + t < 2 * (s2 * t) + 2 * t
  BY <1>1, RoundedIsClose
<1>5. r2 = IF s2 > 100 - r1 THEN 100 - r1 ELSE s2
  BY <1>0 DEF Bounded
<1> HIDE DEF s2
<1>6. s2 <= 100 - r1
  <2> SUFFICES ASSUME s2 >= 101 - r1 PROVE FALSE
    BY <1>3, <1>4
  <2>1. s2 * t >= (101 - r1) * t
    <3> DEFINE a == 101 - r1
    <3>1. a \in Int /\ s2 \in Int /\ t \in Nat /\ a <= s2
      BY <1>1, <1>3, <1>4
    <3> HIDE DEF a
    <3>2. a * t <= s2 * t /\ a * t \in Int /\ s2 * t \in Int
      BY <3>1, TimesKeepsOrder
    <3> QED
      BY <3>2 DEF a
  <2>2. (101 - r1) * t = 101 * t - r1 * t
    BY <1>1, <1>3
  <2> DEFINE x == r1 * t
             y == s2 * t
  <2>3. x \in Int /\ y \in Int /\ 2 * x <= 200 * w1 + t /\ 2 * y <= 200 * w2 + t /\ y >= 101 * t - x
    BY <1>3, <1>4, <2>1, <2>2
  <2> HIDE DEF x, y
  <2> QED
    BY <2>3, <1>0, <1>1
<1>7. r2 = s2
  BY <1>5, <1>6, <1>3, <1>4
<1>8. (100 - r1 - r2) * t = 100 * t - r1 * t - r2 * t
  BY <1>1, <1>3, <1>4, <1>7
<1> DEFINE x == r1 * t
           y == r2 * t
           z == (100 - r1 - r2) * t
<1>9. /\ x \in Int /\ y \in Int /\ z = 100 * t - x - y
      /\ 2 * x <= 200 * w1 + t /\ 200 * w1 + t < 2 * x + 2 * t
      /\ 2 * y <= 200 * w2 + t /\ 200 * w2 + t < 2 * y + 2 * t
  BY <1>3, <1>4, <1>7, <1>8
<1> HIDE DEF x, y, z
<1>10. /\ x \in (100 * w1 - t)..(100 * w1 + t)
       /\ y \in (100 * w2 - t)..(100 * w2 + t)
       /\ z \in (100 * w3 - t)..(100 * w3 + t)
  BY <1>0, <1>1, <1>9
<1>11. r2 \in 0..100 /\ 100 - r1 - r2 \in 0..100
  BY <1>3, <1>4, <1>6, <1>7
<1> QED
  BY <1>3, <1>10, <1>11 DEF x, y, z, w1, w2, w3

(* The split of any two or three groups, whatever their quotas. *)
LEMMA SplitAddsUp ==
  ASSUME NEW n \in 2..3, NEW quotas \in [1..n -> Nat]
  PROVE  /\ EpicRatios(quotas) \in [1..n -> 0..100]
         /\ SumFunction(EpicRatios(quotas)) = 100
         /\ EpicRatios(quotas) = Sent(quotas, n)
<1> DEFINE w == Weights(quotas)
           t == TotalQuota(quotas)
           r1 == FirstRatio(w, t)
           r2 == SecondRatio(w, t)
           ratios == EpicRatios(quotas)
<1>1. w \in [1..n -> Nat \ {0}]
  BY DEF Weights
<1>2. t \in Nat
  <2>1. SumFunction(w) \in Nat
    <3> HIDE DEF w
    <3>1. w \in [1..n -> Int] /\ n \in 0..3
      BY <1>1
    <3>2. (n = 2 => SumFunction(w) = w[1] + w[2]) /\ (n = 3 => SumFunction(w) = w[1] + w[2] + w[3])
      BY <3>1, SumOfThree
    <3>3. w[1] \in Nat /\ w[2] \in Nat /\ (n = 3 => w[3] \in Nat)
      BY <1>1
    <3> QED
      BY <3>2, <3>3
  <2> DEFINE sum == SumFunction(w)
  <2>2. t = sum % U32
    BY DEF TotalQuota
  <2> HIDE DEF sum, t
  <2> QED
    BY <2>1, <2>2, QuotaAssumption DEF sum
<1>3. w[1] \in Nat /\ w[2] \in Nat
  <2> HIDE DEF w
  <2> QED
    BY <1>1
<1>4. Rounded(w[1], t) \in Nat /\ Rounded(w[2], t) \in Nat
  <2> HIDE DEF w, t
  <2> QED
    BY <1>2, <1>3, RoundedIsNatural
<1>5. r1 \in 0..100 /\ r2 \in 0..(100 - r1)
  <2> HIDE DEF w, t
  <2>1. r1 = Bounded(Rounded(w[1], t), 100) /\ r2 = Bounded(Rounded(w[2], t), 100 - r1)
    BY DEF FirstRatio, SecondRatio
  <2> HIDE DEF r1, r2
  <2> DEFINE s1 == Rounded(w[1], t)
             s2 == Rounded(w[2], t)
  <2>2. s1 \in Nat /\ s2 \in Nat /\ r1 = Bounded(s1, 100) /\ r2 = Bounded(s2, 100 - r1)
    BY <1>4, <2>1
  <2> HIDE DEF s1, s2
  <2>3. r1 \in 0..100
    BY <2>2 DEF Bounded
  <2> QED
    BY <2>2, <2>3 DEF Bounded
<1>6. ratios = IF n = 2 THEN <<r1, 100 - r1>> ELSE <<r1, r2, 100 - r1 - r2>>
  <2>1. EpicRatios(quotas) = Sent(quotas, n)
    BY <1>4, RatiosUnfold
  <2> QED
    BY <2>1 DEF Sent
<1>7. ratios \in [1..n -> 0..100] /\ SumFunction(ratios) = 100
  <2> HIDE DEF w, t, r1, r2, ratios
  <2>1. CASE n = 2
    <3>1. 100 - r1 \in 0..100
      BY <1>5
    <3>2. ratios \in [1..2 -> 0..100] /\ ratios[1] = r1 /\ ratios[2] = 100 - r1
      BY <1>5, <1>6, <2>1, <3>1, TypedTuples
    <3>3. ratios \in [1..2 -> Int] /\ 2 \in 0..3
      <4>1. 0..100 \subseteq Int /\ 2 \in 0..3
        OBVIOUS
      <4> QED
        BY <3>2, <4>1
    <3>4. SumFunction(ratios) = ratios[1] + ratios[2]
      BY <3>3, SumOfThree
    <3> QED
      BY <1>5, <2>1, <3>2, <3>4
  <2>2. CASE n = 3
    <3> DEFINE last == 100 - r1 - r2
    <3>1. last \in 0..100 /\ r2 \in 0..100 /\ last = 100 - r1 - r2
      BY <1>5
    <3>2. ratios = <<r1, r2, last>>
      BY <1>6, <2>2
    <3> HIDE DEF last
    <3>3. /\ ratios \in [1..3 -> 0..100]
          /\ ratios[1] = r1 /\ ratios[2] = r2 /\ ratios[3] = last
      BY <1>5, <3>1, <3>2, TypedTuples
    <3>4. ratios \in [1..3 -> Int] /\ 3 \in 0..3
      <4>1. 0..100 \subseteq Int /\ 3 \in 0..3
        OBVIOUS
      <4> QED
        BY <3>3, <4>1
    <3>5. SumFunction(ratios) = ratios[1] + ratios[2] + ratios[3]
      BY <3>4, SumOfThree
    <3> QED
      BY <1>5, <2>2, <3>1, <3>3, <3>5
  <2> QED
    BY <2>1, <2>2
<1> QED
  BY <1>6, <1>7 DEF Sent

(* And it is fair when the sum of the quotas has not wrapped. *)
LEMMA SplitIsFair ==
  ASSUME NEW n \in 2..3, NEW quotas \in [1..n -> Nat],
         SumFunction(Weights(quotas)) < U32
  PROVE  AreShares(EpicRatios(quotas), Weights(quotas))
<1> DEFINE w == Weights(quotas)
           total == SumFunction(w)
           r1 == FirstRatio(w, total)
           r2 == SecondRatio(w, total)
           ratios == EpicRatios(quotas)
<1>1. w \in [1..n -> Nat \ {0}]
  BY DEF Weights
<1>2. DOMAIN w = 1..n
  BY <1>1
<1>3. total \in Nat
  <2> HIDE DEF w
  <2>1. w \in [1..n -> Int] /\ n \in 0..3
    BY <1>1
  <2>2. (n = 2 => total = w[1] + w[2]) /\ (n = 3 => total = w[1] + w[2] + w[3])
    BY <2>1, SumOfThree
  <2>3. w[1] \in Nat /\ w[2] \in Nat /\ (n = 3 => w[3] \in Nat)
    BY <1>1
  <2> HIDE DEF total
  <2> QED
    BY <2>2, <2>3
<1>4. TotalQuota(quotas) = total
  <2>1. TotalQuota(quotas) = total % U32 /\ total < U32
    BY DEF TotalQuota
  <2> HIDE DEF total
  <2> QED
    BY <1>3, <2>1, QuotaAssumption
<1>5. ratios = IF n = 2 THEN <<r1, 100 - r1>> ELSE <<r1, r2, 100 - r1 - r2>>
  <2>1. ratios = Sent(quotas, n)
    BY SplitAddsUp, Zenon
  <2> QED
    BY <1>4, <2>1 DEF Sent
<1> HIDE DEF w, total, r1, r2, ratios
<1>6. CASE n = 2
  <2>1. /\ r1 * total \in (100 * w[1] - total)..(100 * w[1] + total)
        /\ (100 - r1) * total \in (100 * w[2] - total)..(100 * w[2] + total)
    BY <1>1, <1>6, TwoShares DEF r1, total
  <2>2. ratios[1] = r1 /\ ratios[2] = 100 - r1
    BY <1>5, <1>6
  <2>3. \A g \in 1..2 : ratios[g] * total \in (100 * w[g] - total)..(100 * w[g] + total)
    <3>1. \A g \in 1..2 : g = 1 \/ g = 2
      OBVIOUS
    <3> QED
      BY <2>1, <2>2, <3>1
  <2> QED
    BY <2>3, <1>2, <1>6 DEF AreShares, w, total, ratios
<1>7. CASE n = 3
  <2> DEFINE last == 100 - r1 - r2
  <2>1. /\ r1 * total \in (100 * w[1] - total)..(100 * w[1] + total)
        /\ r2 * total \in (100 * w[2] - total)..(100 * w[2] + total)
        /\ last * total \in (100 * w[3] - total)..(100 * w[3] + total)
    BY <1>1, <1>7, ThreeShares DEF r1, r2, total
  <2>2. ratios = <<r1, r2, last>>
    BY <1>5, <1>7
  <2> HIDE DEF last
  <2>3. ratios[1] = r1 /\ ratios[2] = r2 /\ ratios[3] = last
    BY <2>2
  <2>4. \A g \in 1..3 : ratios[g] * total \in (100 * w[g] - total)..(100 * w[g] + total)
    <3>1. \A g \in 1..3 : g = 1 \/ g = 2 \/ g = 3
      OBVIOUS
    <3> QED
      BY <2>1, <2>3, <3>1
  <2> QED
    BY <2>4, <1>2, <1>7 DEF AreShares, w, total, ratios
<1> QED
  BY <1>6, <1>7

(* Whatever the quotas of two or three groups, what ePIC is sent adds up to*)
(* a hundred, and unless the sum of the quotas has wrapped around it gives *)
(* each group its share to within one hundredth.                           *)
THEOREM EpicSplitsByQuota == Spec => []EpicRatiosAreShares
<1>1. SplitsByQuota
  <2> SUFFICES ASSUME NEW n \in 2..3, NEW quotas \in [1..n -> Quotas]
               PROVE  /\ EpicRatios(quotas) \in [1..n -> 0..100]
                      /\ SumFunction(EpicRatios(quotas)) = 100
                      /\ SumFunction(Weights(quotas)) < U32
                           => AreShares(EpicRatios(quotas), Weights(quotas))
    BY DEF SplitsByQuota
  <2>1. quotas \in [1..n -> Nat]
    <3>1. Quotas \subseteq Nat
      BY QuotaAssumption
    <3> QED
      BY <3>1
  <2>2. EpicRatios(quotas) \in [1..n -> 0..100] /\ SumFunction(EpicRatios(quotas)) = 100
    BY <2>1, SplitAddsUp, Zenon
  <2>3. SumFunction(Weights(quotas)) < U32
          => AreShares(EpicRatios(quotas), Weights(quotas))
    BY <2>1, SplitIsFair
  <2> QED
    BY <2>2, <2>3
<1>2. EpicRatiosAreShares
  BY <1>1 DEF EpicRatiosAreShares
<1> QED
  BY <1>2, PTL
=============================================================================
