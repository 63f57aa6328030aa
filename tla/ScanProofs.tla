----------------------------- MODULE ScanProofs -----------------------------
(***************************************************************************)
(* Theorems about Scan for every number of addresses, every limit (zero    *)
(* included), any number of ports, and any addresses that hang; and about  *)
(* StreamLease, which hands the items of a scan to Python, for every set of*)
(* overlapping calls and every number of items.                            *)
(***************************************************************************)
EXTENDS Scan, StreamLease, SequenceTheorems, TLAPS

(* Addresses are taken from the queue in its order. *)
TakenInOrder == \A i \in Pos : stage[i] = "queued" <=> i > started

(* An address has a result when its future is finished, and only then.     *)
ResultWhenFinished == \A i \in Pos : got[i] = "pending" <=> stage[i] # "finished"

(* The items are the addresses that are shown, each of them once.          *)
ItemsAreShown ==
  /\ \A i \in Pos : Shown(i) <=> \E k \in DOMAIN yielded : yielded[k] = i
  /\ \A k, l \in DOMAIN yielded : yielded[k] = yielded[l] => k = l

(* A supported address accepts a probe before its ports are exhausted.     *)
SupportedAnswers == \A i \in Supported : probed[i] < Ports

EndIsComplete == caller = "ended" => \A i \in Pos : stage[i] = "finished"

IInv ==
  /\ TypeOK
  /\ TakenInOrder
  /\ ResultWhenFinished
  /\ ItemsAreShown
  /\ SupportedAnswers
  /\ FoundUnlessStalled
  /\ EndIsComplete

LEMMA InitInv == Init => IInv
<1> SUFFICES ASSUME Init PROVE IInv
  OBVIOUS
<1> USE ScanAssumption DEF Init, Pos
<1>1. TypeOK
  BY DEF TypeOK, Stages
<1>2. TakenInOrder /\ ResultWhenFinished /\ SupportedAnswers /\ FoundUnlessStalled /\ EndIsComplete
  BY DEF TakenInOrder, ResultWhenFinished, SupportedAnswers, FoundUnlessStalled, EndIsComplete
<1>3. ItemsAreShown
  BY DEF ItemsAreShown, Shown
<1> QED
  BY <1>1, <1>2, <1>3 DEF IInv

LEMMA TypeStep == TypeOK /\ [Next]_vars => TypeOK'
<1> SUFFICES ASSUME TypeOK, [Next]_vars PROVE TypeOK'
  OBVIOUS
<1> USE ScanAssumption DEF TypeOK, Stages, Pos
<1>1. CASE UNCHANGED vars
  BY <1>1 DEF vars
<1>2. CASE Start
  BY <1>2 DEF Start
<1>3. CASE End \/ Poll \/ Drop
  BY <1>3 DEF End, Poll, Drop
<1>6. ASSUME NEW i \in Pos, Stall(i) \/ ProbeConnects(i)
      PROVE  TypeOK'
  BY <1>6 DEF Stall, ProbeConnects
<1>7. ASSUME NEW i \in Pos, ProbeFails(i)
      PROVE  TypeOK'
  <2>1. probed[i] + 1 \in 0..Ports
    BY <1>7 DEF ProbeFails
  <2> QED
    BY <1>7, <2>1 DEF ProbeFails
<1>4. ASSUME NEW i \in Pos, NEW r \in {"none", "miner"}, Finish(i, r)
      PROVE  TypeOK'
  <2>1. yielded' \in Seq(Pos)
    <3>1. Append(yielded, i) \in Seq(Pos)
      BY AppendProperties
    <3> QED
      BY <1>4, <3>1 DEF Finish
  <2>2. caller' \in {"polling", "busy", "ended", "dropped", "refused"}
    BY <1>4 DEF Finish
  <2>3. stage' \in [Pos -> Stages] /\ got' \in [Pos -> {"pending", "none", "miner"}]
    BY <1>4 DEF Finish
  <2> QED
    BY <1>4, <2>1, <2>2, <2>3 DEF Finish
<1>5. ASSUME NEW i \in Pos, NoPort(i) \/ Identified(i)
      PROVE  TypeOK'
  BY <1>4, <1>5 DEF NoPort, Identified
<1> QED
  BY <1>1, <1>2, <1>3, <1>5, <1>6, <1>7 DEF Next, Address

(* The items after one more address is finished. *)
LEMMA FinishItems ==
  ASSUME TypeOK, ResultWhenFinished, ItemsAreShown,
         NEW i \in Pos, NEW r \in {"none", "miner"}, i \in InFlight, Finish(i, r)
  PROVE  ItemsAreShown'
<1> USE DEF TypeOK
<1>1. got[i] = "pending"
  BY DEF ResultWhenFinished, InFlight
<1>2. ~\E k \in DOMAIN yielded : yielded[k] = i
  BY <1>1 DEF ItemsAreShown, Shown
<1>3. \A j \in Pos \ {i} : Shown(j)' <=> Shown(j)
  BY DEF Finish, Shown
<1>4. CASE r = "miner" \/ kind = "stream_with_ip"
  <2>1. yielded' = Append(yielded, i) /\ Shown(i)'
    BY <1>4 DEF Finish, Shown
  <2>2. /\ Len(yielded') = Len(yielded) + 1 /\ yielded'[Len(yielded) + 1] = i
        /\ \A k \in 1..Len(yielded) : yielded'[k] = yielded[k]
        /\ DOMAIN yielded' = 1..(Len(yielded) + 1) /\ DOMAIN yielded = 1..Len(yielded)
        /\ Len(yielded) \in Nat
    BY <2>1
  <2> QED
    BY <2>1, <2>2, <1>2, <1>3 DEF ItemsAreShown
<1>5. CASE ~(r = "miner" \/ kind = "stream_with_ip")
  <2>1. yielded' = yielded /\ ~Shown(i)'
    BY <1>5 DEF Finish, Shown
  <2> QED
    BY <2>1, <1>2, <1>3 DEF ItemsAreShown
<1> QED
  BY <1>4, <1>5

LEMMA InvStep == IInv /\ [Next]_vars => IInv'
<1> SUFFICES ASSUME IInv, [Next]_vars PROVE IInv'
  OBVIOUS
<1>1. TypeOK'
  BY TypeStep DEF IInv
<1> USE ScanAssumption DEF IInv, TypeOK
<1> DEFINE Rest == /\ TakenInOrder /\ ResultWhenFinished /\ ItemsAreShown
                   /\ SupportedAnswers /\ FoundUnlessStalled /\ EndIsComplete
<1>2. CASE UNCHANGED vars
  BY <1>2 DEF vars, TakenInOrder, ResultWhenFinished, ItemsAreShown, Shown, SupportedAnswers,
              FoundUnlessStalled, EndIsComplete
<1>3. CASE Start
  <2>1. ItemsAreShown' /\ SupportedAnswers' /\ FoundUnlessStalled' /\ EndIsComplete'
    BY <1>3 DEF Start, ItemsAreShown, Shown, SupportedAnswers, FoundUnlessStalled, EndIsComplete
  <2>2. TakenInOrder' /\ ResultWhenFinished'
    BY <1>3 DEF Start, TakenInOrder, ResultWhenFinished, Pos
  <2> QED
    BY <1>1, <2>1, <2>2
<1>4. CASE End
  <2>1. \A i \in Pos : stage[i] = "finished"
    <3> SUFFICES ASSUME NEW i \in Pos PROVE stage[i] = "finished"
      OBVIOUS
    <3>1. stage[i] # "queued"
      BY <1>4 DEF End, TakenInOrder, Pos
    <3>2. stage[i] \in Stages /\ i \notin InFlight
      BY <1>4 DEF End
    <3> QED
      BY <3>1, <3>2 DEF InFlight, Stages
  <2> QED
    BY <1>1, <1>4, <2>1 DEF End, TakenInOrder, ResultWhenFinished, ItemsAreShown, Shown,
          SupportedAnswers, FoundUnlessStalled, EndIsComplete
<1>5. ASSUME Poll \/ Drop \/ \E i \in Pos : Stall(i) \/ ProbeFails(i) \/ ProbeConnects(i)
      PROVE  IInv'
  <2>1. ItemsAreShown'
    BY <1>5 DEF Poll, Drop, Stall, ProbeFails, ProbeConnects, ItemsAreShown, Shown
  <2>2. TakenInOrder' /\ ResultWhenFinished' /\ EndIsComplete'
    BY <1>5 DEF Poll, Drop, Stall, ProbeFails, ProbeConnects, Polled, TakenInOrder,
                ResultWhenFinished, EndIsComplete
  <2>3. SupportedAnswers' /\ FoundUnlessStalled'
    BY <1>5 DEF Poll, Drop, Stall, ProbeFails, ProbeConnects, SupportedAnswers, FoundUnlessStalled
  <2> QED
    BY <1>1, <2>1, <2>2, <2>3
<1>6. ASSUME NEW i \in Pos, NoPort(i) \/ Identified(i)
      PROVE  IInv'
  <2>1. PICK r \in {"none", "miner"} : Finish(i, r)
    BY <1>6 DEF NoPort, Identified
  <2>2. i \in InFlight /\ caller = "polling"
    BY <1>6 DEF NoPort, Identified, Polled
  <2>3. ItemsAreShown'
    BY <2>1, <2>2, FinishItems
  <2>4. TakenInOrder' /\ ResultWhenFinished' /\ SupportedAnswers' /\ EndIsComplete'
    BY <2>1, <2>2 DEF Finish, InFlight, TakenInOrder, ResultWhenFinished, SupportedAnswers,
                      EndIsComplete
  <2>5. FoundUnlessStalled'
    <3>1. CASE NoPort(i)
      BY <3>1 DEF NoPort, Finish, SupportedAnswers, FoundUnlessStalled
    <3>2. CASE Identified(i)
      BY <3>2 DEF Identified, Finish, FoundUnlessStalled
    <3> QED
      BY <1>6, <3>1, <3>2
  <2> QED
    BY <1>1, <2>3, <2>4, <2>5
<1> QED
  BY <1>2, <1>3, <1>4, <1>5, <1>6 DEF Next, Address

LEMMA Invariance == Spec => []IInv
BY InitInv, InvStep, PTL DEF Spec

-----------------------------------------------------------------------------
(* Every stage of every address, every counter and every result is what    *)
(* its comment in Scan says it is.                                         *)
THEOREM TypeCorrect == Spec => []TypeOK
<1>1. IInv => TypeOK
  BY DEF IInv
<1> QED
  BY <1>1, Invariance, PTL

(* Each miner found, and each address of scan_stream_with_ip, is shown     *)
(* exactly once, and a scan that ends has settled all addresses: filter_map*)
(* and buffer_unordered (factory.rs) neither lose an item nor repeat one.  *)
THEOREM EachItemOnce == Spec => []ItemsOnce
<1>1. IInv => ItemsOnce
  BY DEF IInv, ItemsOnce, ItemsAreShown, EndIsComplete, ResultWhenFinished
<1> QED
  BY <1>1, Invariance, PTL

(* A supported address is reported as none only if its identification      *)
(* timer elapsed while the caller of the stream was not polling: no limit, *)
(* no hung address and no failed probe loses a miner.                      *)
THEOREM NoMinerLost == Spec => []FoundUnlessStalled
<1>1. IInv => FoundUnlessStalled
  BY DEF IInv
<1> QED
  BY <1>1, Invariance, PTL

-----------------------------------------------------------------------------
(* What a call's task, result, future and guard say about each other. *)
CallsOK ==
  /\ \A c \in Call : task[c] \in {"none", "spawned", "holding"} => result[c] = Nothing
  /\ \A c \in Call : task[c] = "storing" =>
       result[c] \in 1..taken \/ (result[c] = Stop /\ taken = Items)
  /\ \A c \in Call : result[c] \in 1..Items => result[c] <= taken
  /\ \A c \in Call : guard[c] = "fired" => fut[c] = "cancelled"
  /\ \A c \in Call : fut[c] = "none" <=> task[c] = "none"

(* What may cut a stream short. *)
Cut == \E d \in Call : fut[d] = "cancelled" \/ result[d] = Panic

ClosedWhy == state = "closed" => taken = Items \/ Cut

LeaseInv ==
  /\ LeaseTypeOK
  /\ CallsOK
  /\ OneLease
  /\ ItemsOwned
  /\ ClosedWhy
  /\ StopsEarlyOnlyIfCut
  /\ CancelCloses

LEMMA LeaseInitInv == LeaseInit => LeaseInv
BY LeaseAssumption
   DEF LeaseInit, LeaseInv, LeaseTypeOK, CallsOK, OneLease, ItemsOwned, ClosedWhy,
       StopsEarlyOnlyIfCut, CancelCloses, Holders, Nothing, Stop, Busy, Panic

LEMMA LeaseTypeStep == LeaseTypeOK /\ [LeaseNext]_lvars => LeaseTypeOK'
<1> SUFFICES ASSUME LeaseTypeOK, [LeaseNext]_lvars PROVE LeaseTypeOK'
  OBVIOUS
<1> USE LeaseAssumption DEF LeaseTypeOK
<1>1. CASE UNCHANGED lvars
  BY <1>1 DEF lvars
<1>2. ASSUME NEW c \in Call, Anext(c) \/ Deliver(c) \/ Cancel(c) \/ Callback(c)
      PROVE  LeaseTypeOK'
  BY <1>2 DEF Anext, Deliver, Cancel, Callback, CancelCallback, DoneCallback
<1>3. ASSUME NEW c \in Call, Runtime(c)
      PROVE  LeaseTypeOK'
  BY <1>3 DEF Runtime, Take, TakeInUse, TakeClosed, Return, Store, Abort
<1>4. ASSUME NEW c \in Call, Stream(c)
      PROVE  LeaseTypeOK'
  BY <1>4 DEF Stream, NextItem, NextEnd, NextPanics, Return
<1> QED
  BY <1>1, <1>2, <1>3, <1>4 DEF LeaseNext

(* A call's task, result, future and guard stay in step. *)
LEMMA CallsStep == LeaseTypeOK /\ CallsOK /\ [LeaseNext]_lvars => CallsOK'
<1> SUFFICES ASSUME LeaseTypeOK, CallsOK, [LeaseNext]_lvars PROVE CallsOK'
  OBVIOUS
<1> USE LeaseAssumption DEF LeaseTypeOK, CallsOK, Nothing, Stop, Busy, Panic
<1>1. CASE UNCHANGED lvars
  BY <1>1 DEF lvars
<1>2. ASSUME NEW c \in Call, Anext(c) \/ Deliver(c) \/ Cancel(c) \/ Callback(c)
      PROVE  CallsOK'
  BY <1>2 DEF Anext, Deliver, Cancel, Callback, CancelCallback, DoneCallback
<1>3. ASSUME NEW c \in Call, Take(c) \/ Abort(c)
      PROVE  CallsOK'
  BY <1>3 DEF Take, Abort
<1>4. ASSUME NEW c \in Call, TakeInUse(c) \/ TakeClosed(c) \/ NextPanics(c)
      PROVE  CallsOK'
  BY <1>4 DEF TakeInUse, TakeClosed, NextPanics, Return
<1>5. ASSUME NEW c \in Call, NextItem(c)
      PROVE  CallsOK'
  BY <1>5 DEF NextItem
<1>6. ASSUME NEW c \in Call, NextEnd(c) \/ Store(c)
      PROVE  CallsOK'
  BY <1>6 DEF NextEnd, Store
<1> QED
  BY <1>1, <1>2, <1>3, <1>4, <1>5, <1>6 DEF LeaseNext, Runtime, Stream

(* The stream goes out with one call, and comes back or is closed with it. *)
LEMMA LeaseStep == LeaseTypeOK /\ CallsOK /\ OneLease /\ [LeaseNext]_lvars => OneLease'
<1> SUFFICES ASSUME LeaseTypeOK, CallsOK, OneLease, [LeaseNext]_lvars PROVE OneLease'
  OBVIOUS
<1> USE DEF LeaseTypeOK, OneLease, Holders
<1>1. CASE UNCHANGED lvars
  BY <1>1 DEF lvars
<1>2. ASSUME NEW c \in Call, Anext(c) \/ Deliver(c) \/ Cancel(c) \/ Callback(c)
      PROVE  OneLease'
  <2>1. Holders' = Holders
    BY <1>2 DEF CallsOK, Anext, Deliver, Cancel, Callback, CancelCallback, DoneCallback
  <2>2. state' \in {state, "closed"}
    BY <1>2 DEF Anext, Deliver, Cancel, Callback, CancelCallback, DoneCallback
  <2> QED
    BY <2>1, <2>2
<1>3. ASSUME NEW c \in Call, Take(c)
      PROVE  OneLease'
  <2>1. Holders' = {c}
    BY <1>3 DEF Take
  <2> QED
    BY <1>3, <2>1 DEF Take
<1>4. ASSUME NEW c \in Call, TakeInUse(c) \/ TakeClosed(c)
      PROVE  OneLease'
  BY <1>4 DEF TakeInUse, TakeClosed, Return
<1>5. ASSUME NEW c \in Call, NextItem(c) \/ NextEnd(c)
      PROVE  OneLease'
  BY <1>5 DEF NextItem, NextEnd
<1>6. ASSUME NEW c \in Call, NextPanics(c)
      PROVE  OneLease'
  BY <1>6 DEF NextPanics, Return
<1>7. ASSUME NEW c \in Call, Store(c)
      PROVE  OneLease'
  <2>1. Holders' = {}
    BY <1>7 DEF Store
  <2>2. state' \in {"closed", "ready"}
    BY <1>7 DEF Store
  <2> QED
    BY <2>1, <2>2
<1>8. ASSUME NEW c \in Call, Abort(c)
      PROVE  OneLease'
  BY <1>8 DEF Abort
<1> QED
  BY <1>1, <1>2, <1>3, <1>4, <1>5, <1>6, <1>7, <1>8 DEF LeaseNext, Runtime, Stream

(* An item taken out of the stream stays with the call that took it. *)
LEMMA ItemsStep == LeaseTypeOK /\ CallsOK /\ ItemsOwned /\ [LeaseNext]_lvars => ItemsOwned'
<1> SUFFICES ASSUME LeaseTypeOK, CallsOK, ItemsOwned, [LeaseNext]_lvars PROVE ItemsOwned'
  OBVIOUS
<1>1. CASE UNCHANGED <<taken, result>>
  BY <1>1 DEF ItemsOwned
<1>2. ASSUME NEW c \in Call, result[c] = Nothing, taken' = taken,
             NEW r \in {Stop, Busy, Panic}, result' = [result EXCEPT ![c] = r]
      PROVE  ItemsOwned'
  <2>1. r \notin 1..Items /\ Nothing \notin 1..taken
    BY LeaseAssumption DEF LeaseTypeOK, Nothing, Stop, Busy, Panic
  <2> QED
    BY <1>2, <2>1 DEF LeaseTypeOK, ItemsOwned
<1>3. ASSUME NEW c \in Call, NextItem(c)
      PROVE  ItemsOwned'
  <2>1. /\ taken' = taken + 1
        /\ result' = [result EXCEPT ![c] = taken + 1]
        /\ result[c] = Nothing
    BY <1>3 DEF NextItem, CallsOK
  <2>2. \A d \in Call : result[d] # taken + 1
    BY <1>3, LeaseAssumption DEF NextItem, CallsOK, LeaseTypeOK
  <2>3. \A k \in 1..taken' : k \in 1..taken \/ k = taken + 1
    BY <2>1 DEF LeaseTypeOK
  <2>4. Nothing \notin 1..taken
    BY DEF LeaseTypeOK, Nothing
  <2> QED
    BY <2>1, <2>2, <2>3, <2>4 DEF LeaseTypeOK, ItemsOwned
<1>4. ASSUME NEW c \in Call,
             Anext(c) \/ Deliver(c) \/ Cancel(c) \/ Callback(c) \/ Take(c)
               \/ Store(c) \/ Abort(c)
      PROVE  UNCHANGED <<taken, result>>
  BY <1>4 DEF Anext, Deliver, Cancel, Callback, CancelCallback, DoneCallback,
              Take, Store, Abort
<1>5. ASSUME NEW c \in Call, TakeInUse(c) \/ TakeClosed(c) \/ NextEnd(c) \/ NextPanics(c)
      PROVE  /\ result[c] = Nothing /\ taken' = taken
             /\ \E r \in {Stop, Busy, Panic} : result' = [result EXCEPT ![c] = r]
  BY <1>5 DEF CallsOK, TakeInUse, TakeClosed, NextEnd, NextPanics, Return
<1> QED
  BY <1>1, <1>2, <1>3, <1>4, <1>5 DEF LeaseNext, Runtime, Stream, lvars

(* Once cut, a stream stays cut: a cancelled future and a panic are final. *)
LEMMA CutStays == LeaseTypeOK /\ CallsOK /\ [LeaseNext]_lvars /\ Cut => Cut'
<1> SUFFICES ASSUME LeaseTypeOK, CallsOK, [LeaseNext]_lvars, NEW d \in Call,
                    fut[d] = "cancelled" \/ result[d] = Panic
             PROVE  fut'[d] = "cancelled" \/ result'[d] = Panic
  BY DEF Cut
<1>1. fut[d] = "cancelled" => fut'[d] = "cancelled"
  BY DEF LeaseTypeOK, LeaseNext, lvars, Anext, Deliver, Cancel, Callback, CancelCallback,
         DoneCallback, Runtime, Take, TakeInUse, TakeClosed, Return, Store, Abort,
         Stream, NextItem, NextEnd, NextPanics
<1>2. result[d] = Panic => task[d] \notin {"spawned", "holding"}
  BY DEF CallsOK, Nothing, Panic
<1>3. result[d] = Panic => result'[d] = Panic
  BY <1>2 DEF LeaseTypeOK, LeaseNext, lvars, Anext, Deliver, Cancel, Callback, CancelCallback,
         DoneCallback, Runtime, Take, TakeInUse, TakeClosed, Return, Store, Abort,
         Stream, NextItem, NextEnd, NextPanics
<1> QED
  BY <1>1, <1>3

(* A stream that has ended stays at its end. *)
LEMMA EndStays == [LeaseNext]_lvars /\ taken = Items => taken' = Items
BY LeaseAssumption
   DEF LeaseNext, lvars, Anext, Deliver, Cancel, Callback, CancelCallback, DoneCallback,
       Runtime, Take, TakeInUse, TakeClosed, Return, Store, Abort,
       Stream, NextItem, NextEnd, NextPanics

(* A state is closed, and a call told to stop, at the end or after a cut.  *)
LEMMA ClosedStep == LeaseTypeOK /\ CallsOK /\ ClosedWhy /\ [LeaseNext]_lvars => ClosedWhy'
<1> SUFFICES ASSUME LeaseTypeOK, CallsOK, ClosedWhy, [LeaseNext]_lvars, state' = "closed"
             PROVE  taken' = Items \/ Cut'
  BY DEF ClosedWhy
<1>1. CASE state = "closed" /\ taken = Items
  BY <1>1, EndStays
<1>2. CASE Cut
  BY <1>2, CutStays
<1>3. ASSUME NEW c \in Call, CancelCallback(c) PROVE Cut'
  BY <1>3 DEF CancelCallback, Cut
<1>4. ASSUME NEW c \in Call, NextPanics(c) PROVE Cut'
  BY <1>4 DEF NextPanics, Return, LeaseTypeOK, Cut
<1>5. ASSUME NEW c \in Call, Abort(c) PROVE Cut
  BY <1>5 DEF Abort, Aborted, CallsOK, Cut
<1>6. ASSUME NEW c \in Call, Store(c), state # "closed" PROVE taken' = Items
  BY <1>6, LeaseAssumption DEF Store, CallsOK, LeaseTypeOK, Stop
<1>7. CASE state # "closed"
  BY <1>3, <1>4, <1>5, <1>6, <1>7, CutStays
     DEF LeaseNext, lvars, Anext, Deliver, Cancel, Callback, DoneCallback, Runtime,
         Take, TakeInUse, TakeClosed, Stream, NextItem, NextEnd
<1> QED
  BY <1>1, <1>2, <1>7 DEF ClosedWhy

LEMMA StopStep ==
  LeaseTypeOK /\ CallsOK /\ ClosedWhy /\ StopsEarlyOnlyIfCut /\ [LeaseNext]_lvars
    => StopsEarlyOnlyIfCut'
<1> SUFFICES ASSUME LeaseTypeOK, CallsOK, ClosedWhy, StopsEarlyOnlyIfCut, [LeaseNext]_lvars,
                    NEW c \in Call, result'[c] = Stop
             PROVE  taken' = Items \/ Cut'
  BY DEF StopsEarlyOnlyIfCut, Cut
<1>1. CASE result[c] = Stop
  <2>1. taken = Items \/ Cut
    BY <1>1 DEF StopsEarlyOnlyIfCut, Cut
  <2> QED
    BY <2>1, EndStays, CutStays
<1>2. CASE result[c] # Stop
  <2>1. TakeClosed(c) \/ NextEnd(c)
    BY <1>2, LeaseAssumption
       DEF LeaseTypeOK, LeaseNext, lvars, Anext, Deliver, Cancel, Callback, CancelCallback,
           DoneCallback, Runtime, Take, TakeInUse, TakeClosed, Return, Store, Abort,
           Stream, NextItem, NextEnd, NextPanics, Stop, Busy, Panic
  <2>2. taken' = taken /\ (taken = Items \/ state = "closed")
    BY <2>1 DEF TakeClosed, NextEnd
  <2> QED
    BY <2>2, CutStays DEF ClosedWhy
<1> QED
  BY <1>1, <1>2

(* Nothing opens a closed state, store() in particular. *)
LEMMA ClosedStays == [LeaseNext]_lvars /\ state = "closed" => state' = "closed"
BY DEF LeaseNext, lvars, Anext, Deliver, Cancel, Callback, CancelCallback, DoneCallback,
       Runtime, Take, TakeInUse, TakeClosed, Return, Store, Abort,
       Stream, NextItem, NextEnd, NextPanics

LEMMA CancelStep == LeaseTypeOK /\ CancelCloses /\ [LeaseNext]_lvars => CancelCloses'
<1> SUFFICES ASSUME LeaseTypeOK, CancelCloses, [LeaseNext]_lvars,
                    NEW c \in Call, guard'[c] = "fired"
             PROVE  state' = "closed"
  BY DEF CancelCloses
<1>1. CASE guard[c] = "fired"
  BY <1>1, ClosedStays DEF CancelCloses
<1>2. CASE guard[c] # "fired"
  BY <1>2 DEF LeaseTypeOK, LeaseNext, lvars, Anext, Deliver, Cancel, Callback, CancelCallback,
     DoneCallback, Runtime, Take, TakeInUse, TakeClosed, Return, Store, Abort,
     Stream, NextItem, NextEnd, NextPanics
<1> QED
  BY <1>1, <1>2

LEMMA NextInv == LeaseInv /\ [LeaseNext]_lvars => LeaseInv'
BY LeaseTypeStep, CallsStep, LeaseStep, ItemsStep, ClosedStep, StopStep, CancelStep
   DEF LeaseInv

LEMMA LeaseInvariance == LeaseSpec => []LeaseInv
BY LeaseInitInv, NextInv, PTL DEF LeaseSpec

-----------------------------------------------------------------------------
(* The state shared by the calls keeps its type. *)
THEOREM LeaseTypeCorrect == LeaseSpec => []LeaseTypeOK
BY LeaseInvariance, PTL DEF LeaseInv

(* factory.rs:38: one call has the stream, or the shared state has it, or  *)
(* it is gone; it is never marked as in use by nobody.                     *)
THEOREM LeaseExclusive == LeaseSpec => []OneLease
BY LeaseInvariance, PTL DEF LeaseInv

(* No item is lost between the stream and the call that polled it out, and *)
(* no item is given to two calls.                                          *)
THEOREM ItemsAlwaysOwned == LeaseSpec => []ItemsOwned
BY LeaseInvariance, PTL DEF LeaseInv

(* Overlapping calls alone never end an iteration early. *)
THEOREM StopsEarlyOnlyAfterCut == LeaseSpec => []StopsEarlyOnlyIfCut
BY LeaseInvariance, PTL DEF LeaseInv

(* A cancelled call's callback closes the stream whoever has it. *)
THEOREM CancelAlwaysCloses == LeaseSpec => []CancelCloses
BY LeaseInvariance, PTL DEF LeaseInv

(* A closed stream is never handed out again. *)
THEOREM ClosedIsFinal == LeaseSpec => ClosedForGood
<1>1. [LeaseNext]_lvars => [state = "closed" => state' = "closed"]_lvars
  BY ClosedStays
<1> QED
  BY <1>1, PTL DEF LeaseSpec, ClosedForGood
=============================================================================
