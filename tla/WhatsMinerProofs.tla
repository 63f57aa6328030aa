-------------------------- MODULE WhatsMinerProofs --------------------------
(***************************************************************************)
(* Theorems about WhatsMinerSession for any number of reads and writes,    *)
(* locks and expiries, both backends and all passwords.                    *)
(***************************************************************************)
EXTENDS WhatsMinerSession, TLAPS

Reasons == {"busy", "command", "locked", "password", "token"}

(* A write is carried out only by the step that ends its call. *)
LastStepExecutes ==
  \A c \in Write :
    /\ executed[c] <= 1
    /\ pc[c] = "ok" => executed[c] = 1
    /\ pc[c] \notin {"ok", "failed"} => executed[c] = 0

(* What a second attempt may count on: the unlocking before it. *)
UnlockedSince ==
  \A c \in Write : round[c] = 2 /\ CanUnlock => api = "open" \/ locks > 0

(* Only a refused call unlocks, and only an unlocked one tries again. *)
RefusedBefore ==
  \A c \in Call : round[c] = 2 \/ pc[c] \in Unlocking => reasons[c] # {}

(* V3 does not unlock for a read. *)
ReadsOfV3 == \A c \in Read : version = 3 => pc[c] \notin Unlocking

(* How many expiries the state of a token is the work of. *)
StaleSince ==
  \A c \in Write :
    /\ pc[c] = "send" => token[c] # "none"
    /\ token[c] = "stale" \/ "token" \in reasons[c] => expiries >= 1
    /\ pc[c] = "send" /\ token[c] = "stale" /\ round[c] = 2 /\ reasons[c] = {"token"}
         => expiries >= 2

IInv ==
  /\ TypeOK
  /\ LastStepExecutes
  /\ UnlockedSince
  /\ RefusedBefore
  /\ StaleSince
  /\ ReadsOfV3
  /\ RejectedWhy

LEMMA InitInv == Init => IInv
<1> SUFFICES ASSUME Init PROVE IInv
  OBVIOUS
<1> USE CallAssumption DEF Init
<1>1. TypeOK
  <2>1. version \in {2, 3} /\ auth \in {"right", "wrong"} /\ secret \in {"admin", "other"}
    OBVIOUS
  <2>2. pc \in [Call -> Stages]
    BY DEF Stages
  <2>3. round \in [Call -> 1..2] /\ tries \in [Call -> 1..2]
    OBVIOUS
  <2>4. \A c \in Read : pc[c] # "token"
    BY DEF Call
  <2>5. \A c \in Call : tries[c] = 2 \/ pc[c] = "unlock_for_token" =>
          c \in Write /\ version = 2
    OBVIOUS
  <2>6. token \in [Write -> {"none", "good", "stale"}] /\ executed \in [Write -> Nat]
    OBVIOUS
  <2>7. reasons \in [Call -> SUBSET Reasons]
    OBVIOUS
  <2>8. api \in {"open", "closed"} /\ locks \in 0..MaxLocks /\ expiries \in 0..MaxExpiries
    OBVIOUS
  <2> QED
    BY <2>1, <2>2, <2>3, <2>4, <2>5, <2>6, <2>7, <2>8 DEF TypeOK, Reasons
<1>2. LastStepExecutes /\ StaleSince /\ RejectedWhy
  BY DEF LastStepExecutes, StaleSince, RejectedWhy, Call
<1>3. \A c \in Call : round[c] = 1 /\ pc[c] = "idle"
  OBVIOUS
<1>4. UnlockedSince /\ RefusedBefore /\ ReadsOfV3
  BY ONLY <1>3 DEF UnlockedSince, RefusedBefore, ReadsOfV3, Unlocking, Call
<1> QED
  BY <1>1, <1>2, <1>4 DEF IInv

-----------------------------------------------------------------------------
(* How a step changes each variable. *)

LEMMA HandleShape == [Next]_vars => UNCHANGED handle
BY DEF Next, Step, vars, handle, calls, events,
       Begin, Lost, TokenIssued, TokenRefused, ReadAnswered, WriteAnswered, WriteLost, Refused, Unlocked,
       UnlockFails, Lock, Expire

LEMMA PcShape ==
  [Next]_vars => UNCHANGED pc \/ \E c \in Call : \E s \in Stages : Goto(c, s)
BY DEF Start, AfterRefusal, Stages, Ended, Next, Step, vars, calls, Begin,
       Lost, TokenIssued,
       TokenRefused, ReadAnswered, WriteAnswered, WriteLost, Refused, Unlocked,
       UnlockFails, Lock, Expire

LEMMA RoundShape ==
  [Next]_vars => UNCHANGED round \/ \E c \in Call : round' = [round EXCEPT ![c] = 2]
BY DEF Next, Step, vars, handle, calls, events,
       Begin, Lost, TokenIssued, TokenRefused, ReadAnswered, WriteAnswered, WriteLost, Refused, Unlocked,
       UnlockFails, Lock, Expire

LEMMA TriesShape ==
  [Next]_vars =>
    \/ UNCHANGED tries
    \/ \E c \in Call : tries' = [tries EXCEPT ![c] = 1] \/ tries' = [tries EXCEPT ![c] = 2]
BY DEF Next, Step, vars, handle, calls, events,
       Begin, Lost, TokenIssued, TokenRefused, ReadAnswered, WriteAnswered, WriteLost, Refused, Unlocked,
       UnlockFails, Lock, Expire

LEMMA ReasonsShape ==
  [Next]_vars => UNCHANGED reasons \/ \E c \in Call : \E w \in Reasons : Refuse(c, w)
BY DEF Reasons, Next, Step, vars, calls, Begin, Lost,
       TokenIssued,
       TokenRefused, ReadAnswered, WriteAnswered, WriteLost, Refused, Unlocked,
       UnlockFails, Lock, Expire

LEMMA ExecutedShape ==
  [Next]_vars => UNCHANGED executed \/ \E c \in Write : Execute(c)
BY DEF Next, Step, vars, handle, calls, events,
       Begin, Lost, TokenIssued, TokenRefused, ReadAnswered, WriteAnswered, WriteLost, Refused, Unlocked,
       UnlockFails, Lock, Expire

LEMMA EventsShape ==
  [Next]_vars =>
    /\ UNCHANGED locks \/ Lock
    /\ UNCHANGED expiries \/ Expire
BY DEF Next, Step, vars, handle, calls, events,
       Begin, Lost, TokenIssued, TokenRefused, ReadAnswered, WriteAnswered, WriteLost, Refused, Unlocked,
       UnlockFails, Lock, Expire

LEMMA TypeStep == TypeOK /\ [Next]_vars => TypeOK'
<1> SUFFICES ASSUME TypeOK, [Next]_vars PROVE TypeOK'
  OBVIOUS
<1>1. (version \in {2, 3} /\ auth \in {"right", "wrong"} /\ secret \in {"admin", "other"})'
  BY HandleShape DEF TypeOK, handle
<1>2. (pc \in [Call -> Stages])'
  BY PcShape DEF TypeOK, Goto
<1>3. (round \in [Call -> 1..2])'
  BY RoundShape DEF TypeOK
<1>4. (tries \in [Call -> 1..2])'
  BY TriesShape DEF TypeOK
<1>5. (token \in [Write -> {"none", "good", "stale"}])'
  <2>1. token \in [Write -> {"none", "good", "stale"}]
    BY DEF TypeOK
  <2> QED
    BY <2>1 DEF Next, Step, vars, handle, calls, events,
       Begin, Lost, TokenIssued, TokenRefused, ReadAnswered, WriteAnswered, WriteLost, Refused, Unlocked,
       UnlockFails, Lock, Expire
<1>6. (executed \in [Write -> Nat])'
  BY ExecutedShape DEF TypeOK, Execute
<1>7. (reasons \in [Call -> SUBSET Reasons])'
  <2>1. reasons \in [Call -> SUBSET Reasons]
    BY DEF TypeOK, Reasons
  <2> QED
    BY <2>1, ReasonsShape DEF Refuse
<1>8. (api \in {"open", "closed"})'
  <2>1. api \in {"open", "closed"}
    BY DEF TypeOK
  <2> QED
    BY <2>1 DEF Next, Step, vars, handle, calls, events,
       Begin, Lost, TokenIssued, TokenRefused, ReadAnswered, WriteAnswered, WriteLost, Refused, Unlocked,
       UnlockFails, Lock, Expire
<1>9. (locks \in 0..MaxLocks /\ expiries \in 0..MaxExpiries)'
  <2>1. locks \in 0..MaxLocks /\ expiries \in 0..MaxExpiries
    BY DEF TypeOK
  <2> QED
    BY <2>1, EventsShape, CallAssumption DEF Lock, Expire
<1>10. (\A c \in Read : pc[c] # "token")'
  <2>1. pc \in [Call -> Stages] /\ (\A c \in Read : pc[c] # "token") /\ Read \subseteq Call
    BY DEF TypeOK, Call
  <2>2. \A c \in Call : pc[c] = "unlock_for_token" => c \notin Read
    BY CallAssumption DEF TypeOK
  <2>3. UNCHANGED pc
        \/ \E c \in Call : \E s \in Stages : Goto(c, s) /\ (s = "token" => c \notin Read)
    BY <2>2, CallAssumption DEF Start, AfterRefusal, Stages, Ended, Next, Step, vars, calls,
       Begin, Lost, TokenIssued, TokenRefused, ReadAnswered, WriteAnswered, WriteLost,
       Refused, Unlocked, UnlockFails, Unlocking, Lock, Expire
  <2> QED
    BY <2>1, <2>3 DEF Goto
<1>11. (\A c \in Call : tries[c] = 2 \/ pc[c] = "unlock_for_token" =>
          c \in Write /\ version = 2)'
  <2>1. /\ pc \in [Call -> Stages] /\ tries \in [Call -> 1..2]
        /\ \A c \in Call : pc[c] = "token" => c \in Write
        /\ \A c \in Call : tries[c] = 2 \/ pc[c] = "unlock_for_token" =>
             c \in Write /\ version = 2
    BY DEF TypeOK, Call
  <2>2. UNCHANGED version
    BY HandleShape DEF handle
  <2>3. UNCHANGED pc
        \/ \E c \in Call : \E s \in Stages :
             Goto(c, s) /\ (s = "unlock_for_token" => c \in Write /\ version = 2)
    BY <2>1 DEF Start, AfterRefusal, Stages, Ended, Next, Step, vars, calls,
       Begin, Lost, TokenIssued, TokenRefused, ReadAnswered, WriteAnswered, WriteLost,
       Refused, Unlocked, UnlockFails, Unlocking, Lock, Expire
  <2>4. \/ UNCHANGED tries
        \/ \E c \in Call : tries' = [tries EXCEPT ![c] = 1]
        \/ \E c \in Call : tries' = [tries EXCEPT ![c] = 2] /\ c \in Write /\ version = 2
    BY <2>1 DEF Next, Step, vars, calls,
       Begin, Lost, TokenIssued, TokenRefused, ReadAnswered, WriteAnswered, WriteLost,
       Refused, Unlocked, UnlockFails, Unlocking, Lock, Expire
  <2>5. \A c \in Call : pc'[c] = "unlock_for_token" => c \in Write /\ version = 2
    BY <2>1, <2>3 DEF Goto
  <2>6. \A c \in Call : tries'[c] = 2 => c \in Write /\ version = 2
    BY <2>1, <2>4
  <2> QED
    BY <2>2, <2>5, <2>6
<1> QED
  BY <1>1, <1>2, <1>3, <1>4, <1>5, <1>6, <1>7, <1>8, <1>9, <1>10, <1>11 DEF TypeOK, Reasons

-----------------------------------------------------------------------------
(* The parts of the invariant that are not types. *)

(* The typing facts that the leaves below need. *)
LEMMA Typing ==
  TypeOK =>
    /\ pc \in [Call -> Stages] /\ round \in [Call -> 1..2]
    /\ token \in [Write -> {"none", "good", "stale"}]
    /\ reasons \in [Call -> SUBSET Reasons]
    /\ executed \in [Write -> Nat]
    /\ api \in {"open", "closed"} /\ locks \in Nat /\ expiries \in Nat
    /\ Write \subseteq Call
BY CallAssumption DEF TypeOK, Reasons, Call

(* A step that carries out a write ends its call. *)
LEMMA ExecuteStep == TypeOK /\ LastStepExecutes /\ [Next]_vars => LastStepExecutes'
<1> SUFFICES ASSUME TypeOK, LastStepExecutes, [Next]_vars PROVE LastStepExecutes'
  OBVIOUS
<1>1. pc \in [Call -> Stages] /\ executed \in [Write -> Nat] /\ Write \subseteq Call
  BY Typing
<1>2. \/ UNCHANGED <<pc, executed>>
      \/ \E c \in Call :
           \/ /\ pc[c] \notin {"ok", "failed"} /\ UNCHANGED executed
              /\ \E s \in Stages : Goto(c, s) /\ (s = "ok" => c \in Read)
           \/ /\ c \in Write /\ pc[c] = "send" /\ Execute(c)
              /\ Goto(c, "ok") \/ Goto(c, "failed")
  BY DEF Start, AfterRefusal, Unlocking, Stages, Ended, Next, Step, vars, handle, calls, events,
       Begin, Lost, TokenIssued, TokenRefused, ReadAnswered, WriteAnswered, WriteLost, Refused, Unlocked,
       UnlockFails, Lock, Expire
<1> QED
  BY <1>1, <1>2, CallAssumption DEF LastStepExecutes, Goto, Execute

(* Unlocking opens the write API if the client is able to, and only another *)
(* client closes it.                                                       *)
LEMMA UnlockStep == TypeOK /\ UnlockedSince /\ [Next]_vars => UnlockedSince'
<1> SUFFICES ASSUME TypeOK, UnlockedSince, [Next]_vars PROVE UnlockedSince'
  OBVIOUS
<1>1. round \in [Call -> 1..2] /\ locks \in Nat /\ api \in {"open", "closed"}
      /\ Write \subseteq Call
  BY Typing
<1>2. CanUnlock' <=> CanUnlock
  BY HandleShape DEF handle, CanUnlock
<1>3. \/ UNCHANGED <<round, locks>> /\ (UNCHANGED api \/ api' = "open")
      \/ UNCHANGED round /\ locks' = locks + 1
      \/ \E c \in Call : /\ round' = [round EXCEPT ![c] = 2] /\ UNCHANGED locks
                        /\ api' = IF CanUnlock THEN "open" ELSE api
  BY DEF Next, Step, vars, handle, calls, events,
       Begin, Lost, TokenIssued, TokenRefused, ReadAnswered, WriteAnswered, WriteLost, Refused, Unlocked,
       UnlockFails, Lock, Expire
<1> QED
  BY <1>1, <1>2, <1>3 DEF UnlockedSince

(* A call has met a refusal before it unlocks, and unlocks before it tries  *)
(* again.                                                                   *)
LEMMA RefusedStep == TypeOK /\ RefusedBefore /\ [Next]_vars => RefusedBefore'
<1> SUFFICES ASSUME TypeOK, RefusedBefore, [Next]_vars PROVE RefusedBefore'
  OBVIOUS
<1>1. pc \in [Call -> Stages] /\ round \in [Call -> 1..2] /\ reasons \in [Call -> SUBSET Reasons]
  BY Typing
<1>2. \/ UNCHANGED <<pc, round, reasons>>
      \/ \E c \in Call :
           \/ /\ UNCHANGED <<round, reasons>>
              /\ \E s \in Stages \ Unlocking : Goto(c, s)
           \/ /\ UNCHANGED round /\ \E w \in Reasons : Refuse(c, w)
              /\ \E s \in Stages : Goto(c, s)
           \/ /\ pc[c] \in Unlocking /\ UNCHANGED reasons
              /\ UNCHANGED round \/ round' = [round EXCEPT ![c] = 2]
              /\ \E s \in Stages : Goto(c, s)
  BY DEF Reasons, Start, AfterRefusal, Unlocking, Stages, Ended, Next, Step, vars, handle, calls, events,
       Begin, Lost, TokenIssued, TokenRefused, ReadAnswered, WriteAnswered, WriteLost, Refused, Unlocked,
       UnlockFails, Lock, Expire
<1> QED
  BY <1>1, <1>2 DEF RefusedBefore, Goto, Refuse

(* A write is sent with a token just issued, so the second one is stale by  *)
(* another expiry than the first.                                          *)
LEMMA StaleStep == TypeOK /\ StaleSince /\ [Next]_vars => StaleSince'
<1> SUFFICES ASSUME TypeOK, StaleSince, [Next]_vars PROVE StaleSince'
  OBVIOUS
<1>1. /\ pc \in [Call -> Stages] /\ round \in [Call -> 1..2]
      /\ token \in [Write -> {"none", "good", "stale"}]
      /\ reasons \in [Call -> SUBSET Reasons]
      /\ expiries \in Nat /\ Write \subseteq Call
  BY Typing
<1>2. \/ UNCHANGED <<pc, round, token, reasons, expiries>>
      \/ Expire /\ UNCHANGED <<pc, round, reasons>>
      \/ \E c \in Call, s \in Stages :
           /\ UNCHANGED <<expiries, round, token, reasons>>
           /\ Goto(c, s) /\ (s = "send" => c \in Read)
      \/ \E c \in Write :
           /\ UNCHANGED <<expiries, round, reasons>>
           /\ Goto(c, "send") /\ token' = [token EXCEPT ![c] = "good"]
      \/ \E c \in Call, w \in Reasons, s \in Stages \ {"send"} :
           /\ UNCHANGED <<expiries, round, token>>
           /\ Refuse(c, w) /\ (w = "token" => pc[c] = "send" /\ token[c] # "good")
           /\ Goto(c, s)
      \/ \E c \in Call, s \in Stages :
           /\ UNCHANGED <<expiries, token, reasons>>
           /\ round' = [round EXCEPT ![c] = 2]
           /\ Goto(c, s) /\ (s = "send" => c \in Read)
  <2>1. \A c \in Read : pc[c] # "token"
    BY DEF TypeOK
  <2>2. \A c \in Call : c \in Read \/ c \in Write
    BY DEF Call
  <2> QED
    BY <1>1, <2>1, <2>2 DEF Reasons, Start, AfterRefusal, Unlocking, Stages, Ended,
       Next, Step, vars, handle, calls, events,
       Begin, Lost, TokenIssued, TokenRefused, ReadAnswered, WriteAnswered, WriteLost, Refused, Unlocked,
       UnlockFails, Lock, Expire
<1> QED
  <2>1. CASE UNCHANGED <<pc, round, token, reasons, expiries>>
    BY <2>1 DEF StaleSince
  <2>2. CASE Expire /\ UNCHANGED <<pc, round, reasons>>
    BY <1>1, <2>2 DEF StaleSince, Expire
  <2>3. ASSUME NEW c \in Call, NEW s \in Stages,
               UNCHANGED <<expiries, round, token, reasons>>,
               Goto(c, s), s = "send" => c \in Read
        PROVE  StaleSince'
    BY <1>1, <2>3, CallAssumption DEF StaleSince, Goto
  <2>4. ASSUME NEW c \in Write, UNCHANGED <<expiries, round, reasons>>, Goto(c, "send"),
               token' = [token EXCEPT ![c] = "good"]
        PROVE  StaleSince'
    BY <1>1, <2>4 DEF StaleSince, Goto
  <2>5. ASSUME NEW c \in Call, NEW w \in Reasons, NEW s \in Stages \ {"send"},
               UNCHANGED <<expiries, round, token>>,
               Refuse(c, w), w = "token" => pc[c] = "send" /\ token[c] # "good", Goto(c, s)
        PROVE  StaleSince'
    BY <1>1, <2>5 DEF StaleSince, Goto, Refuse
  <2>6. ASSUME NEW c \in Call, NEW s \in Stages, UNCHANGED <<expiries, token, reasons>>,
               round' = [round EXCEPT ![c] = 2],
               Goto(c, s), s = "send" => c \in Read
        PROVE  StaleSince'
    BY <1>1, <2>6, CallAssumption DEF StaleSince, Goto
  <2> QED
    BY <1>2, <2>1, <2>2, <2>3, <2>4, <2>5, <2>6

(* The refusal that ends a write, with what the parts above say of it.     *)
LEMMA RejectStep == IInv /\ [Next]_vars => RejectedWhy'
<1> SUFFICES ASSUME IInv, [Next]_vars, NEW c \in Write, pc'[c] = "rejected"
             PROVE  /\ reasons'[c] = {"locked"} => locks' > 0 \/ ~CanUnlock'
                    /\ reasons'[c] = {"token"} => expiries' >= 2
  BY DEF RejectedWhy
<1>1. /\ pc \in [Call -> Stages] /\ round \in [Call -> 1..2]
      /\ token \in [Write -> {"none", "good", "stale"}]
      /\ reasons \in [Call -> SUBSET Reasons]
      /\ locks \in Nat /\ expiries \in Nat /\ Write \subseteq Call
  BY Typing DEF IInv
<1>2. UNCHANGED <<version, auth, secret>>
  BY HandleShape DEF handle
<1>3. locks' \in Nat /\ locks' >= locks /\ expiries' \in Nat /\ expiries' >= expiries
  BY <1>1, EventsShape DEF Lock, Expire
<1>4. CASE pc[c] = "rejected" /\ UNCHANGED reasons[c]
  <2>1. RejectedWhy
    BY DEF IInv
  <2> QED
    BY <1>1, <1>2, <1>3, <1>4, <2>1 DEF RejectedWhy, CanUnlock
<1>5. CASE "busy" \in reasons'[c] \/ "command" \in reasons'[c] \/ "password" \in reasons'[c]
  BY <1>5
<1>6. CASE /\ pc[c] = "send" /\ round[c] = 2
           /\ \/ api = "closed" /\ Refuse(c, "locked")
              \/ token[c] # "good" /\ Refuse(c, "token")
  <2>1. reasons[c] # {}
    BY <1>1, <1>6 DEF IInv, RefusedBefore
  <2>2. ASSUME api = "closed", Refuse(c, "locked")
        PROVE  locks > 0 \/ ~CanUnlock
    BY <1>6, <2>2 DEF IInv, UnlockedSince
  <2>3. ASSUME token[c] # "good", Refuse(c, "token"), reasons'[c] = {"token"}
        PROVE  expiries >= 2
    <3>1. reasons[c] = {"token"}
      BY <1>1, <2>1, <2>3 DEF Refuse
    <3>2. token[c] = "stale"
      BY <1>1, <1>6, <2>3 DEF IInv, StaleSince
    <3> QED
      BY <1>6, <3>1, <3>2 DEF IInv, StaleSince
  <2>4. Refuse(c, "locked") => "locked" \in reasons'[c]
    BY <1>1 DEF Refuse
  <2>5. Refuse(c, "token") => "token" \in reasons'[c]
    BY <1>1 DEF Refuse
  <2> QED
    BY <1>1, <1>2, <1>3, <1>6, <2>2, <2>3, <2>4, <2>5 DEF CanUnlock
<1> QED
  <2>1. \/ UNCHANGED <<pc, reasons>>
        \/ \E d \in Call :
             \/ /\ d # c \/ pc[c] # "rejected"
                /\ UNCHANGED reasons
                /\ \E s \in Stages \ {"rejected"} : Goto(d, s)
             \/ d # c /\ (\E w \in Reasons : Refuse(d, w)) /\ \E s \in Stages : Goto(d, s)
        \/ \E w \in {"busy", "command", "password"} : Refuse(c, w)
        \/ /\ pc[c] = "send" /\ (round[c] = 1 => Goto(c, "unlock"))
           /\ \/ api = "closed" /\ Refuse(c, "locked")
              \/ token[c] # "good" /\ Refuse(c, "token")
    BY DEF Reasons, Start, AfterRefusal, Unlocking, Stages, Ended,
       Next, Step, vars, handle, calls, events,
       Begin, Lost, TokenIssued, TokenRefused, ReadAnswered, WriteAnswered, WriteLost, Refused, Unlocked,
       UnlockFails, Lock, Expire
  <2> QED
    <3>1. ASSUME NEW w \in {"busy", "command", "password"}, Refuse(c, w)
          PROVE  w \in reasons'[c]
      BY <1>1, <3>1 DEF Refuse
    <3>2. ASSUME NEW d \in Call, d # c, NEW w \in Reasons, Refuse(d, w),
                 NEW s \in Stages, Goto(d, s)
          PROVE  pc[c] = "rejected" /\ UNCHANGED reasons[c]
      BY <1>1, <3>2 DEF Refuse, Goto
    <3>3. ASSUME NEW d \in Call, d # c \/ pc[c] # "rejected", UNCHANGED reasons,
                 NEW s \in Stages \ {"rejected"}, Goto(d, s)
          PROVE  pc[c] = "rejected"
      BY <1>1, <3>3 DEF Goto
    <3>4. round[c] = 2 \/ ~Goto(c, "unlock")
      BY <1>1 DEF Goto
    <3> QED
      BY <1>1, <1>4, <1>5, <1>6, <2>1, <3>1, <3>2, <3>3, <3>4

(* After a bad status a read of V3 is rejected at once. *)
LEMMA ReadStep == TypeOK /\ ReadsOfV3 /\ [Next]_vars => ReadsOfV3'
<1> SUFFICES ASSUME TypeOK, ReadsOfV3, [Next]_vars PROVE ReadsOfV3'
  OBVIOUS
<1>1. pc \in [Call -> Stages] /\ Read \subseteq Call
  BY Typing DEF Call
<1>2. UNCHANGED version
  BY HandleShape DEF handle
<1>3. \A c \in Read : pc[c] # "token"
  BY DEF TypeOK
<1>4. \/ UNCHANGED pc
      \/ \E c \in Call, s \in Stages :
           Goto(c, s) /\ (c \in Read /\ version = 3 => s \notin Unlocking)
  BY <1>1, <1>3, CallAssumption DEF Start, AfterRefusal, Unlocking, Stages, Ended,
       Next, Step, vars, handle, calls, events,
       Begin, Lost, TokenIssued, TokenRefused, ReadAnswered, WriteAnswered, WriteLost, Refused, Unlocked,
       UnlockFails, Lock, Expire
<1> QED
  BY <1>1, <1>2, <1>4 DEF ReadsOfV3, Goto

LEMMA NextInv == IInv /\ [Next]_vars => IInv'
BY TypeStep, ExecuteStep, UnlockStep, RefusedStep, StaleStep, ReadStep, RejectStep DEF IInv

LEMMA Invariance == Spec => []IInv
<1>1. Init => IInv
  BY InitInv
<1>2. IInv /\ [Next]_vars => IInv'
  BY NextInv
<1> QED
  BY <1>1, <1>2, PTL DEF Spec

-----------------------------------------------------------------------------
(* Every call is somewhere in send_command; a salt is asked for, and asked *)
(* for again, only on behalf of a write.                                   *)
THEOREM TypeCorrect == Spec => []TypeOK
<1>1. IInv => TypeOK
  BY DEF IInv
<1> QED
  BY <1>1, Invariance, PTL

(* The repetitions of send_command, of a refused write and of a refused    *)
(* request of the salt, never make a device carry out a write twice,       *)
(* however many calls share the client.                                    *)
THEOREM WriteExecutedOnce == Spec => []ExecutedOnce
<1>1. IInv => ExecutedOnce
  BY DEF IInv, LastStepExecutes, ExecutedOnce
<1> QED
  BY <1>1, Invariance, PTL

(* A write that send_command gives up for the lock, or for its token, has  *)
(* met what one repetition cannot mend.                                    *)
THEOREM RejectedForAReason == Spec => []RejectedWhy
<1>1. IInv => RejectedWhy
  BY DEF IInv
<1> QED
  BY <1>1, Invariance, PTL

(* V3 opens the write API of the device only inside a write. *)
THEOREM OpenedOnlyForWrites == Spec => OpenedForWrites
<1>1. ASSUME IInv, [Next]_vars
      PROVE  [(version = 3 /\ api = "closed" /\ api' = "open")
                => \E c \in Write : pc[c] \in Unlocking]_vars
  <2>1. UNCHANGED api \/ api' = "closed" \/ \E c \in Call : pc[c] \in Unlocking
    BY <1>1 DEF Next, Step, vars, handle, calls, events,
       Begin, Lost, TokenIssued, TokenRefused, ReadAnswered, WriteAnswered, WriteLost, Refused, Unlocked,
       UnlockFails, Lock, Expire
  <2>2. \A c \in Call : version = 3 /\ pc[c] \in Unlocking => c \in Write
    BY <1>1 DEF IInv, ReadsOfV3, Call
  <2> QED
    BY <2>1, <2>2
<1> QED
  BY <1>1, Invariance, PTL DEF Spec, OpenedForWrites
=============================================================================
