-------------------------- MODULE WhatsMinerSession -------------------------
(***************************************************************************)
(* The RPC clients of the WhatsMiner backends V2 and V3                    *)
(* (asic-rs-firmwares/whatsminer/src/backends/v2/rpc.rs and v3/rpc.rs).    *)
(*                                                                         *)
(* A write carries a token made from a salt that the device gives out just *)
(* before.  When the device refuses a command with a bad status, the       *)
(* client takes the write API for locked: it unlocks it and sends the      *)
(* command once more.  V2 does so for every command, reads and the request *)
(* of the salt inside a write included, and signs the unlocking with the   *)
(* password of the handle; V3 does so for writes, and with "admin".  Any   *)
(* other failure ends the call.                                            *)
(*                                                                         *)
(* The awaitables of a handle share its client, so their requests          *)
(* interleave, each on a connection of its own.                            *)
(***************************************************************************)
EXTENDS Integers, FiniteSets

CONSTANTS
  Read, Write,   \* concurrent calls of send_command, not privileged and privileged
  MaxLocks,      \* bound: times another client closes the write API
  MaxExpiries    \* bound: times the device forgets its salts

ASSUME CallAssumption ==
  /\ Read \intersect Write = {}
  /\ MaxLocks \in Nat /\ MaxExpiries \in Nat

Call == Read \union Write

VARIABLES
  version,    \* of the backend: 2 or 3
  auth,       \* whether the handle has the password of the device
  secret,     \* that password: "admin" or another one
  pc,         \* where each call is
  round,      \* 1, or 2 when send_command sends its command again
  tries,      \* the same of the request of the salt (V2)
  token,      \* the token of each write
  reasons,    \* why the device refused each call's requests
  executed,   \* times the device carried out each write
  api,        \* the write API: "open" or "closed"
  locks, expiries

handle == <<version, auth, secret>>
calls == <<pc, round, tries, token, reasons>>
events == <<locks, expiries>>
vars == <<handle, calls, executed, api, events>>

Ended == {"ok", "failed", "rejected"}
Stages == {"idle", "token", "unlock_for_token", "send", "unlock"} \union Ended

Init ==
  /\ version \in {2, 3}
  /\ auth \in {"right", "wrong"} /\ secret \in {"admin", "other"}
  /\ pc = [c \in Call |-> "idle"]
  /\ round = [c \in Call |-> 1]
  /\ tries = [c \in Call |-> 1]
  /\ token = [c \in Write |-> "none"]
  /\ reasons = [c \in Call |-> {}]
  /\ executed = [c \in Write |-> 0]
  /\ api \in {"open", "closed"}
  /\ locks = 0 /\ expiries = 0

Goto(c, s) == pc' = [pc EXCEPT ![c] = s]

Start(c) == IF c \in Write THEN "token" ELSE "send"

Begin(c) ==
  /\ pc[c] = "idle"
  /\ Goto(c, Start(c))
  /\ UNCHANGED <<handle, round, tries, token, reasons, executed, api, events>>

-----------------------------------------------------------------------------
(* send_command: what follows a bad status. *)

(* Every command that is refused is sent again. *)
AfterRefusalAlways(c) == Goto(c, "unlock")

(* V3 treats its reads like its writes. *)
AfterRefusalOfAny(c) == Goto(c, IF round[c] = 1 THEN "unlock" ELSE "rejected")

AfterRefusal(c) ==
  Goto(c, IF round[c] = 1 /\ (version = 2 \/ c \in Write) THEN "unlock"
          ELSE "rejected")

Refuse(c, why) == reasons' = [reasons EXCEPT ![c] = @ \union {why}]

(* No connection, no answer in time, or one that cannot be read: the call  *)
(* of a read, or of a write that has no token yet, fails.                  *)
Lost(c) ==
  /\ pc[c] = "token" \/ (c \in Read /\ pc[c] = "send")
  /\ Goto(c, "failed")
  /\ UNCHANGED <<handle, round, tries, token, reasons, executed, api, events>>

-----------------------------------------------------------------------------
(* The token of a write: get_token_data (V2), get_salt (V3). *)

TokenIssued(c) ==
  /\ pc[c] = "token"
  /\ token' = [token EXCEPT ![c] = "good"]
  /\ Goto(c, "send")
  /\ UNCHANGED <<handle, round, tries, reasons, executed, api, events>>

(* V2 asks by send_command, which unlocks and asks again; its second bad   *)
(* status is that of the whole write.  V3 makes any failure its own error. *)
TokenRefused(c) ==
  /\ pc[c] = "token"
  /\ Refuse(c, "busy")
  /\ \/ version = 2 /\ tries[c] = 1 /\ Goto(c, "unlock_for_token")
     \/ version = 2 /\ tries[c] = 2 /\ AfterRefusal(c)
     \/ version = 3 /\ Goto(c, "failed")
  /\ UNCHANGED <<handle, round, tries, token, executed, api, events>>

-----------------------------------------------------------------------------
(* The command itself. *)

ReadAnswered(c) ==
  /\ c \in Read /\ pc[c] = "send"
  /\ Goto(c, "ok")
  /\ UNCHANGED <<handle, round, tries, token, reasons, executed, api, events>>

(* Carried out only with the write API open, the password and a token that *)
(* the device still knows.                                                 *)
Acceptable(c) == api = "open" /\ auth = "right" /\ token[c] = "good"

Execute(c) == executed' = [executed EXCEPT ![c] = @ + 1]

WriteAnswered(c) ==
  /\ c \in Write /\ pc[c] = "send" /\ Acceptable(c)
  /\ Execute(c)
  /\ Goto(c, "ok")
  /\ UNCHANGED <<handle, round, tries, token, reasons, api, events>>

(* A lost answer treated like a bad status. *)
WriteLostResent(c) ==
  /\ c \in Write /\ pc[c] = "send"
  /\ \/ Acceptable(c) /\ Execute(c)
     \/ UNCHANGED executed
  /\ AfterRefusal(c)
  /\ UNCHANGED <<handle, round, tries, token, reasons, api, events>>

(* The answer is lost; the write may have been carried out.                *)
WriteLost(c) ==
  /\ c \in Write /\ pc[c] = "send"
  /\ \/ Acceptable(c) /\ Execute(c)
     \/ UNCHANGED executed
  /\ Goto(c, "failed")
  /\ UNCHANGED <<handle, round, tries, token, reasons, api, events>>

(* A bad status: for a reason of the client's, or for the command's own.   *)
Refused(c) ==
  /\ pc[c] = "send"
  /\ \/ Refuse(c, "command")
     \/ c \in Write /\ api = "closed" /\ Refuse(c, "locked")
     \/ c \in Write /\ auth = "wrong" /\ Refuse(c, "password")
     \/ c \in Write /\ token[c] # "good" /\ Refuse(c, "token")
  /\ AfterRefusal(c)
  /\ UNCHANGED <<handle, round, tries, token, executed, api, events>>

-----------------------------------------------------------------------------
(* unlock_write_commands *)

CanUnlock == IF version = 2 THEN auth = "right" ELSE secret = "admin"

Unlocking == {"unlock", "unlock_for_token"}

(* The command is sent again as it was. *)
UnlockedResends(c) ==
  /\ pc[c] \in Unlocking
  /\ api' = IF CanUnlock THEN "open" ELSE api
  /\ IF pc[c] = "unlock"
     THEN /\ round' = [round EXCEPT ![c] = 2]
          /\ Goto(c, IF c \in Write /\ token[c] = "none" THEN "token" ELSE "send")
          /\ UNCHANGED tries
     ELSE /\ tries' = [tries EXCEPT ![c] = 2]
          /\ Goto(c, "token")
          /\ UNCHANGED round
  /\ UNCHANGED <<handle, token, reasons, executed, events>>

(* The last answer of the exchange is read and not looked at: whether the  *)
(* API is open now or not, what was refused is sent again.                 *)
Unlocked(c) ==
  /\ pc[c] \in Unlocking
  /\ api' = IF CanUnlock THEN "open" ELSE api
  /\ IF pc[c] = "unlock"
     THEN /\ round' = [round EXCEPT ![c] = 2]
          /\ tries' = [tries EXCEPT ![c] = 1]
          /\ Goto(c, Start(c))
     ELSE /\ tries' = [tries EXCEPT ![c] = 2]
          /\ Goto(c, "token")
          /\ UNCHANGED round
  /\ UNCHANGED <<handle, token, reasons, executed, events>>

(* No connection, no challenge, or no last answer: the call fails.         *)
UnlockFails(c) ==
  /\ pc[c] \in Unlocking
  /\ api' \in {api, IF CanUnlock THEN "open" ELSE api}
  /\ Goto(c, "failed")
  /\ UNCHANGED <<handle, round, tries, token, reasons, executed, events>>

-----------------------------------------------------------------------------
(* The device. *)

(* Another client closes the write API, or the device restarts. *)
Lock ==
  /\ locks < MaxLocks /\ api = "open"
  /\ api' = "closed"
  /\ locks' = locks + 1
  /\ UNCHANGED <<handle, calls, executed, expiries>>

(* The salts that were given out are not valid any more. *)
Expire ==
  /\ expiries < MaxExpiries
  /\ expiries' = expiries + 1
  /\ token' = [c \in Write |-> IF token[c] = "good" THEN "stale" ELSE token[c]]
  /\ UNCHANGED <<handle, pc, round, tries, reasons, executed, api, locks>>

Step(c) ==
  \/ Lost(c) \/ TokenIssued(c) \/ TokenRefused(c)
  \/ ReadAnswered(c) \/ WriteAnswered(c) \/ WriteLost(c) \/ Refused(c)
  \/ Unlocked(c) \/ UnlockFails(c)

Next ==
  \/ \E c \in Call : Begin(c) \/ Step(c)
  \/ Lock
  \/ Expire

(* Connections, writes and reads have timeouts. *)
Fairness == \A c \in Call : WF_vars(Step(c))

Spec == Init /\ [][Next]_vars /\ Fairness

-----------------------------------------------------------------------------
TypeOK ==
  /\ version \in {2, 3} /\ auth \in {"right", "wrong"} /\ secret \in {"admin", "other"}
  /\ pc \in [Call -> Stages]
  /\ round \in [Call -> 1..2] /\ tries \in [Call -> 1..2]
  /\ \A c \in Read : pc[c] # "token"
  /\ \A c \in Call : tries[c] = 2 \/ pc[c] = "unlock_for_token" =>
       c \in Write /\ version = 2
  /\ token \in [Write -> {"none", "good", "stale"}]
  /\ reasons \in [Call -> SUBSET {"busy", "command", "locked", "password", "token"}]
  /\ executed \in [Write -> Nat]
  /\ api \in {"open", "closed"}
  /\ locks \in 0..MaxLocks /\ expiries \in 0..MaxExpiries

(* A write is sent up to twice, and up to four requests of the salt and    *)
(* three unlockings come with it; it is carried out at most once all the   *)
(* same, exactly once if the call succeeds, never if it ends rejected.     *)
ExecutedOnce ==
  \A c \in Write :
    /\ executed[c] <= 1
    /\ pc[c] = "ok" => executed[c] = 1
    /\ pc[c] = "rejected" => executed[c] = 0

(* A locked write API does not cost a write whose client can open it, nor  *)
(* does one forgotten salt: a write that is rejected for nothing but the   *)
(* lock met a second lock or could not unlock, one that is rejected for    *)
(* nothing but its token met two expiries.                                 *)
RejectedWhy ==
  \A c \in Write : pc[c] = "rejected" =>
    /\ reasons[c] = {"locked"} => locks > 0 \/ ~CanUnlock
    /\ reasons[c] = {"token"} => expiries >= 2

(* With V3 the write API is opened only on behalf of a write; reading data *)
(* never changes what others may do to the device.                         *)
OpenedForWrites ==
  [][(version = 3 /\ api = "closed" /\ api' = "open") => \E c \in Write : pc[c] \in Unlocking]_vars

(* Every call ends, whatever is refused how often. *)
CallEnds == \A c \in Call : pc[c] # "idle" ~> pc[c] \in Ended
=============================================================================
