---------------------------- MODULE TokenSession ----------------------------
(***************************************************************************)
(* The web clients that log in for a token, cache it, and renew it when    *)
(* the device answers 401: Proto v1 (single-flight login), and VNish 1.2,  *)
(* Braiins 25.07 and Auradine v1, whose callers log in independently;      *)
(* Braiins 26.04 and 21.09 do the same without renewal.  One client is     *)
(* shared by all the commands of a device, and get_data sends many at      *)
(* once, so the calls interleave at every await.                           *)
(*                                                                         *)
(* The device issues tokens 1, 2, ..., and forgets some or all of them     *)
(* when they expire or it restarts.                                        *)
(***************************************************************************)
EXTENDS Integers, FiniteSets

CONSTANTS
  Caller,        \* concurrent calls on one client, one command each
  NoCaller,
  Web,           \* the clients considered, see below
  MaxExpiries    \* bound: times the device forgets tokens

(* How the callers of a client and its device behave:                      *)
(*   callers       the calls that are made on it                           *)
(*   ensuring      those that call ensure_authenticated first              *)
(*   renewing      those of them that renew the token after a 401          *)
(*   singleFlight  the login holds the write lock of the cache (Proto)     *)
(*   singleSession the device keeps only the newest token                  *)
ASSUME SessionAssumption ==
  /\ NoCaller \notin Caller
  /\ Web \subseteq [callers : SUBSET Caller, ensuring : SUBSET Caller,
                    renewing : SUBSET Caller, singleFlight : BOOLEAN,
                    singleSession : BOOLEAN]
  /\ \A w \in Web : w.renewing \subseteq w.ensuring
  /\ MaxExpiries \in Nat

None == 0     \* no token

VARIABLES
  token,      \* the cache: RwLock<Option<String>>
  lock,       \* who holds the cache's write lock across an await
  pc,         \* where each call is
  renewed,    \* the calls that have renewed the token
  fresh,      \* the token each call got by its own login
  carried,    \* the token each call's last request carried
  executed,   \* times the device has executed each call's command
  issued,     \* tokens issued so far
  valid,      \* tokens the device accepts
  expiries,   \* times the device forgot tokens
  web         \* which client it is

client == <<token, lock, pc, renewed, fresh, carried>>
device == <<executed, issued, valid, expiries>>
vars == <<client, device, web>>

Ended == {"ok", "failed", "unauthorized"}
Stages == {"idle", "check", "enter", "login", "store", "read", "send", "renew"}
            \union Ended

Init ==
  /\ web \in Web
  /\ token = None
  /\ lock = NoCaller
  /\ pc = [c \in Caller |-> "idle"]
  /\ renewed = {}
  /\ fresh = [c \in Caller |-> None]
  /\ carried = [c \in Caller |-> None]
  /\ executed = [c \in Caller |-> 0]
  /\ issued = 0
  /\ valid = {}
  /\ expiries = 0

LockFree == lock = NoCaller
Goto(c, s) == pc' = [pc EXCEPT ![c] = s]

(* Leaving ensure_authenticated or the call drops a guard it holds.        *)
Release(c) == lock' = IF lock = c THEN NoCaller ELSE lock

Begin(c) ==
  /\ c \in web.callers /\ pc[c] = "idle"
  /\ Goto(c, IF c \in web.ensuring THEN "check" ELSE "read")
  /\ UNCHANGED <<token, lock, renewed, fresh, carried, device, web>>

-----------------------------------------------------------------------------
(* ensure_authenticated *)

(* read().await.is_some() *)
EnsureWarm(c) ==
  /\ pc[c] = "check" /\ LockFree /\ token # None
  /\ Goto(c, "read")
  /\ UNCHANGED <<token, lock, renewed, fresh, carried, device, web>>

EnsureCold(c) ==
  /\ pc[c] = "check" /\ LockFree /\ token = None
  /\ Goto(c, IF web.singleFlight THEN "enter" ELSE "login")
  /\ UNCHANGED <<token, lock, renewed, fresh, carried, device, web>>

(* Enter that logs in without looking again. *)
EnterUnchecked(c) ==
  /\ pc[c] = "enter" /\ LockFree
  /\ Goto(c, "login") /\ lock' = c
  /\ UNCHANGED <<token, renewed, fresh, carried, device, web>>

(* write().await, then is_some() once more: log in only if still needed.   *)
Enter(c) ==
  /\ pc[c] = "enter" /\ LockFree
  /\ IF token # None
     THEN Goto(c, "read") /\ UNCHANGED lock
     ELSE Goto(c, "login") /\ lock' = c
  /\ UNCHANGED <<token, renewed, fresh, carried, device, web>>

(* The device answers the login request with a token. *)
LoginIssued(c) ==
  /\ pc[c] = "login"
  /\ issued' = issued + 1
  /\ valid' = IF web.singleSession THEN {issued + 1} ELSE valid \union {issued + 1}
  /\ fresh' = [fresh EXCEPT ![c] = issued + 1]
  /\ Goto(c, "store")
  /\ UNCHANGED <<token, lock, renewed, carried, executed, expiries, web>>

(* A failed login that keeps the write lock. *)
LoginFailsLocked(c) ==
  /\ pc[c] = "login"
  /\ Goto(c, "failed")
  /\ UNCHANGED <<token, lock, renewed, fresh, carried, device, web>>

(* The login fails or times out: the call fails. *)
LoginFails(c) ==
  /\ pc[c] = "login"
  /\ Goto(c, "failed") /\ Release(c)
  /\ UNCHANGED <<token, renewed, fresh, carried, device, web>>

Store(c) ==
  /\ pc[c] = "store"
  /\ token' = fresh[c]
  /\ Goto(c, "read") /\ Release(c)
  /\ UNCHANGED <<renewed, fresh, carried, device, web>>

-----------------------------------------------------------------------------
(* send_command *)

(* The request is built with whatever the cache holds by now.              *)
ReadToken(c) ==
  /\ pc[c] = "read" /\ LockFree
  /\ carried' = [carried EXCEPT ![c] = token]
  /\ Goto(c, "send")
  /\ UNCHANGED <<token, lock, renewed, fresh, device, web>>

Execute(c) == executed' = [executed EXCEPT ![c] = @ + 1]

Accepted(c) ==
  /\ pc[c] = "send" /\ carried[c] \in valid
  /\ Execute(c) /\ Goto(c, "ok")
  /\ UNCHANGED <<token, lock, renewed, fresh, carried, issued, valid, expiries, web>>

(* No answer, and the request is sent again. *)
UnansweredResent(c) ==
  /\ pc[c] = "send"
  /\ \/ carried[c] \in valid /\ Execute(c)
     \/ UNCHANGED executed
  /\ Goto(c, IF c \in web.renewing \ renewed THEN "renew" ELSE "failed")
  /\ UNCHANGED <<token, lock, renewed, fresh, carried, issued, valid, expiries, web>>

(* No answer comes: the command may have been executed all the same.       *)
UnansweredRequest(c) ==
  /\ pc[c] = "send"
  /\ \/ carried[c] \in valid /\ Execute(c)
     \/ UNCHANGED executed
  /\ Goto(c, "failed")
  /\ UNCHANGED <<token, lock, renewed, fresh, carried, issued, valid, expiries, web>>

(* 401: the first one leads to a renewal, the second one fails the call.   *)
Rejected(c) ==
  /\ pc[c] = "send" /\ carried[c] \notin valid
  /\ Goto(c, IF c \in web.renewing \ renewed THEN "renew" ELSE "unauthorized")
  /\ UNCHANGED <<token, lock, renewed, fresh, carried, device, web>>

(* The renewal keeps the rejected token. *)
RenewKeeps(c) ==
  /\ pc[c] = "renew" /\ LockFree
  /\ renewed' = renewed \union {c}
  /\ Goto(c, "check")
  /\ UNCHANGED <<token, lock, fresh, carried, device, web>>

(* clear_token: whatever the cache holds by now is dropped. *)
Renew(c) ==
  /\ pc[c] = "renew" /\ LockFree
  /\ token' = None
  /\ renewed' = renewed \union {c}
  /\ Goto(c, "check")
  /\ UNCHANGED <<lock, fresh, carried, device, web>>

(* The future of the call is dropped at one of its awaits. *)
Abandon(c) ==
  /\ pc[c] \notin Ended \union {"idle"}
  /\ Goto(c, "failed") /\ Release(c)
  /\ UNCHANGED <<token, renewed, fresh, carried, device, web>>

-----------------------------------------------------------------------------
(* The device forgets tokens: they expire, or it restarts. *)
Expire ==
  /\ expiries < MaxExpiries
  /\ \E keep \in SUBSET valid : keep # valid /\ valid' = keep
  /\ expiries' = expiries + 1
  /\ UNCHANGED <<client, executed, issued, web>>

Waits(c) == EnsureWarm(c) \/ EnsureCold(c) \/ Enter(c) \/ ReadToken(c) \/ Renew(c)
Answered(c) ==
  \/ LoginIssued(c) \/ LoginFails(c)
  \/ Accepted(c) \/ UnansweredRequest(c) \/ Rejected(c)

Next ==
  \/ \E c \in Caller : Begin(c) \/ Waits(c) \/ Answered(c) \/ Store(c) \/ Abandon(c)
  \/ Expire

(* Every request is answered or times out; the lock of the cache is handed *)
(* over in the order it was asked for, so nobody waits for it for ever.    *)
Fairness == \A c \in Caller :
  SF_vars(Waits(c)) /\ WF_vars(Answered(c)) /\ WF_vars(Store(c))

Spec == Init /\ [][Next]_vars /\ Fairness

-----------------------------------------------------------------------------
TypeOK ==
  /\ token \in 0..issued
  /\ lock \in Caller \union {NoCaller}
  /\ pc \in [Caller -> Stages]
  /\ renewed \subseteq web.renewing
  /\ fresh \in [Caller -> 0..issued]
  /\ carried \in [Caller -> 0..issued]
  /\ executed \in [Caller -> Nat]
  /\ issued \in Nat
  /\ valid \subseteq 1..issued
  /\ expiries \in 0..MaxExpiries
  /\ web \in Web

(* proto/.../web.rs:69: "concurrent cold callers share one login": until a *)
(* token expires or a call fails, the device has issued one token.         *)
SharedLogin ==
  web.singleFlight /\ expiries = 0 /\ (\A c \in Caller : pc[c] # "failed") => issued <= 1

(* A command is executed at most once however often it is sent, exactly    *)
(* once if the call succeeds, never if the call ends unauthorized.         *)
ExecutedOnce ==
  \A c \in Caller :
    /\ executed[c] <= 1
    /\ pc[c] = "ok" => executed[c] = 1
    /\ pc[c] = "unauthorized" => executed[c] = 0

(* One expiry is not enough to fail a call that renews its token: it ends  *)
(* unauthorized only after a second one, when its second request went out  *)
(* with no token because another call had just cleared the cache, or, where*)
(* the calls log in side by side, with the token of another call that was  *)
(* stored over its own.                                                    *)
UnauthorizedWhy ==
  ~web.singleSession =>
    \A c \in web.renewing : pc[c] = "unauthorized" =>
      \/ expiries >= 2
      \/ carried[c] = None
      \/ ~web.singleFlight /\ carried[c] # fresh[c]

(* Every call ends, whichever other calls fail or are dropped. *)
EveryCallEnds == \A c \in Caller : pc[c] # "idle" ~> pc[c] \in Ended
=============================================================================
