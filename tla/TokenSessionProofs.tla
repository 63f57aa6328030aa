------------------------- MODULE TokenSessionProofs -------------------------
(***************************************************************************)
(* Theorems about TokenSession for every client, any number of concurrent  *)
(* calls and any number of expiries.                                       *)
(***************************************************************************)
EXTENDS TokenSession, TLAPS

(* Who logs in under the write lock has it, and nobody else. *)
LockOK ==
  /\ lock # NoCaller => lock \in Caller /\ pc[lock] \in {"login", "store"}
  /\ web.singleFlight => \A c \in Caller : pc[c] \in {"login", "store"} => lock = c

Renewers == \A c \in Caller : pc[c] = "renew" => c \in web.renewing

(* A call that has ended one way or the other. *)
Executions ==
  \A c \in Caller :
    /\ executed[c] <= 1
    /\ pc[c] = "ok" => executed[c] = 1
    /\ pc[c] \notin {"ok", "failed"} => executed[c] = 0

(* Until a token expires or a device keeps only the newest one, the cache  *)
(* is not cleared: who has ensured a token sends one that is valid.        *)
NothingCleared ==
  expiries = 0 /\ ~web.singleSession =>
    /\ valid = 1..issued
    /\ renewed = {}
    /\ \A c \in Caller :
         /\ pc[c] # "renew"
         /\ pc[c] = "store" => fresh[c] # None
         /\ c \in web.ensuring /\ pc[c] = "read" => token # None
         /\ c \in web.ensuring /\ pc[c] = "send" => carried[c] # None

(* After the first renewal whatever the cache gets was issued after the    *)
(* first expiry, because nobody is storing a token when it is cleared.     *)
SinceRenewal ==
  web.singleFlight /\ ~web.singleSession /\ expiries = 1 /\ renewed # {} =>
    /\ token # None => token \in valid
    /\ \A c \in Caller :
         /\ pc[c] = "store" => fresh[c] \in valid
         /\ c \in renewed /\ pc[c] = "send" /\ carried[c] # None => carried[c] \in valid

(* Tokens of different logins are different. *)
TokensDiffer ==
  \A c, d \in Caller : fresh[c] = fresh[d] /\ fresh[c] # None => c = d

(* Without the lock a login that began before may put an old token back,   *)
(* but a call that has renewed its token has none of its own any more that *)
(* is older than that.                                                     *)
OwnIsNew ==
  ~web.singleSession /\ expiries = 1 =>
    \A c \in renewed :
      /\ pc[c] = "store" => fresh[c] \in valid
      /\ token = fresh[c] /\ token # None => token \in valid
      /\ pc[c] = "send" /\ carried[c] = fresh[c] /\ carried[c] # None => carried[c] \in valid

(* Nothing has gone wrong with a single-flight login so far. *)
Undisturbed ==
  web.singleFlight /\ expiries = 0 /\ \A c \in Caller : pc[c] # "failed"

(* Then the first login is the only one: whoever waits for the lock finds  *)
(* its token.                                                              *)
FirstLoginOnly ==
  Undisturbed =>
    /\ issued <= 1
    /\ valid = 1..issued
    /\ issued = 1 => token = 1 \/ \E c \in Caller : pc[c] = "store"
    /\ \A c \in Caller :
         /\ pc[c] # "renew"
         /\ pc[c] = "login" => issued = 0
         /\ pc[c] = "store" => fresh[c] = 1 /\ issued = 1
         /\ c \in web.ensuring /\ pc[c] = "read" => token = 1
         /\ c \in web.ensuring /\ pc[c] = "send" => carried[c] = 1 /\ issued = 1

IInv ==
  /\ TypeOK
  /\ LockOK
  /\ Renewers
  /\ Executions
  /\ NothingCleared
  /\ SinceRenewal
  /\ TokensDiffer
  /\ OwnIsNew
  /\ FirstLoginOnly
  /\ UnauthorizedWhy

(* One step of one call. *)
CallStep(c) == Begin(c) \/ Waits(c) \/ Answered(c) \/ Store(c) \/ Abandon(c)

LEMMA WebOK ==
  ASSUME TypeOK
  PROVE  /\ web.renewing \subseteq web.ensuring /\ web.ensuring \subseteq Caller
         /\ web.callers \subseteq Caller
         /\ web.singleFlight \in BOOLEAN /\ web.singleSession \in BOOLEAN
BY SessionAssumption DEF TypeOK

LEMMA InitInv == Init => IInv
<1> SUFFICES ASSUME Init PROVE IInv
  OBVIOUS
<1> USE SessionAssumption DEF Init, None, Stages, Ended
<1>1. TypeOK
  BY DEF TypeOK
<1>2. LockOK /\ Renewers /\ Executions
  BY DEF LockOK, Renewers, Executions
<1>3. NothingCleared /\ SinceRenewal /\ TokensDiffer /\ OwnIsNew /\ FirstLoginOnly
  BY DEF NothingCleared, SinceRenewal, TokensDiffer, OwnIsNew, FirstLoginOnly, Undisturbed
<1>4. UnauthorizedWhy
  BY DEF UnauthorizedWhy
<1> QED
  BY <1>1, <1>2, <1>3, <1>4 DEF IInv

LEMMA TypeStep == TypeOK /\ Renewers /\ [Next]_vars => TypeOK'
<1> SUFFICES ASSUME TypeOK, Renewers, [Next]_vars PROVE TypeOK'
  OBVIOUS
<1> USE SessionAssumption DEF TypeOK, None, Goto, client, device, Stages, Ended
<1>1. CASE UNCHANGED vars
  BY <1>1 DEF vars
<1>2. ASSUME NEW c \in Caller, Begin(c) PROVE TypeOK'
  BY <1>2 DEF Begin
<1>3. ASSUME NEW c \in Caller, EnsureWarm(c) PROVE TypeOK'
  BY <1>3 DEF EnsureWarm
<1>4. ASSUME NEW c \in Caller, EnsureCold(c) PROVE TypeOK'
  BY <1>4 DEF EnsureCold
<1>5. ASSUME NEW c \in Caller, Enter(c) PROVE TypeOK'
  BY <1>5 DEF Enter
<1>6. ASSUME NEW c \in Caller, ReadToken(c) PROVE TypeOK'
  BY <1>6 DEF ReadToken
<1>7. ASSUME NEW c \in Caller, LoginIssued(c) PROVE TypeOK'
  BY <1>7 DEF LoginIssued
<1>8. ASSUME NEW c \in Caller, LoginFails(c) \/ Abandon(c) PROVE TypeOK'
  <2>1. pc' = [pc EXCEPT ![c] = "failed"] /\ lock' \in {lock, NoCaller}
    BY <1>8 DEF LoginFails, Abandon, Release
  <2> QED
    BY <1>8, <2>1 DEF LoginFails, Abandon
<1>9. ASSUME NEW c \in Caller, Store(c) PROVE TypeOK'
  BY <1>9 DEF Store, Release
<1>10. ASSUME NEW c \in Caller, Accepted(c) PROVE TypeOK'
  BY <1>10 DEF Accepted, Execute
<1>11. ASSUME NEW c \in Caller, UnansweredRequest(c) PROVE TypeOK'
  BY <1>11 DEF UnansweredRequest, Execute
<1>12. ASSUME NEW c \in Caller, Rejected(c) PROVE TypeOK'
  BY <1>12 DEF Rejected
<1>13. ASSUME NEW c \in Caller, Renew(c) PROVE TypeOK'
  BY <1>13 DEF Renew, Renewers
<1>14. CASE Expire
  BY <1>14 DEF Expire
<1> QED
  BY <1>1, <1>2, <1>3, <1>4, <1>5, <1>6, <1>7, <1>8, <1>9, <1>10, <1>11, <1>12, <1>13, <1>14
     DEF Next, Waits, Answered

(* The lock is taken to log in and dropped with the login; only those that *)
(* renew come to the renewal.                                              *)
LEMMA LockStep == TypeOK /\ LockOK /\ Renewers /\ [Next]_vars => LockOK' /\ Renewers'
<1> SUFFICES ASSUME TypeOK, LockOK, Renewers, [Next]_vars PROVE LockOK' /\ Renewers'
  OBVIOUS
<1> USE SessionAssumption DEF TypeOK, LockOK, Renewers, Goto, client, device, LockFree
<1>1. CASE UNCHANGED vars
  BY <1>1 DEF vars
<1>2. ASSUME NEW c \in Caller, Begin(c) \/ EnsureWarm(c) PROVE LockOK' /\ Renewers'
  BY <1>2 DEF Begin, EnsureWarm
<1>3. ASSUME NEW c \in Caller, EnsureCold(c) PROVE LockOK' /\ Renewers'
  BY <1>3 DEF EnsureCold
<1>4. ASSUME NEW c \in Caller, Enter(c) PROVE LockOK' /\ Renewers'
  BY <1>4 DEF Enter
<1>5. ASSUME NEW c \in Caller, ReadToken(c) \/ Renew(c) PROVE LockOK' /\ Renewers'
  BY <1>5 DEF ReadToken, Renew
<1>6. ASSUME NEW c \in Caller, LoginIssued(c) PROVE LockOK' /\ Renewers'
  BY <1>6 DEF LoginIssued
<1>7. ASSUME NEW c \in Caller, LoginFails(c) \/ Abandon(c) \/ Store(c)
      PROVE  LockOK' /\ Renewers'
  BY <1>7 DEF LoginFails, Abandon, Store, Release
<1>8. ASSUME NEW c \in Caller, Accepted(c) \/ UnansweredRequest(c)
      PROVE  LockOK' /\ Renewers'
  BY <1>8 DEF Accepted, UnansweredRequest
<1>9. ASSUME NEW c \in Caller, Rejected(c) PROVE LockOK' /\ Renewers'
  BY <1>9 DEF Rejected
<1>10. CASE Expire
  BY <1>10 DEF Expire
<1> QED
  BY <1>1, <1>2, <1>3, <1>4, <1>5, <1>6, <1>7, <1>8, <1>9, <1>10 DEF Next, Waits, Answered

(* A command is carried out by the request that ends its call. *)
LEMMA ExecutionsStep == TypeOK /\ Executions /\ [Next]_vars => Executions'
<1> SUFFICES ASSUME TypeOK, Executions, [Next]_vars PROVE Executions'
  OBVIOUS
<1> USE DEF TypeOK, Executions, Goto, client, device, Ended
<1>1. CASE UNCHANGED vars
  BY <1>1 DEF vars
<1>2. ASSUME NEW c \in Caller, Begin(c) \/ Waits(c) PROVE Executions'
  <2>1. PICK s : /\ s \notin {"ok", "failed"} /\ pc' = [pc EXCEPT ![c] = s]
                 /\ pc[c] \notin {"ok", "failed"} /\ executed' = executed
    BY <1>2 DEF Begin, Waits, EnsureWarm, EnsureCold, Enter, ReadToken, Renew
  <2> QED
    BY <2>1
<1>3. ASSUME NEW c \in Caller, LoginIssued(c) \/ LoginFails(c) \/ Abandon(c) \/ Store(c)
      PROVE  Executions'
  BY <1>3 DEF LoginIssued, LoginFails, Abandon, Store
<1>4. ASSUME NEW c \in Caller, Accepted(c) PROVE Executions'
  BY <1>4 DEF Accepted, Execute
<1>5. ASSUME NEW c \in Caller, UnansweredRequest(c) PROVE Executions'
  BY <1>5 DEF UnansweredRequest, Execute
<1>6. ASSUME NEW c \in Caller, Rejected(c) PROVE Executions'
  BY <1>6 DEF Rejected
<1>7. CASE Expire
  BY <1>7 DEF Expire
<1> QED
  BY <1>1, <1>2, <1>3, <1>4, <1>5, <1>6, <1>7 DEF Next, Answered

(* While no token has expired every request of a call that ensures a token *)
(* is accepted.                                                            *)
LEMMA NothingClearedStep ==
  TypeOK /\ Renewers /\ NothingCleared /\ [Next]_vars => NothingCleared'
<1> SUFFICES ASSUME TypeOK, Renewers, NothingCleared, [Next]_vars,
                    expiries' = 0, ~web'.singleSession
             PROVE  NothingCleared'
  BY DEF NothingCleared
<1>w. web' = web /\ expiries \in Nat /\ web.renewing \subseteq web.ensuring
  BY SessionAssumption DEF TypeOK, Next, vars, client, device, Begin, Waits, Answered, EnsureWarm,
     EnsureCold, Enter, ReadToken, Renew, LoginIssued, LoginFails, Accepted, UnansweredRequest,
     Rejected, Store, Abandon, Expire
<1> USE <1>w DEF TypeOK, NothingCleared, Goto, client, device, None
<1>1. CASE UNCHANGED vars
  BY <1>1 DEF vars
<1>2. ASSUME NEW c \in Caller, Begin(c) \/ EnsureWarm(c) \/ EnsureCold(c) \/ Enter(c)
      PROVE  NothingCleared'
  BY <1>2 DEF Begin, EnsureWarm, EnsureCold, Enter
<1>3. ASSUME NEW c \in Caller, ReadToken(c) PROVE NothingCleared'
  BY <1>3 DEF ReadToken
<1>4. ASSUME NEW c \in Caller, LoginIssued(c) PROVE NothingCleared'
  <2>1. valid' = 1..issued'
    BY <1>4 DEF LoginIssued
  <2> QED
    BY <1>4, <2>1 DEF LoginIssued
<1>5. ASSUME NEW c \in Caller, LoginFails(c) \/ Abandon(c) PROVE NothingCleared'
  BY <1>5 DEF LoginFails, Abandon
<1>6. ASSUME NEW c \in Caller, Store(c) PROVE NothingCleared'
  BY <1>6 DEF Store
<1>7. ASSUME NEW c \in Caller, Accepted(c) \/ UnansweredRequest(c) PROVE NothingCleared'
  BY <1>7 DEF Accepted, UnansweredRequest
<1>8. ASSUME NEW c \in Caller, Rejected(c) PROVE NothingCleared'
  <2>1. c \notin web.ensuring
    BY <1>8 DEF Rejected
  <2> QED
    BY <1>8, <2>1 DEF Rejected
<1>9. ASSUME NEW c \in Caller, Renew(c) PROVE FALSE
  BY <1>9 DEF Renew
<1>10. CASE Expire
  BY <1>10 DEF Expire
<1> QED
  BY <1>1, <1>2, <1>3, <1>4, <1>5, <1>6, <1>7, <1>8, <1>9, <1>10 DEF Next, Waits, Answered

(* The token that a renewal clears is not put back by a login that began   *)
(* before: with the lock free nobody is logging in.                        *)
LEMMA SinceRenewalStep ==
  TypeOK /\ LockOK /\ Renewers /\ NothingCleared /\ SinceRenewal /\ [Next]_vars => SinceRenewal'
<1> SUFFICES ASSUME TypeOK, LockOK, Renewers, NothingCleared, SinceRenewal, [Next]_vars,
                    web'.singleFlight, ~web'.singleSession, expiries' = 1, renewed' # {}
             PROVE  SinceRenewal'
  BY DEF SinceRenewal
<1>w. web' = web /\ expiries \in Nat /\ web.renewing \subseteq web.ensuring
  BY SessionAssumption DEF TypeOK, Next, vars, client, device, Begin, Waits, Answered, EnsureWarm,
     EnsureCold, Enter, ReadToken, Renew, LoginIssued, LoginFails, Accepted, UnansweredRequest,
     Rejected, Store, Abandon, Expire
<1> USE <1>w DEF TypeOK, SinceRenewal, Goto, client, device, None, LockFree
<1>1. CASE UNCHANGED vars
  BY <1>1 DEF vars
<1>2. ASSUME NEW c \in Caller, Begin(c) \/ EnsureWarm(c) \/ EnsureCold(c) \/ Enter(c)
      PROVE  SinceRenewal'
  BY <1>2 DEF Begin, EnsureWarm, EnsureCold, Enter
<1>3. ASSUME NEW c \in Caller, ReadToken(c) PROVE SinceRenewal'
  BY <1>3 DEF ReadToken
<1>4. ASSUME NEW c \in Caller, LoginIssued(c) PROVE SinceRenewal'
  BY <1>4 DEF LoginIssued
<1>5. ASSUME NEW c \in Caller, LoginFails(c) \/ Abandon(c) PROVE SinceRenewal'
  BY <1>5 DEF LoginFails, Abandon
<1>6. ASSUME NEW c \in Caller, Store(c) PROVE SinceRenewal'
  BY <1>6 DEF Store
<1>7. ASSUME NEW c \in Caller, Accepted(c) \/ UnansweredRequest(c) \/ Rejected(c)
      PROVE  SinceRenewal'
  BY <1>7 DEF Accepted, UnansweredRequest, Rejected
<1>8. ASSUME NEW c \in Caller, Renew(c) PROVE SinceRenewal'
  <2>1. \A d \in Caller : pc[d] \notin {"login", "store"}
    BY <1>8, SessionAssumption DEF Renew, LockOK
  <2>2. /\ token' = 0 /\ renewed' = renewed \union {c} /\ valid' = valid /\ fresh' = fresh
        /\ carried' = carried /\ expiries' = expiries /\ pc' = [pc EXCEPT ![c] = "check"]
    BY <1>8 DEF Renew
  <2>3. CASE renewed # {}
    BY <2>1, <2>2, <2>3
  <2>4. CASE renewed = {}
    BY <2>1, <2>2, <2>4
  <2> QED
    BY <2>3, <2>4
<1>9. CASE Expire
  BY <1>9 DEF Expire, NothingCleared
<1> QED
  BY <1>1, <1>2, <1>3, <1>4, <1>5, <1>6, <1>7, <1>8, <1>9 DEF Next, Waits, Answered

LEMMA TokensDifferStep == TypeOK /\ TokensDiffer /\ [Next]_vars => TokensDiffer'
<1> SUFFICES ASSUME TypeOK, TokensDiffer, [Next]_vars PROVE TokensDiffer'
  OBVIOUS
<1> USE DEF TypeOK, TokensDiffer, None
<1>1. ASSUME NEW c \in Caller, LoginIssued(c) PROVE TokensDiffer'
  <2>1. fresh' = [fresh EXCEPT ![c] = issued + 1] /\ \A d \in Caller : fresh[d] # issued + 1
    BY <1>1 DEF LoginIssued
  <2> QED
    BY <2>1
<1>2. CASE UNCHANGED fresh
  BY <1>2
<1>3. UNCHANGED fresh \/ \E c \in Caller : LoginIssued(c)
  BY DEF Next, vars, client, device, Begin, Waits, Answered, EnsureWarm, EnsureCold, Enter,
     ReadToken, Renew, LoginFails, Accepted, UnansweredRequest, Rejected, Store, Abandon, Expire
<1> QED
  BY <1>1, <1>2, <1>3

(* What a call that has renewed its token gets by its own login was issued *)
(* after the expiry, and only the call itself stores it.                   *)
LEMMA OwnIsNewStep ==
  TypeOK /\ Renewers /\ NothingCleared /\ TokensDiffer /\ OwnIsNew /\ [Next]_vars => OwnIsNew'
<1> SUFFICES ASSUME TypeOK, Renewers, NothingCleared, TokensDiffer, OwnIsNew, [Next]_vars,
                    ~web'.singleSession, expiries' = 1
             PROVE  OwnIsNew'
  BY DEF OwnIsNew
<1>w. web' = web /\ expiries \in Nat /\ web.renewing \subseteq web.ensuring
      /\ renewed \subseteq Caller /\ web.ensuring \subseteq Caller
  BY SessionAssumption DEF TypeOK, Next, vars, client, device, Begin, Waits, Answered, EnsureWarm,
     EnsureCold, Enter, ReadToken, Renew, LoginIssued, LoginFails, Accepted, UnansweredRequest,
     Rejected, Store, Abandon, Expire
<1> USE <1>w DEF TypeOK, OwnIsNew, Goto, client, device, None, LockFree
<1>1. CASE UNCHANGED vars
  BY <1>1 DEF vars
<1>2. ASSUME NEW c \in Caller, Begin(c) \/ EnsureWarm(c) \/ EnsureCold(c) \/ Enter(c)
      PROVE  OwnIsNew'
  BY <1>2 DEF Begin, EnsureWarm, EnsureCold, Enter
<1>3. ASSUME NEW c \in Caller, ReadToken(c) PROVE OwnIsNew'
  BY <1>3 DEF ReadToken
<1>4. ASSUME NEW c \in Caller, LoginIssued(c) PROVE OwnIsNew'
  BY <1>4 DEF LoginIssued
<1>5. ASSUME NEW c \in Caller, LoginFails(c) \/ Abandon(c) PROVE OwnIsNew'
  BY <1>5 DEF LoginFails, Abandon
<1>6. ASSUME NEW c \in Caller, Store(c) PROVE OwnIsNew'
  <2>1. /\ token' = fresh[c] /\ pc' = [pc EXCEPT ![c] = "read"] /\ pc[c] = "store"
        /\ UNCHANGED <<renewed, fresh, carried, valid, expiries>>
    BY <1>6 DEF Store
  <2>2. \A d \in renewed : fresh[c] = fresh[d] /\ fresh[c] # None => d = c
    BY DEF TokensDiffer
  <2> QED
    BY <2>1, <2>2
<1>7. ASSUME NEW c \in Caller, Accepted(c) \/ UnansweredRequest(c) \/ Rejected(c)
      PROVE  OwnIsNew'
  BY <1>7 DEF Accepted, UnansweredRequest, Rejected
<1>8. ASSUME NEW c \in Caller, Renew(c) PROVE OwnIsNew'
  BY <1>8 DEF Renew
<1>9. CASE Expire
  BY <1>9 DEF Expire, NothingCleared
<1> QED
  BY <1>1, <1>2, <1>3, <1>4, <1>5, <1>6, <1>7, <1>8, <1>9 DEF Next, Waits, Answered

(* The first login of a single-flight client is found by all the others.   *)
LEMMA FirstLoginStep ==
  TypeOK /\ LockOK /\ Renewers /\ FirstLoginOnly /\ [Next]_vars => FirstLoginOnly'
<1> SUFFICES ASSUME TypeOK, LockOK, Renewers, FirstLoginOnly, [Next]_vars, Undisturbed'
             PROVE  FirstLoginOnly'
  BY DEF FirstLoginOnly
<1>w. web' = web /\ expiries \in Nat /\ web.renewing \subseteq web.ensuring
  BY SessionAssumption DEF TypeOK, Next, vars, client, device, Begin, Waits, Answered, EnsureWarm,
     EnsureCold, Enter, ReadToken, Renew, LoginIssued, LoginFails, Accepted, UnansweredRequest,
     Rejected, Store, Abandon, Expire
<1>l. web.singleFlight
  BY <1>w DEF Undisturbed
<1> USE <1>w, <1>l, SessionAssumption
    DEF TypeOK, FirstLoginOnly, Undisturbed, Goto, client, device, None, LockFree
<1>1. CASE UNCHANGED vars
  BY <1>1 DEF vars
<1>2. ASSUME NEW c \in Caller, Begin(c) PROVE FirstLoginOnly'
  BY <1>2 DEF Begin
<1>3. ASSUME NEW c \in Caller, EnsureWarm(c) PROVE FirstLoginOnly'
  BY <1>3 DEF EnsureWarm, LockOK
<1>4. ASSUME NEW c \in Caller, EnsureCold(c) PROVE FirstLoginOnly'
  BY <1>4 DEF EnsureCold
<1>5. ASSUME NEW c \in Caller, Enter(c) PROVE FirstLoginOnly'
  <2>1. \A d \in Caller : pc[d] \notin {"login", "store"}
    BY <1>5 DEF Enter, LockOK
  <2> QED
    BY <1>5, <2>1 DEF Enter
<1>6. ASSUME NEW c \in Caller, ReadToken(c) PROVE FirstLoginOnly'
  BY <1>6 DEF ReadToken
<1>7. ASSUME NEW c \in Caller, LoginIssued(c) PROVE FirstLoginOnly'
  <2>1. /\ pc[c] = "login" /\ pc' = [pc EXCEPT ![c] = "store"]
        /\ token' = token /\ carried' = carried /\ expiries' = expiries
    BY <1>7 DEF LoginIssued
  <2>2. Undisturbed
    BY <2>1
  <2>3. issued = 0 /\ valid = {} /\ token = 0
    BY <2>1, <2>2
  <2>4. issued' = 1 /\ valid' = {1} /\ fresh' = [fresh EXCEPT ![c] = 1]
    BY <1>7, <2>3 DEF LoginIssued
  <2>5. \A d \in Caller \ {c} : pc[d] \notin {"login", "store"}
    BY <2>1 DEF LockOK
  <2>6. /\ \A d \in Caller : pc[d] # "renew"
        /\ \A d \in Caller \cap web.ensuring : pc[d] \notin {"read", "send"}
    BY <2>2, <2>3
  <2> QED
    BY <2>1, <2>3, <2>4, <2>5, <2>6
<1>8. ASSUME NEW c \in Caller, LoginFails(c) \/ Abandon(c) \/ UnansweredRequest(c) PROVE FALSE
  BY <1>8 DEF LoginFails, Abandon, UnansweredRequest
<1>9. ASSUME NEW c \in Caller, Store(c) PROVE FirstLoginOnly'
  BY <1>9 DEF Store, LockOK
<1>10. ASSUME NEW c \in Caller, Accepted(c) PROVE FirstLoginOnly'
  BY <1>10 DEF Accepted
<1>11. ASSUME NEW c \in Caller, Rejected(c) PROVE FirstLoginOnly'
  <2>1. c \notin web.ensuring
    BY <1>11 DEF Rejected
  <2> QED
    BY <1>11, <2>1 DEF Rejected
<1>12. ASSUME NEW c \in Caller, Renew(c) PROVE FALSE
  BY <1>12 DEF Renew
<1>13. CASE Expire
  BY <1>13 DEF Expire
<1> QED
  BY <1>1, <1>2, <1>3, <1>4, <1>5, <1>6, <1>7, <1>8, <1>9, <1>10, <1>11, <1>12, <1>13
     DEF Next, Waits, Answered

(* The second refusal of a call is about a token issued after the renewal, *)
(* about none, or about one that another call has put over it.             *)
LEMMA UnauthorizedStep ==
  TypeOK /\ NothingCleared /\ SinceRenewal /\ OwnIsNew /\ UnauthorizedWhy /\ [Next]_vars
    => UnauthorizedWhy'
<1> SUFFICES ASSUME TypeOK, NothingCleared, SinceRenewal, OwnIsNew, UnauthorizedWhy, [Next]_vars,
                    ~web'.singleSession
             PROVE  UnauthorizedWhy'
  BY DEF UnauthorizedWhy
<1>w. /\ web' = web /\ expiries \in Nat /\ expiries' \in Nat /\ expiries' >= expiries
      /\ web.renewing \subseteq Caller
  BY SessionAssumption DEF TypeOK, Next, vars, client, device, Begin, Waits, Answered, EnsureWarm,
     EnsureCold, Enter, ReadToken, Renew, LoginIssued, LoginFails, Accepted, UnansweredRequest,
     Rejected, Store, Abandon, Expire
<1> USE <1>w DEF TypeOK, UnauthorizedWhy, Goto, client, device, None, Ended
<1>1. CASE UNCHANGED vars
  BY <1>1 DEF vars
<1>2. ASSUME NEW c \in Caller, CallStep(c), ~Rejected(c) PROVE UnauthorizedWhy'
  <2>1. /\ \A d \in Caller : pc'[d] = "unauthorized" => pc[d] = "unauthorized"
        /\ \A d \in Caller :
             pc[d] = "unauthorized" => carried'[d] = carried[d] /\ fresh'[d] = fresh[d]
    BY <1>2 DEF CallStep, Begin, Waits, Answered, EnsureWarm, EnsureCold, Enter, ReadToken, Renew,
       LoginIssued, LoginFails, Accepted, UnansweredRequest, Store, Abandon
  <2> QED
    BY <2>1
<1>3. ASSUME NEW c \in Caller, Rejected(c) PROVE UnauthorizedWhy'
  <2>1. ASSUME c \in web.renewing, pc'[c] = "unauthorized"
        PROVE  \/ expiries >= 2
               \/ carried[c] = None
               \/ ~web.singleFlight /\ carried[c] # fresh[c]
    <3>1. c \in renewed /\ carried[c] \notin valid /\ pc[c] = "send"
      BY <1>3, <2>1 DEF Rejected
    <3>2. expiries # 0
      BY <3>1 DEF NothingCleared
    <3>3. expiries = 1 /\ web.singleFlight => carried[c] = None
      BY <3>1 DEF SinceRenewal
    <3>4. expiries = 1 /\ carried[c] = fresh[c] => carried[c] = None
      BY <3>1 DEF OwnIsNew
    <3> QED
      BY <3>2, <3>3, <3>4
  <2> QED
    BY <1>3, <2>1 DEF Rejected
<1>4. CASE Expire
  BY <1>4 DEF Expire
<1> QED
  BY <1>1, <1>2, <1>3, <1>4 DEF Next, CallStep

LEMMA Invariance == Spec => []IInv
<1>1. IInv /\ [Next]_vars => IInv'
  BY TypeStep, LockStep, ExecutionsStep, NothingClearedStep, SinceRenewalStep, TokensDifferStep,
     OwnIsNewStep, FirstLoginStep, UnauthorizedStep DEF IInv
<1> QED
  BY InitInv, <1>1, PTL DEF Spec

-----------------------------------------------------------------------------
(* The cache, the lock and every call are what TokenSession says they are. *)
THEOREM TypeCorrect == Spec => []TypeOK
<1>1. IInv => TypeOK
  BY DEF IInv
<1> QED
  BY <1>1, Invariance, PTL

(* "Concurrent cold callers share one login" (proto web.rs:69), however    *)
(* many they are: the write lock, with the second look at the cache, lets  *)
(* no second login begin before a token expires or a call fails.           *)
THEOREM OneLoginShared == Spec => []SharedLogin
<1>1. IInv => SharedLogin
  BY DEF IInv, FirstLoginOnly, Undisturbed, SharedLogin
<1> QED
  BY <1>1, Invariance, PTL

(* Sending a command again after a 401 never carries it out twice, and a   *)
(* call that reports success has had it carried out.                       *)
THEOREM ResentAtMostOnce == Spec => []ExecutedOnce
<1>1. IInv => ExecutedOnce
  BY DEF IInv, Executions, ExecutedOnce
<1> QED
  BY <1>1, Invariance, PTL

(* A call that renews its token is not failed by one expiry: with a shared *)
(* login only for want of a token, with logins side by side also by a token*)
(* that another call put over its own.                                     *)
THEOREM OneExpiryIsMended == Spec => []UnauthorizedWhy
<1>1. IInv => UnauthorizedWhy
  BY DEF IInv
<1> QED
  BY <1>1, Invariance, PTL
=============================================================================
