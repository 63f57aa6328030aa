---------------------------- MODULE MinerHandle -----------------------------
(***************************************************************************)
(* The Python handle of one miner (src/src/python/miner.rs) and the        *)
(* password it shares with the device.                                     *)
(*                                                                         *)
(* Every awaitable clones the Arc of a tokio RwLock and is spawned at once;*)
(* it takes the lock for reading, change_password for writing.  The lock   *)
(* is fair: waiters are served in the order they came.  A getter takes the *)
(* lock on the thread of the event loop, which does nothing else until it  *)
(* has it.  set_auth works only on a handle no awaitable shares.           *)
(*                                                                         *)
(* change_password differs by backend: most take the new password when the *)
(* device says yes; the AntMiner backends take it, ask for the             *)
(* configuration with it, and go back to the old one if that fails.        *)
(***************************************************************************)
EXTENDS Sequences, Integers

CONSTANTS
  Reader,      \* awaitables that read
  Writer,      \* calls of change_password; each sets a password of its own
  Getter,      \* the getter that the event loop runs
  First        \* the password the device starts with

ASSUME OpAssumption ==
  /\ Reader \intersect Writer = {}
  /\ Getter \notin Reader \union Writer
  /\ First \notin Writer

Op == Reader \union Writer
Password == Writer \union {First}

VARIABLES
  pc,          \* of each awaitable
  queue,       \* who waits for the lock, first come first
  loop,        \* the thread of the event loop: "free", or "blocked" in a getter
  auth,        \* the credentials in the handle
  original,    \* change_password: those it found
  result,      \* what each change_password returned
  device,      \* the password of the device
  late,        \* requests that were given up on but may still be executed
  excused,     \* the handle may have lost track of the password
  verifies     \* the backend is one of AntMiner's

vars == <<pc, queue, loop, auth, original, result, device, late, excused, verifies>>

States == {"unused", "queued", "reading", "asking", "probing", "done"}
Holding == {o \in Op : pc[o] \in {"reading", "asking", "probing"}}
Alive == {o \in Op : pc[o] \notin {"unused", "done"}}

Init ==
  /\ verifies \in BOOLEAN
  /\ pc = [o \in Op |-> "unused"]
  /\ queue = <<>>
  /\ loop = "free"
  /\ auth = First
  /\ original = [w \in Writer |-> First]
  /\ result = [w \in Writer |-> "none"]
  /\ device = First
  /\ late = {}
  /\ excused = FALSE

Without(o) == SelectSeq(queue, LAMBDA p : p # o)

-----------------------------------------------------------------------------
(* The event loop.                                                         *)

(* future_into_py: the Arc is cloned and the future spawned. *)
Call(o) ==
  /\ loop = "free"
  /\ pc[o] = "unused"
  /\ pc' = [pc EXCEPT ![o] = "queued"]
  /\ queue' = Append(queue, o)
  /\ UNCHANGED <<loop, auth, original, result, device, late, excused, verifies>>

(* The object of an awaitable that has ended is used for another call. *)
Forget(o) ==
  /\ pc[o] = "done"
  /\ o \in Reader
  /\ pc' = [pc EXCEPT ![o] = "unused"]
  /\ UNCHANGED <<queue, loop, auth, original, result, device, late, excused, verifies>>

(* with_miner: blocking_read, with the interpreter lock released. *)
Get ==
  /\ loop = "free"
  /\ loop' = "blocked"
  /\ queue' = Append(queue, Getter)
  /\ UNCHANGED <<pc, auth, original, result, device, late, excused, verifies>>

(* set_auth, with the password of the device, whoever still uses it. *)
SetAuthAnyTime ==
  /\ loop = "free"
  /\ auth' = device
  /\ excused' = FALSE
  /\ UNCHANGED <<pc, queue, loop, original, result, device, late, verifies>>

(* set_auth, with the password of the device: Arc::get_mut needs the only  *)
(* reference; otherwise it raises and changes nothing.                     *)
SetAuth ==
  /\ loop = "free"
  /\ Alive = {}
  /\ auth' = device
  /\ excused' = FALSE
  /\ UNCHANGED <<pc, queue, loop, original, result, device, late, verifies>>

(* A writer that is dropped while it asks may still have its request       *)
(* executed.                                                               *)
GivenUp(o) == IF pc[o] = "asking" THEN late \union {<<o, auth>>} ELSE late

(* The task is cancelled: the future is dropped where it awaits, with the  *)
(* lock it holds or its place in the queue.                                *)
Cancel(o) ==
  /\ loop = "free"
  /\ pc[o] \in {"queued", "reading", "asking", "probing"}
  /\ pc' = [pc EXCEPT ![o] = "done"]
  /\ queue' = Without(o)
  /\ late' = GivenUp(o)
  /\ excused' = (excused \/ pc[o] \in {"asking", "probing"})
  /\ UNCHANGED <<loop, auth, original, result, device, verifies>>

-----------------------------------------------------------------------------
(* The lock (tokio::sync::RwLock).                                         *)

MayRead == \A o \in Holding : pc[o] = "reading"

(* The order of the queue not kept: whoever fits in. *)
ServedAny(o) ==
  /\ \E i \in 1..Len(queue) : queue[i] = o
  /\ IF o \in Writer THEN Holding = {} ELSE MayRead

(* The first of the queue is let in when those inside allow it. *)
Served(o) ==
  /\ Len(queue) > 0 /\ Head(queue) = o
  /\ IF o \in Writer THEN Holding = {} ELSE MayRead

Enter(o) ==
  /\ pc[o] = "queued"
  /\ Served(o)
  /\ queue' = Without(o)
  /\ pc' = [pc EXCEPT ![o] = IF o \in Writer THEN "asking" ELSE "reading"]
  /\ original' = IF o \in Writer THEN [original EXCEPT ![o] = auth] ELSE original
  /\ UNCHANGED <<loop, auth, result, device, late, excused, verifies>>

(* The getter reads and returns at once. *)
Got ==
  /\ loop = "blocked"
  /\ Served(Getter)
  /\ queue' = Without(Getter)
  /\ loop' = "free"
  /\ UNCHANGED <<pc, auth, original, result, device, late, excused, verifies>>

-----------------------------------------------------------------------------
(* The awaitables, on the runtime's threads.                               *)

(* A reading awaitable ends, whatever the device answered. *)
ReadEnds(o) ==
  /\ pc[o] = "reading"
  /\ pc' = [pc EXCEPT ![o] = "done"]
  /\ UNCHANGED <<queue, loop, auth, original, result, device, late, excused, verifies>>

Return(w, r) ==
  /\ pc' = [pc EXCEPT ![w] = "done"]
  /\ result' = [result EXCEPT ![w] = r]

(* The answer taken without being looked at. *)
TakeAlways(w, answer) == auth' = w /\ Return(w, "true")

(* What the backend does with the answer to its request. *)
Take(w, answer) ==
  \/ /\ verifies /\ answer # "false"
     /\ auth' = w
     /\ pc' = [pc EXCEPT ![w] = "probing"]
     /\ UNCHANGED result
  \/ /\ ~verifies /\ answer = "true"
     /\ auth' = w
     /\ Return(w, "true")
  \/ /\ IF verifies THEN answer = "false" ELSE answer # "true"
     /\ UNCHANGED auth
     /\ Return(w, "not")

(* The device makes the change and says so. *)
Changed(w) ==
  /\ pc[w] = "asking"
  /\ auth = device
  /\ device' = w
  /\ Take(w, "true")
  /\ UNCHANGED <<queue, loop, original, late, excused, verifies>>

(* It makes the change, but the answer is lost. *)
ChangedSilently(w) ==
  /\ pc[w] = "asking"
  /\ auth = device
  /\ device' = w
  /\ Take(w, "error")
  /\ excused' = (excused \/ ~verifies)
  /\ UNCHANGED <<queue, loop, original, late, verifies>>

(* It refuses, in an answer or with an error. *)
Refused(w) ==
  /\ pc[w] = "asking"
  /\ \E answer \in {"false", "error"} : Take(w, answer)
  /\ UNCHANGED <<queue, loop, original, device, late, excused, verifies>>

(* The request times out and is still to be executed. *)
TimesOut(w) ==
  /\ pc[w] = "asking"
  /\ Take(w, "error")
  /\ late' = late \union {<<w, auth>>}
  /\ UNCHANGED <<queue, loop, original, device, excused, verifies>>

(* The device comes to a request that nobody waits for any more. *)
LateChange ==
  \E r \in late :
    /\ late' = late \ {r}
    /\ device' = IF r[2] = device THEN r[1] ELSE device
    /\ excused' = (excused \/ r[2] = device)
    /\ UNCHANGED <<pc, queue, loop, auth, original, result, verifies>>

(* get_miner_conf with the new credentials. *)
ProbeAnswered(w) ==
  /\ pc[w] = "probing"
  /\ auth = device
  /\ Return(w, "true")
  /\ UNCHANGED <<queue, loop, auth, original, device, late, excused, verifies>>

(* Whatever becomes of the probe, the new credentials are kept. *)
ProbeFailsKeeping(w) ==
  /\ pc[w] = "probing"
  /\ excused' = (excused \/ auth = device)
  /\ Return(w, "true")
  /\ UNCHANGED <<queue, loop, auth, original, device, late, verifies>>

(* It is refused, or lost: back to the old credentials. *)
ProbeFails(w) ==
  /\ pc[w] = "probing"
  /\ excused' = (excused \/ auth = device)
  /\ auth' = original[w]
  /\ Return(w, "not")
  /\ UNCHANGED <<queue, loop, original, device, late, verifies>>

Work(o) ==
  \/ ReadEnds(o)
  \/ o \in Writer /\ (\/ Changed(o) \/ ChangedSilently(o) \/ Refused(o) \/ TimesOut(o)
                      \/ ProbeAnswered(o) \/ ProbeFails(o))

Next ==
  \/ \E o \in Op : Call(o) \/ Forget(o) \/ Cancel(o) \/ Enter(o) \/ Work(o)
  \/ Get \/ Got \/ SetAuth \/ LateChange

(* The runtime's threads run whatever the event loop does, and every       *)
(* request of the backends has a timeout; nothing is owed by the caller.   *)
Fairness ==
  /\ \A o \in Op : WF_vars(Enter(o)) /\ WF_vars(Work(o))
  /\ WF_vars(Got)

Spec == Init /\ [][Next]_vars /\ Fairness

-----------------------------------------------------------------------------
TypeOK ==
  /\ pc \in [Op -> States]
  /\ queue \in Seq(Op \union {Getter})
  /\ \A i \in DOMAIN queue : IF queue[i] = Getter THEN loop = "blocked" ELSE pc[queue[i]] = "queued"
  /\ loop \in {"free", "blocked"}
  /\ auth \in Password
  /\ original \in [Writer -> Password]
  /\ result \in [Writer -> {"none", "true", "not"}]
  /\ device \in Password
  /\ late \subseteq Writer \X Password
  /\ excused \in BOOLEAN
  /\ verifies \in BOOLEAN

(* The handle is not left with credentials that the device has replaced,   *)
(* unless change_password was cancelled under way, a request was executed  *)
(* after its caller had given up on it, or the answer that would have told *)
(* was lost: for most backends the answer to the change, for those that    *)
(* verify only the answer to the probe.                                    *)
KnowsThePassword ==
  auth # device => excused \/ \E w \in Writer : pc[w] = "probing"

(* A change_password that returns true has changed the password, and the   *)
(* handle has it.                                                          *)
SuccessIsReal ==
  [][\A w \in Writer : result'[w] # result[w] /\ result'[w] = "true" =>
       device' = w /\ auth' = w]_vars

(* No awaitable sees the credentials change under it: neither set_auth nor *)
(* change_password takes effect while another awaitable holds the lock.    *)
AuthStableForReaders ==
  [][auth' # auth => \A o \in Reader : pc[o] # "reading" /\ pc'[o] # "reading"]_vars

(* Every awaitable gets its turn, however many others keep coming. *)
EveryCallEnds == \A o \in Op : (pc[o] = "queued") ~> (pc[o] = "done")

=============================================================================
