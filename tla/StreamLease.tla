---------------------------- MODULE StreamLease -----------------------------
(***************************************************************************)
(* The Python scan streams (src/src/python/factory.rs, typing.rs).         *)
(*                                                                         *)
(* Every __anext__ call spawns a task on the Rust runtime and returns a    *)
(* Python future.  The task takes the stream out of the shared state (a    *)
(* lease), polls it for one item and stores it back.  Calls may overlap;   *)
(* Python may cancel a future at any time, which runs a callback later:    *)
(* the callback aborts the task and closes the state.  The runtime's       *)
(* threads and the event loop interleave between any two of these steps,   *)
(* each of which holds the mutex of the state at most once.                *)
(***************************************************************************)
EXTENDS Integers, FiniteSets

CONSTANTS
  Call,     \* the __anext__ calls made on one stream object
  Items     \* items the stream yields before it ends

ASSUME LeaseAssumption == Items \in Nat

VARIABLES
  state,    \* StreamState: the shared Mutex
  taken,    \* items polled out of the stream so far
  task,     \* the Rust task of each call
  result,   \* what the task has, or has returned
  fut,      \* the Python future of each call
  guard     \* RustFutureCancellationGuard of each call

lvars == <<state, taken, task, result, fut, guard>>

(* Results that are not items. *)
Nothing == -1
Stop == -2        \* StopAsyncIteration
Busy == -3        \* "stream is already being polled"
Panic == -4       \* "rust future panicked"

Holders == {c \in Call : task[c] \in {"holding", "storing"}}
Aborted(c) == guard[c] = "fired"

LeaseInit ==
  /\ state = "ready"
  /\ taken = 0
  /\ task = [c \in Call |-> "none"]
  /\ result = [c \in Call |-> Nothing]
  /\ fut = [c \in Call |-> "none"]
  /\ guard = [c \in Call |-> "none"]

-----------------------------------------------------------------------------
(* The event loop. *)

(* __anext__ *)
Anext(c) ==
  /\ fut[c] = "none"
  /\ fut' = [fut EXCEPT ![c] = "pending"]
  /\ task' = [task EXCEPT ![c] = "spawned"]
  /\ guard' = [guard EXCEPT ![c] = "armed"]
  /\ UNCHANGED <<state, taken, result>>

(* The result of a task reaches its future, unless that was cancelled. *)
Deliver(c) ==
  /\ fut[c] = "pending" /\ task[c] = "over"
  /\ fut' = [fut EXCEPT ![c] = "set"]
  /\ UNCHANGED <<state, taken, task, result, guard>>

(* task.cancel() or asyncio.wait_for *)
Cancel(c) ==
  /\ fut[c] = "pending"
  /\ fut' = [fut EXCEPT ![c] = "cancelled"]
  /\ UNCHANGED <<state, taken, task, result, guard>>

(* The guard closes the state but does not abort the task. *)
CancelCallbackClosesOnly(c) ==
  /\ fut[c] = "cancelled" /\ guard[c] = "armed"
  /\ guard' = [guard EXCEPT ![c] = "disarmed"]
  /\ state' = "closed"
  /\ UNCHANGED <<taken, task, result, fut>>

(* The guard is called: abort, then close_stream_state. *)
CancelCallback(c) ==
  /\ fut[c] = "cancelled" /\ guard[c] = "armed"
  /\ guard' = [guard EXCEPT ![c] = "fired"]
  /\ state' = "closed"
  /\ UNCHANGED <<taken, task, result, fut>>

(* The guard is called for a future that has its result: disarmed. *)
DoneCallback(c) ==
  /\ fut[c] = "set" /\ guard[c] = "armed"
  /\ guard' = [guard EXCEPT ![c] = "disarmed"]
  /\ UNCHANGED <<state, taken, task, result, fut>>

-----------------------------------------------------------------------------
(* The task. *)

Return(c, r) ==
  /\ task' = [task EXCEPT ![c] = "over"]
  /\ result' = [result EXCEPT ![c] = r]

(* StreamLease::take *)
Take(c) ==
  /\ task[c] = "spawned" /\ ~Aborted(c) /\ state = "ready"
  /\ state' = "in_use"
  /\ task' = [task EXCEPT ![c] = "holding"]
  /\ UNCHANGED <<taken, result, fut, guard>>

(* A call that finds the stream in use waits for it. *)
TakeInUseWaits(c) ==
  /\ task[c] = "spawned" /\ ~Aborted(c) /\ state = "in_use"
  /\ UNCHANGED lvars

(* A call that finds the stream in use is told that it is over. *)
TakeInUseStops(c) ==
  /\ task[c] = "spawned" /\ ~Aborted(c) /\ state = "in_use"
  /\ Return(c, Stop)
  /\ UNCHANGED <<state, taken, fut, guard>>

TakeInUse(c) ==
  /\ task[c] = "spawned" /\ ~Aborted(c) /\ state = "in_use"
  /\ Return(c, Busy)
  /\ UNCHANGED <<state, taken, fut, guard>>

TakeClosed(c) ==
  /\ task[c] = "spawned" /\ ~Aborted(c) /\ state = "closed"
  /\ Return(c, Stop)
  /\ UNCHANGED <<state, taken, fut, guard>>

(* next().await answers; what follows is not aborted any more. *)
NextItem(c) ==
  /\ task[c] = "holding" /\ ~Aborted(c)
  /\ taken < Items
  /\ taken' = taken + 1
  /\ result' = [result EXCEPT ![c] = taken + 1]
  /\ task' = [task EXCEPT ![c] = "storing"]
  /\ UNCHANGED <<state, fut, guard>>

NextEnd(c) ==
  /\ task[c] = "holding" /\ ~Aborted(c)
  /\ taken = Items
  /\ result' = [result EXCEPT ![c] = Stop]
  /\ task' = [task EXCEPT ![c] = "storing"]
  /\ UNCHANGED <<state, taken, fut, guard>>

(* A panic unwinds the lease: Drop closes the state. *)
NextPanics(c) ==
  /\ task[c] = "holding" /\ ~Aborted(c)
  /\ Return(c, Panic)
  /\ state' = "closed"
  /\ UNCHANGED <<taken, fut, guard>>

(* store() that gives the item up with the stream. *)
StoreGivesUp(c) ==
  /\ task[c] = "storing"
  /\ state' = IF result[c] = Stop \/ state = "closed" THEN "closed" ELSE "ready"
  /\ Return(c, IF state = "closed" THEN Stop ELSE result[c])
  /\ UNCHANGED <<taken, fut, guard>>

(* store_ready, or close() at the end of the stream: a state closed while  *)
(* the stream was out stays closed, and the stream is dropped.             *)
Store(c) ==
  /\ task[c] = "storing"
  /\ state' = IF result[c] = Stop \/ state = "closed" THEN "closed" ELSE "ready"
  /\ task' = [task EXCEPT ![c] = "over"]
  /\ UNCHANGED <<taken, result, fut, guard>>

(* The aborted task is polled again and dropped, with its lease.           *)
Abort(c) ==
  /\ task[c] \in {"spawned", "holding"} /\ Aborted(c)
  /\ task' = [task EXCEPT ![c] = "over"]
  /\ state' = IF task[c] = "holding" THEN "closed" ELSE state
  /\ UNCHANGED <<taken, result, fut, guard>>

Callback(c) == CancelCallback(c) \/ DoneCallback(c)
Runtime(c) == Take(c) \/ TakeInUse(c) \/ TakeClosed(c) \/ Store(c) \/ Abort(c)
Stream(c) == NextItem(c) \/ NextEnd(c) \/ NextPanics(c)

LeaseNext == \E c \in Call :
  Anext(c) \/ Deliver(c) \/ Cancel(c) \/ Callback(c) \/ Runtime(c) \/ Stream(c)

(* The event loop runs its callbacks and the runtime its woken tasks; the  *)
(* stream itself may stay pending for ever (a hung address).               *)
LeaseFairness == \A c \in Call :
  WF_lvars(Deliver(c)) /\ WF_lvars(Callback(c)) /\ WF_lvars(Runtime(c))

LeaseSpec == LeaseInit /\ [][LeaseNext]_lvars /\ LeaseFairness

-----------------------------------------------------------------------------
LeaseTypeOK ==
  /\ state \in {"ready", "in_use", "closed"}
  /\ taken \in 0..Items
  /\ task \in [Call -> {"none", "spawned", "holding", "storing", "over"}]
  /\ result \in [Call -> {Nothing, Stop, Busy, Panic} \union 1..Items]
  /\ fut \in [Call -> {"none", "pending", "set", "cancelled"}]
  /\ guard \in [Call -> {"none", "armed", "disarmed", "fired"}]

(* The stream is out with at most one call, is never out while it is also  *)
(* in the shared state, and is never marked as out while nobody has it     *)
(* (which would answer "already being polled" for ever).                   *)
OneLease ==
  /\ \A c, d \in Holders : c = d
  /\ state = "ready" => Holders = {}
  /\ state = "in_use" => Holders # {}

(* Every item that was polled out belongs to exactly one call, and the     *)
(* call answers with it whatever happened to the state meanwhile.          *)
ItemsOwned ==
  /\ \A k \in 1..taken : \E c \in Call : result[c] = k
  /\ \A c, d \in Call : result[c] = result[d] /\ result[c] \in 1..Items => c = d

(* StopAsyncIteration before the last item is the doing of a cancelled     *)
(* call or of a panic, never of calls that merely overlap.                 *)
StopsEarlyOnlyIfCut ==
  \A c \in Call : result[c] = Stop =>
    \/ taken = Items
    \/ \E d \in Call : fut[d] = "cancelled" \/ result[d] = Panic

(* Once the callback of a cancelled call has run, the stream is closed,    *)
(* whichever call had it.                                                  *)
CancelCloses == (\E c \in Call : guard[c] = "fired") => state = "closed"

(* A closed stream is never handed out again. *)
ClosedForGood == [][state = "closed" => state' = "closed"]_lvars

(* Cancelling a call lets go of the stream, even if it never answers.      *)
CancelReleases ==
  \A c \in Call : fut[c] = "cancelled" ~> state = "closed" /\ c \notin Holders

(* A call that does not have the stream is answered without waiting for    *)
(* the one that has it.                                                    *)
NoCallWaits ==
  \A c \in Call : fut[c] = "pending" ~> fut[c] # "pending" \/ task[c] = "holding"
=============================================================================
