------------------------------ MODULE Listener ------------------------------
(***************************************************************************)
(* MinerListener (src/src/listener.rs): a socket for each of two makes,    *)
(* each with a stream that receives a packet, identifies its sender and    *)
(* yields the result before it receives the next, and the merge of the two *)
(* streams.  Nothing runs between two polls of the merged stream.          *)
(***************************************************************************)
EXTENDS Integers, Sequences, SequencesExt

CONSTANTS
  Sockets,     \* "antminer" and "whatsminer"
  Address,     \* addresses that send packets
  Hung,        \* addresses for which get_miner never returns (see Discovery)
  QueueLimit   \* packets the system keeps for a socket

ASSUME ListenerAssumption ==
  /\ Sockets = {"antminer", "whatsminer"}
  /\ Hung \subseteq Address
  /\ QueueLimit \in Nat \ {0}

VARIABLES
  kind,      \* "listen" or "listen_ip_only"
  stage,     \* where the stream of each socket is
  queue,     \* the packets of each socket, and errors of receiving
  who,       \* the sender whose packet was received
  answered,  \* get_miner of that sender has what it needs
  first,     \* the stream the next poll begins with
  caller,    \* what the caller of the merged stream does
  sent,      \* how many of the two watched packets have been sent
  watched,   \* the socket they are sent to
  told       \* the watched packets whose results the caller has got

vars == <<kind, stage, queue, who, answered, first, caller, sent, watched, told>>

Other(s) == CHOOSE o \in Sockets : o # s

(* A packet is its sender and a mark: the watched ones have their number.  *)
Packets == [from : Address, mark : 0..2]
RecvError == [from |-> "nobody", mark |-> 0]
NoPacket == [from |-> "none", mark |-> 0]

Stages == {"new", "failed", "receiving", "identifying", "ended"}

TypeOK ==
  /\ kind \in {"listen", "listen_ip_only"}
  /\ stage \in [Sockets -> Stages]
  /\ \A s \in Sockets :
       Len(queue[s]) <= QueueLimit /\ ToSet(queue[s]) \subseteq Packets \union {RecvError}
  /\ who \in [Sockets -> Packets \union {NoPacket}]
  /\ answered \in [Sockets -> BOOLEAN]
  /\ first \in Sockets /\ watched \in Sockets
  /\ caller \in {"polling", "busy", "over", "dropped"}
  /\ sent \in 0..2 /\ told \in Seq(1..2)

Init ==
  /\ kind \in {"listen", "listen_ip_only"}
  /\ stage = [s \in Sockets |-> "new"]
  /\ queue = [s \in Sockets |-> << >>]
  /\ who = [s \in Sockets |-> NoPacket]
  /\ answered = [s \in Sockets |-> FALSE]
  /\ first = "antminer"
  /\ caller = "polling"
  /\ sent = 0 /\ watched \in Sockets
  /\ told = << >>

-----------------------------------------------------------------------------
(* One poll of one stream: what it hands out and where it is after.        *)
Polled(is, packet, next, rest, holds) ==
  [is |-> is, packet |-> packet, stage |-> next, queue |-> rest, who |-> holds]

(* recv_buf_from: errors are logged and received over. *)
Receive(packets) ==
  LET good == {n \in DOMAIN packets : packets[n] # RecvError}
  IN  IF good = {} THEN Polled("pending", NoPacket, "receiving", << >>, NoPacket)
      ELSE LET n == CHOOSE m \in good : \A o \in good : m <= o
               rest == SubSeq(packets, n + 1, Len(packets))
           IN  IF kind = "listen_ip_only"
               THEN Polled("item", packets[n], "receiving", rest, NoPacket)
               ELSE Polled("pending", NoPacket, "identifying", rest, packets[n])

(* The socket is bound at the first poll; if it cannot be, the stream ends *)
(* after it has yielded the error.                                         *)
Polls(s) ==
  CASE stage[s] = "new" ->
         {Receive(<< >>), Polled("error", NoPacket, "failed", << >>, NoPacket)}
    [] stage[s] \in {"failed", "ended"} ->
         {Polled("none", NoPacket, "ended", << >>, NoPacket)}
    [] stage[s] = "receiving" -> {Receive(queue[s])}
    [] stage[s] = "identifying" ->
         {IF answered[s] THEN Polled("item", who[s], "receiving", queue[s], NoPacket)
          ELSE Polled("pending", NoPacket, "identifying", queue[s], who[s])}

(* What the two polls, the second only if there was one, make of the state.*)
Becomes(polled, s, p) ==
  /\ stage' = [t \in Sockets |-> IF t \in polled THEN p[t].stage ELSE stage[t]]
  /\ queue' = [t \in Sockets |-> IF t \in polled THEN p[t].queue ELSE queue[t]]
  /\ who' = [t \in Sockets |-> IF t \in polled THEN p[t].who ELSE who[t]]
  /\ answered' = [t \in Sockets |-> answered[t] /\ ~(t \in polled /\ p[t].is = "item")]
  /\ told' = IF p[s].is = "item" /\ p[s].packet.mark > 0
             THEN Append(told, p[s].packet.mark) ELSE told

HandsOut(p) == p.is \in {"item", "error"}

(* The same stream is always polled first. *)
SameFirst == first

NextFirst == Other(first)

(* Merge::poll_next: the streams take turns in being polled first, and the *)
(* second is polled only if the first has nothing to hand out.             *)
Poll ==
  /\ caller = "polling"
  /\ \E f \in Polls(first), o \in Polls(Other(first)) :
       LET p == [s \in Sockets |-> IF s = first THEN f ELSE o]
       IN  IF HandsOut(f)
           THEN Becomes({first}, first, p) /\ caller' = "busy"
           ELSE /\ Becomes(Sockets, Other(first), p)
                /\ caller' = IF HandsOut(o) THEN "busy"
                             ELSE IF f.is = "none" /\ o.is = "none" THEN "over"
                             ELSE "polling"
  /\ first' = NextFirst
  /\ UNCHANGED <<kind, sent, watched>>

-----------------------------------------------------------------------------
(* The caller has done with an item and polls again, or drops the stream.  *)
NextItem ==
  /\ caller = "busy"
  /\ caller' = "polling"
  /\ UNCHANGED <<kind, stage, queue, who, answered, first, sent, watched, told>>

DropStream ==
  /\ caller \in {"polling", "busy"}
  /\ caller' = "dropped"
  /\ UNCHANGED <<kind, stage, queue, who, answered, first, sent, watched, told>>

Bound(s) == stage[s] \in {"receiving", "identifying"} /\ caller \in {"polling", "busy"}

(* A packet arrives at a socket that has room for it. *)
Arrive(s, packet) ==
  /\ Bound(s) /\ Len(queue[s]) < QueueLimit
  /\ queue' = [queue EXCEPT ![s] = Append(@, packet)]
  /\ UNCHANGED <<kind, stage, who, answered, first, caller, watched, told>>

Packet(s) == \E a \in Address : Arrive(s, [from |-> a, mark |-> 0]) /\ UNCHANGED sent

Watched ==
  /\ sent < 2
  /\ \E a \in Address : Arrive(watched, [from |-> a, mark |-> sent + 1])
  /\ sent' = sent + 1

Fails(s) == Arrive(s, RecvError) /\ UNCHANGED sent

(* The sender answers all that get_miner asks, or its timeouts have run.   *)
Answers(s) ==
  /\ stage[s] = "identifying" /\ ~answered[s] /\ who[s].from \notin Hung
  /\ caller \in {"polling", "busy"}
  /\ answered' = [answered EXCEPT ![s] = TRUE]
  /\ UNCHANGED <<kind, stage, queue, who, first, caller, sent, watched, told>>

Next ==
  \/ Poll \/ NextItem \/ DropStream \/ Watched
  \/ \E s \in Sockets : Packet(s) \/ Fails(s) \/ Answers(s)

(* The runtime polls a stream that is awaited, the caller comes back for   *)
(* the next item, and what is not hung is identified.                      *)
Fairness == WF_vars(Poll) /\ WF_vars(NextItem) /\ \A s \in Sockets : WF_vars(Answers(s))

Spec == Init /\ [][Next]_vars /\ Fairness

-----------------------------------------------------------------------------
Stuck(s) == stage[s] = "identifying" /\ who[s].from \in Hung

(* A packet that has arrived is told, in the order of arrival and once,    *)
(* however many packets the other socket gets, whether that one is stuck or*)
(* could not be bound, and whatever errors come in between; unless the same*)
(* socket is stuck with an address whose get_miner hangs.                  *)
StuckStopsOnlyItself ==
  \A n \in 1..2 :
    (sent = n) ~>
      ((n \in DOMAIN told /\ told[n] = n) \/ Stuck(watched) \/ caller = "dropped")
=============================================================================
