-------------------------------- MODULE Scan --------------------------------
(***************************************************************************)
(* MinerFactory::scan, scan_stream and scan_stream_with_ip                 *)
(* (src/src/factory.rs): the queued addresses go through scan_miner, at    *)
(* most limit at a time (buffer_unordered), and the results reach the      *)
(* caller in the order they complete.                                      *)
(*                                                                         *)
(* Nothing runs between two polls: an address makes progress only while    *)
(* the caller polls, and every poll first starts as many addresses as the  *)
(* limit allows.  scan() polls until the end; the caller of a stream may   *)
(* keep an item for a while before it polls again, and the identification  *)
(* timers of the addresses in flight go on meanwhile.                      *)
(***************************************************************************)
EXTENDS Integers, Sequences, FiniteSets

CONSTANTS
  N,           \* queued addresses, duplicates included
  Kinds,       \* the operations considered
  Limits,      \* the concurrency limits considered
  Retries,     \* connectivity_retries
  CheckPort,   \* check_port
  Ports,       \* the ports scan_miner probes, in order
  Supported,   \* addresses that accept a probe and answer in time to be identified
  Hung         \* addresses whose build_miner never returns (see Discovery)

Pos == 1..N

ASSUME ScanAssumption ==
  /\ N \in Nat
  /\ Kinds \subseteq {"scan", "stream", "stream_with_ip"}
  /\ Limits \subseteq Nat
  /\ Retries \in Nat
  /\ CheckPort \in BOOLEAN
  /\ Ports \in Nat \ {0}
  /\ Supported \subseteq Pos
  /\ Hung \subseteq Pos

VARIABLES
  started,   \* how many addresses buffer_unordered has taken from the queue
  stage,     \* where scan_miner is for each address
  probed,    \* probes of each address that failed
  late,      \* the identification timer elapsed while nobody polled
  got,       \* what scan_miner returned
  yielded,   \* addresses whose item reached the caller, in order
  caller,    \* what the caller does
  kind,      \* which operation it is
  limit      \* the concurrency limit, which with_concurrent_limit does not check

vars == <<started, stage, probed, late, got, yielded, caller, kind, limit>>

Stages == {"queued", "probing", "identifying", "finished"}

InFlight == {i \in Pos : stage[i] \in {"probing", "identifying"}}

(* `(1..self.connectivity_retries).next().is_some()` *)
Attempts == Retries > 1

(* scan() on an empty queue is an error; an empty stream just ends. *)
Init ==
  /\ kind \in Kinds
  /\ limit \in Limits
  /\ started = 0
  /\ stage = [i \in Pos |-> "queued"]
  /\ probed = [i \in Pos |-> 0]
  /\ late = [i \in Pos |-> FALSE]
  /\ got = [i \in Pos |-> "pending"]
  /\ yielded = <<>>
  /\ caller = IF N = 0 /\ kind = "scan" THEN "refused" ELSE "polling"

-----------------------------------------------------------------------------
(* buffer_unordered *)

(* Addresses in rounds of limit, each round waiting for the one before. *)
MayStartRound == limit # 0 /\ (started % limit # 0 \/ InFlight = {})

(* With a limit of zero nothing is ever started. *)
MayStart == Cardinality(InFlight) < limit

(* Every free slot is filled before anything in flight is polled. *)
Filled == ~MayStart \/ started = N

Start ==
  /\ caller = "polling"
  /\ MayStart
  /\ started < N
  /\ started' = started + 1
  /\ stage' = [stage EXCEPT ![started + 1] =
                 IF Attempts /\ ~CheckPort THEN "identifying" ELSE "probing"]
  /\ UNCHANGED <<probed, late, got, yielded, caller, kind, limit>>

(* Only miners are items. *)
FinishMinersOnly(i, r) ==
  /\ stage' = [stage EXCEPT ![i] = "finished"]
  /\ got' = [got EXCEPT ![i] = r]
  /\ IF r = "miner"
     THEN /\ yielded' = Append(yielded, i)
          /\ caller' = IF kind = "scan" THEN "polling" ELSE "busy"
     ELSE UNCHANGED <<yielded, caller>>
  /\ UNCHANGED <<started, probed, late, kind, limit>>

(* An address is finished; filter_map drops what is not a miner, except in *)
(* scan_stream_with_ip.  An item ends the poll, scan() polls again at once.*)
Finish(i, r) ==
  /\ stage' = [stage EXCEPT ![i] = "finished"]
  /\ got' = [got EXCEPT ![i] = r]
  /\ IF r = "miner" \/ kind = "stream_with_ip"
     THEN /\ yielded' = Append(yielded, i)
          /\ caller' = IF kind = "scan" THEN "polling" ELSE "busy"
     ELSE UNCHANGED <<yielded, caller>>
  /\ UNCHANGED <<started, probed, late, kind, limit>>

End ==
  /\ caller = "polling"
  /\ started = N /\ InFlight = {}
  /\ caller' = "ended"
  /\ UNCHANGED <<started, stage, probed, late, got, yielded, kind, limit>>

-----------------------------------------------------------------------------
(* scan_miner *)

Polled(i) == caller = "polling" /\ Filled /\ i \in InFlight

(* check_port_open fails: refused, or no answer within its timeout. *)
ProbeFails(i) ==
  /\ Polled(i) /\ stage[i] = "probing"
  /\ Attempts /\ probed[i] < Ports
  /\ i \notin Supported \/ probed[i] + 1 < Ports
  /\ probed' = [probed EXCEPT ![i] = @ + 1]
  /\ UNCHANGED <<started, stage, late, got, yielded, caller, kind, limit>>

ProbeConnects(i) ==
  /\ Polled(i) /\ stage[i] = "probing"
  /\ Attempts /\ probed[i] < Ports
  /\ stage' = [stage EXCEPT ![i] = "identifying"]
  /\ UNCHANGED <<started, probed, late, got, yielded, caller, kind, limit>>

(* The first port decides. *)
NoFirstPort(i) ==
  /\ Polled(i) /\ stage[i] = "probing"
  /\ ~Attempts \/ probed[i] = 1
  /\ Finish(i, "none")

(* No port answered, or no attempt is made at all. *)
NoPort(i) ==
  /\ Polled(i) /\ stage[i] = "probing"
  /\ ~Attempts \/ probed[i] = Ports
  /\ Finish(i, "none")

(* get_miner returns.  A supported address whose answers could be polled   *)
(* in time is a miner; when its timer elapsed meanwhile, select! may take  *)
(* the timer.  Of another address nothing, or an error, is returned.  That *)
(* get_miner finds what answers in time is what DiscoveryProofs shows of   *)
(* its module (PromptHostIsFound).                                         *)
Identified(i) ==
  /\ Polled(i) /\ stage[i] = "identifying"
  /\ \/ i \in Supported /\ Finish(i, "miner")
     \/ (i \in Supported => late[i]) /\ Finish(i, "none")

-----------------------------------------------------------------------------
(* The caller of a stream. *)

Poll ==
  /\ caller = "busy"
  /\ caller' = "polling"
  /\ UNCHANGED <<started, stage, probed, late, got, yielded, kind, limit>>

(* The caller keeps an item so long that the timer of an address elapses.  *)
Stall(i) ==
  /\ caller = "busy"
  /\ stage[i] = "identifying"
  /\ late' = [late EXCEPT ![i] = TRUE]
  /\ UNCHANGED <<started, stage, probed, got, yielded, caller, kind, limit>>

(* The stream, or the future of scan(), is dropped with what is in flight. *)
Drop ==
  /\ caller \in {"polling", "busy"}
  /\ caller' = "dropped"
  /\ UNCHANGED <<started, stage, probed, late, got, yielded, kind, limit>>

Address(i) == ProbeFails(i) \/ ProbeConnects(i) \/ NoPort(i) \/ Identified(i)

Next ==
  \/ Start
  \/ End
  \/ \E i \in Pos : Address(i)
  \/ Poll
  \/ \E i \in Pos : Stall(i)
  \/ Drop

(* A poll goes on until nothing it holds can make progress; every probe    *)
(* and every identification ends, unless the address is a hung one.        *)
Fairness ==
  /\ WF_vars(Start)
  /\ WF_vars(End)
  /\ \A i \in Pos :
       WF_vars((i \notin Hung \/ stage[i] = "probing") /\ Address(i))

Spec == Init /\ [][Next]_vars /\ Fairness

-----------------------------------------------------------------------------
TypeOK ==
  /\ started \in 0..N
  /\ stage \in [Pos -> Stages]
  /\ probed \in [Pos -> 0..Ports]
  /\ late \in [Pos -> BOOLEAN]
  /\ got \in [Pos -> {"pending", "none", "miner"}]
  /\ yielded \in Seq(Pos)
  /\ caller \in {"polling", "busy", "ended", "dropped", "refused"}
  /\ kind \in Kinds
  /\ limit \in Limits

(* What reaches the caller: miners, or every address (scan_stream_with_ip  *)
(* "preserves every attempted IP"), each exactly once.                     *)
Shown(i) == got[i] = "miner" \/ (kind = "stream_with_ip" /\ got[i] # "pending")

ItemsOnce ==
  /\ caller = "ended" => \A i \in Pos : got[i] # "pending"
  /\ \A i \in Pos : Shown(i) <=> \E k \in DOMAIN yielded : yielded[k] = i
  /\ \A k, l \in DOMAIN yielded : yielded[k] = yielded[l] => k = l

(* A supported address comes back as a miner, unless its timer elapsed     *)
(* while the caller of the stream was not polling.                         *)
FoundUnlessStalled ==
  Attempts => \A i \in Supported : got[i] = "none" => late[i]

(* Hung addresses take their slots only: as long as one slot is left (none *)
(* is with a limit of zero, which leaves the scan waiting for good) and    *)
(* the caller comes back to poll, every other address is settled.          *)
HungHoldOnlyTheirSlots ==
  Cardinality(Hung) < limit /\ []<>(caller # "busy") =>
    \A i \in Pos \ Hung : <>(got[i] # "pending" \/ caller = "dropped")
=============================================================================
