--------------------------- MODULE MCTokenSession ---------------------------
(***************************************************************************)
(* The two disciplines of the clients: Proto, whose cold callers share one *)
(* login, and VNish, whose callers log in side by side and are of three    *)
(* kinds: a command, a log read that does not renew the token, and         *)
(* find_miner, which does not log in.                                      *)
(***************************************************************************)
EXTENDS TokenSession

CONSTANTS c1, c2, c3

ProtoWeb == [callers |-> {c1, c2}, ensuring |-> {c1, c2}, renewing |-> {c1, c2},
             singleFlight |-> TRUE, singleSession |-> FALSE]

VnishWeb == [callers |-> {c1, c2, c3}, ensuring |-> {c1, c2}, renewing |-> {c1},
             singleFlight |-> FALSE, singleSession |-> FALSE]

MCCaller == {c1, c2, c3}
MCWeb == {ProtoWeb, VnishWeb}
=============================================================================
