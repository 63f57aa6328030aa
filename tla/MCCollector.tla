---------------------------- MODULE MCCollector -----------------------------
(***************************************************************************)
(* Three commands shared by three fields, as in most backends: one field   *)
(* of a single command, one of two, one that shares a command with each.   *)
(* A field is what JsonMerge makes of the answers: each command says       *)
(* something else in each state of the device, so that objects, arrays and *)
(* scalars meet when they are joined.                                      *)
(***************************************************************************)
EXTENDS Collector

MCCommand == {"summary", "stats", "pools"}
MCField == {"Hashrate", "Hashboards", "Pools"}
MCKey == {"boards", "pools"}
MCAtom == 0..2

MCLocations ==
  [Hashrate |-> <<"summary">>, Hashboards |-> <<"summary", "stats">>,
   Pools |-> <<"stats", "pools">>]

(* What a location finds in the answer of its command; that of "stats" is  *)
(* tagged, and that of "pools" finds nothing at first.                     *)
MCFinds(f, n, s) ==
  LET c == MCLocations[f][n]
  IN  CASE c = "summary" -> Object([boards |-> Array(<<s>>), pools |-> Scalar(s)])
        [] c = "stats" -> Tagged("boards", Array(<<s>>))
        [] c = "pools" -> IF s = 0 THEN Absent
                          ELSE IF s = 1 THEN Array(<<s>>)
                          ELSE Tagged("boards", Scalar(s))

-----------------------------------------------------------------------------
Leaves == {Null, Scalar(1), Array(<<1>>), Array(<<2>>)}
Flat == {Object(m) : m \in [Key -> Leaves \union {Absent}]}
Nested == {Tagged(k, v) : k \in Key, v \in Flat}
MCValues == Leaves \union Flat \union Nested

MCPaths == UNION {[1..n -> Key] : n \in 0..3}
=============================================================================
