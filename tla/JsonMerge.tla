------------------------------ MODULE JsonMerge -----------------------------
(***************************************************************************)
(* DataCollector::merge_values (and ConfigCollector's), which joins what   *)
(* the locations of a field yield, and the loop of extract_field that      *)
(* folds it.  A JSON value is a record: an object with an entry for every  *)
(* key, an array with its items, or anything else.                         *)
(***************************************************************************)
EXTENDS Sequences, Integers

CONSTANTS
  Key,        \* the keys of objects
  Atom,       \* what scalars are, and what arrays hold: nothing looks at it
  MaxDepth    \* how deep objects are nested: serde_json reads 127 levels

ASSUME DepthAssumption == MaxDepth \in Nat \ {0}

Object(m) == [type |-> "object", map |-> m]
Array(s) == [type |-> "array", items |-> s]
Scalar(n) == [type |-> "scalar", value |-> n]
Null == [type |-> "null"]

(* In place of the value of a key that is not in the map. *)
Absent == [type |-> "absent"]

IsObject(v) == v.type = "object"
IsArray(v) == v.type = "array"

Leaf ==
  {Null} \union [type : {"scalar"}, value : Atom]
         \union [type : {"array"}, items : Seq(Atom)]

(* The values with at most depth objects inside each other. *)
Json[depth \in Nat] ==
  IF depth = 0 THEN Leaf
  ELSE Leaf \union [type : {"object"}, map : [Key -> Json[depth - 1] \union {Absent}]]

EmptyObject == Object([k \in Key |-> Absent])

-----------------------------------------------------------------------------
(* One level deep only. *)
MergeEntryShallow(merge, a, b, k) == IF b.map[k] = Absent THEN a.map[k] ELSE b.map[k]

(* The key is inserted with null first, so b is copied over it. *)
MergeEntry(merge, a, b, k) ==
  IF b.map[k] = Absent THEN a.map[k]
  ELSE merge[<<IF a.map[k] = Absent THEN Null ELSE a.map[k], b.map[k]>>]

MergeOne(merge, a, b) ==
  CASE IsObject(a) /\ IsObject(b) -> Object([k \in Key |-> MergeEntry(merge, a, b, k)])
    [] IsArray(a) /\ IsArray(b) -> Array(a.items \o b.items)
    [] OTHER -> b

(* merge_values on values of some depth. *)
MergeTo[depth \in Nat] ==
  [p \in Json[depth] \X Json[depth] |-> MergeOne(MergeTo[depth - 1], p[1], p[2])]

MergeValues(a, b) == MergeTo[MaxDepth][<<a, b>>]

(* extract_field: a tagged value is put under its tag. *)
Tagged(tag, v) == Object([k \in Key |-> IF k = tag THEN v ELSE Absent])

(* What the locations yielded, merged one after another. *)
Joined(found) ==
  LET Response[n \in 0..Len(found)] ==
        IF n = 0 THEN EmptyObject
        ELSE IF found[n] = Absent THEN Response[n - 1]
        ELSE MergeValues(Response[n - 1], found[n])
  IN  Response[Len(found)]

-----------------------------------------------------------------------------
(* The values met when the keys of a path are followed from v. *)
Along(v, path) ==
  LET Node[n \in 0..Len(path)] ==
        IF n = 0 THEN v
        ELSE IF IsObject(Node[n - 1]) THEN Node[n - 1].map[path[n]]
        ELSE Absent
  IN  Node

(* What is found at a path: an object shows only that it is one.           *)
Branch == [type |-> "branch"]
Shown(v) == IF IsObject(v) THEN Branch ELSE v
At(v, path) == Shown(Along(v, path)[Len(path)])

(* The reference: b is laid over a, path by path.  b decides wherever it   *)
(* says anything, but for arrays over arrays; a shows through where b has  *)
(* nothing, unless b has replaced something above it.                      *)
Laid(a, b, path) ==
  LET x == At(a, path)
      y == At(b, path)
      hidden == \E n \in 0..Len(path) - 1 :
                  Shown(Along(b, path)[n]) \notin {Branch, Absent}
  IN CASE IsArray(x) /\ IsArray(y) -> Array(x.items \o y.items)
       [] ~(IsArray(x) /\ IsArray(y)) /\ y # Absent -> y
       [] y = Absent /\ hidden -> Absent
       [] y = Absent /\ ~hidden -> x
=============================================================================
