-------------------------- MODULE CollectorProofs ---------------------------
(***************************************************************************)
(* Safety of a collection, for any commands, fields and locations, any     *)
(* answers and any keys, and what merging does, for values of any depth.   *)
(***************************************************************************)
EXTENDS Collector, WellFoundedInduction, SequenceTheorems, TLAPS

(* Answers belong to the running collection: none is older than it.        *)
ResponsesRecent ==
  /\ since <= state
  /\ \A c \in Command : response[c] \in States => response[c] \in since..state

(* The cache is from before the running collection. *)
CacheOlder ==
  \A c \in Command : cache[c] # Missing =>
    /\ cache[c] <= state
    /\ phase = "collecting" => cache[c] <= since

(* What the end of a collection leaves behind. *)
EndCached ==
  Ended => Waiting = {} /\ \A c \in Answered : cache[c] = response[c]

EndExtracted ==
  Ended => \A f \in fields : CommandsOf[f] \subseteq Answered =>
             results[f] = Extract(f, Told)

EndFromCache == Ended => \A f \in fields : results[f] = Extract(f, cache)

IInv ==
  /\ TypeOK /\ ResponsesRecent /\ CacheOlder
  /\ EndCached /\ EndExtracted /\ EndFromCache

-----------------------------------------------------------------------------
(* Counting up from zero. *)
Inductive(P) == 0 \in P /\ \A n \in Nat : n \in P => n + 1 \in P

LEMMA Counting ==
  ASSUME NEW P, Inductive(P) PROVE \A n \in Nat : n \in P
<1> DEFINE R == OpToRel(<, Nat)
           Out == {n \in Nat : n \notin P}
<1>1. SUFFICES ASSUME Out # {} PROVE FALSE
  OBVIOUS
<1>2. PICK m \in Out : \A n \in Out : ~(<<n, m>> \in R)
  <2>1. Out \subseteq Nat
    OBVIOUS
  <2> HIDE DEF Out
  <2> QED
    BY <1>1, <2>1, NatLessThanWellFounded, WFMin
<1>3. \A n \in Out : ~(n < m)
  <2>1. \A n \in Nat : n < m => <<n, m>> \in R
    BY DEF OpToRel
  <2> HIDE DEF R
  <2> QED
    BY <1>2, <2>1
<1>4. m \in Nat /\ m \notin P
  OBVIOUS
<1>5. m # 0
  BY <1>4 DEF Inductive
<1>6. m - 1 \in Nat /\ m - 1 < m
  BY <1>4, <1>5
<1>7. m - 1 \in P
  BY <1>3, <1>6
<1>8. (m - 1) + 1 \in P
  BY <1>6, <1>7 DEF Inductive
<1>9. (m - 1) + 1 = m
  BY <1>4
<1> QED
  BY <1>4, <1>8, <1>9

(* The recursions of JsonMerge, by what they are of: a level of the        *)
(* values, a level of the merge, a step of a path, a location that is      *)
(* joined.                                                                 *)
Above(lower) ==
  Leaf \union [type : {"object"}, map : [Key -> lower \union {Absent}]]

MergeOf(depth, lower) ==
  [p \in Json[depth] \X Json[depth] |-> MergeOne(lower, p[1], p[2])]

Child(v, k) == IF IsObject(v) THEN v.map[k] ELSE Absent

Start(r) ==
  CASE r.of = "json" -> Leaf
    [] r.of = "merge" -> MergeOf(0, << >>)
    [] r.of = "path" -> r.from
    [] r.of = "join" -> EmptyObject

Step(r, n, before) ==
  CASE r.of = "json" -> Above(before)
    [] r.of = "merge" -> MergeOf(n, before)
    [] r.of = "path" -> Child(before, r.path[n])
    [] r.of = "join" -> IF r.found[n] = Absent THEN before ELSE MergeValues(before, r.found[n])

Unrolled(r, D, g) == [n \in D |-> IF n = 0 THEN Start(r) ELSE Step(r, n, g[n - 1])]

LEMMA UnrolledUpTo ==
  ASSUME NEW r
  PROVE  \A n \in Nat : \E g : g = Unrolled(r, 0..n, g)
<1> DEFINE P == {n \in Nat : \E g : g = Unrolled(r, 0..n, g)}
<1>1. 0 \in P
  <2> DEFINE g == [n \in 0..0 |-> Start(r)]
  <2>1. g = Unrolled(r, 0..0, g)
    BY DEF Unrolled
  <2> QED
    BY <2>1
<1>2. ASSUME NEW n \in Nat, n \in P PROVE n + 1 \in P
  <2>1. PICK g : g = Unrolled(r, 0..n, g)
    BY <1>2
  <2> DEFINE h == Unrolled(r, 0..(n + 1), g)
  <2>2. \A m \in 0..n : h[m] = g[m]
    BY <2>1 DEF Unrolled
  <2>3. \A m \in 0..(n + 1) : m # 0 => h[m - 1] = g[m - 1]
    <3> HIDE DEF h
    <3> QED
      BY <2>2
  <2>4. h = Unrolled(r, 0..(n + 1), h)
    BY <2>3 DEF Unrolled
  <2> HIDE DEF h
  <2>5. n + 1 \in Nat
    OBVIOUS
  <2> QED
    BY <2>4, <2>5
<1>3. Inductive(P)
  BY <1>1, <1>2 DEF Inductive
<1> HIDE DEF P
<1>4. \A n \in Nat : n \in P
  BY <1>3, Counting
<1> QED
  BY <1>4 DEF P

LEMMA UnrolledSame ==
  ASSUME NEW r, NEW n \in Nat, NEW m \in Nat, n <= m,
         NEW g, g = Unrolled(r, 0..n, g), NEW h, h = Unrolled(r, 0..m, h)
  PROVE  \A i \in 0..n : g[i] = h[i]
<1> DEFINE P == {i \in Nat : i \in 0..n => g[i] = h[i]}
<1>0. /\ \A i \in 0..n : g[i] = IF i = 0 THEN Start(r) ELSE Step(r, i, g[i - 1])
      /\ \A i \in 0..n : h[i] = IF i = 0 THEN Start(r) ELSE Step(r, i, h[i - 1])
  BY DEF Unrolled
<1>1. 0 \in P
  BY <1>0
<1>2. ASSUME NEW i \in Nat, i \in P PROVE i + 1 \in P
  <2> SUFFICES ASSUME i + 1 \in 0..n PROVE g[i + 1] = h[i + 1]
    OBVIOUS
  <2>1. g[i] = h[i] /\ i + 1 # 0 /\ (i + 1) - 1 = i
    BY <1>2
  <2> QED
    BY <1>0, <2>1
<1>3. Inductive(P)
  BY <1>1, <1>2 DEF Inductive
<1> HIDE DEF P
<1>4. \A i \in Nat : i \in P
  BY <1>3, Counting
<1> QED
  BY <1>4 DEF P

LEMMA UnrolledExists ==
  ASSUME NEW r
  PROVE  \E g : g = Unrolled(r, Nat, g)
<1> DEFINE Part(n) == CHOOSE h : h = Unrolled(r, 0..n, h)
           g == [n \in Nat |-> Part(n)[n]]
<1>1. \A n \in Nat : Part(n) = Unrolled(r, 0..n, Part(n))
  BY UnrolledUpTo, Zenon
<1> HIDE DEF Part
<1>2. ASSUME NEW n \in Nat PROVE g[n] = IF n = 0 THEN Start(r) ELSE Step(r, n, g[n - 1])
  <2>1. Part(n)[n] = IF n = 0 THEN Start(r) ELSE Step(r, n, Part(n)[n - 1])
    <3> DEFINE h == Part(n)
    <3>1. h = Unrolled(r, 0..n, h)
      BY <1>1
    <3> HIDE DEF h
    <3>2. h[n] = IF n = 0 THEN Start(r) ELSE Step(r, n, h[n - 1])
      BY <3>1 DEF Unrolled
    <3> QED
      BY <3>2 DEF h
  <2>2. CASE n = 0
    BY <2>1, <2>2
  <2>3. CASE n # 0
    <3>1. n - 1 \in Nat /\ n - 1 <= n /\ n - 1 \in 0..(n - 1)
      BY <2>3
    <3>2. Part(n - 1)[n - 1] = Part(n)[n - 1]
      <4> DEFINE m == n - 1
                 before == Part(m)
                 now == Part(n)
      <4>1. before = Unrolled(r, 0..m, before) /\ now = Unrolled(r, 0..n, now)
        BY <1>1, <3>1
      <4>2. m \in Nat /\ m <= n /\ m \in 0..m
        BY <3>1
      <4> HIDE DEF m, before, now
      <4>3. \A i \in 0..m : before[i] = now[i]
        BY <4>1, <4>2, UnrolledSame
      <4> QED
        BY <4>2, <4>3 DEF m, before, now
    <3> QED
      BY <2>1, <2>3, <3>1, <3>2
  <2> QED
    BY <2>2, <2>3
<1>3. g = Unrolled(r, Nat, g)
  BY <1>2 DEF Unrolled
<1> QED
  BY <1>3

LEMMA JsonLevels ==
  Json[0] = Leaf /\ \A n \in Nat : Json[n + 1] = Above(Json[n])
<1> DEFINE r == [of |-> "json"]
           Body(g) == [n \in Nat |-> IF n = 0 THEN Leaf
                         ELSE Leaf \union [type : {"object"}, map : [Key -> g[n - 1] \union {Absent}]]]
<1>1. \E g : g = Body(g)
  <2>1. PICK g : g = Unrolled(r, Nat, g)
    BY UnrolledExists
  <2>2. Unrolled(r, Nat, g) = Body(g)
    BY DEF Unrolled, Start, Step, Above
  <2> QED
    BY <2>1, <2>2
<1>2. Json = CHOOSE g : g = Body(g)
  BY DEF Json
<1>3. Json = Body(Json)
  <2> HIDE DEF Body
  <2> QED
    BY <1>1, <1>2, Zenon
<1>4. \A n \in Nat : Json[n] = IF n = 0 THEN Leaf ELSE Above(Json[n - 1])
  <2> DEFINE B == Body(Json)
  <2>1. \A n \in Nat : B[n] = IF n = 0 THEN Leaf ELSE Above(Json[n - 1])
    BY DEF Above
  <2>2. Json = B
    BY <1>3
  <2> HIDE DEF B
  <2> QED
    BY <2>1, <2>2
<1>5. \A n \in Nat : n + 1 \in Nat /\ n + 1 # 0 /\ (n + 1) - 1 = n
  OBVIOUS
<1> QED
  BY <1>4, <1>5

LEMMA LeavesAreNoObjects == \A v \in Leaf : ~IsObject(v)
BY DEF Leaf, Null, IsObject

LEMMA MergeLevels ==
  /\ MergeTo[0] = MergeOf(0, << >>)
  /\ \A n \in Nat : MergeTo[n + 1] = MergeOf(n + 1, MergeTo[n])
<1> DEFINE r == [of |-> "merge"]
           Body(g) == [depth \in Nat |-> MergeOf(depth, g[depth - 1])]
<1>0. \A lower : MergeOf(0, lower) = MergeOf(0, << >>)
  <2> SUFFICES ASSUME NEW lower PROVE MergeOf(0, lower) = MergeOf(0, << >>)
    OBVIOUS
  <2>1. \A p \in Json[0] \X Json[0] : ~IsObject(p[1])
    BY JsonLevels, LeavesAreNoObjects
  <2> QED
    BY <2>1 DEF MergeOf, MergeOne
<1>1. \E g : g = Body(g)
  <2>1. PICK g : g = Unrolled(r, Nat, g)
    BY UnrolledExists
  <2>2. \A n \in Nat : (IF n = 0 THEN Start(r) ELSE Step(r, n, g[n - 1])) = MergeOf(n, g[n - 1])
    BY <1>0 DEF Start, Step
  <2>3. Unrolled(r, Nat, g) = Body(g)
    BY <2>2 DEF Unrolled
  <2> QED
    BY <2>1, <2>3
<1>2. MergeTo = CHOOSE g : g = Body(g)
  BY DEF MergeTo, MergeOf
<1>3. MergeTo = Body(MergeTo)
  <2> HIDE DEF Body
  <2> QED
    BY <1>1, <1>2, Zenon
<1>4. \A n \in Nat : MergeTo[n] = MergeOf(n, MergeTo[n - 1])
  <2> DEFINE B == Body(MergeTo)
  <2>1. \A n \in Nat : B[n] = MergeOf(n, MergeTo[n - 1])
    OBVIOUS
  <2>2. MergeTo = B
    BY <1>3
  <2> HIDE DEF B
  <2> QED
    BY <2>1, <2>2
<1>5. \A n \in Nat : n + 1 \in Nat /\ (n + 1) - 1 = n
  OBVIOUS
<1> QED
  BY <1>0, <1>4, <1>5

LEMMA AlongPath ==
  ASSUME NEW v, NEW path \in Seq(Key)
  PROVE  /\ Along(v, path)[0] = v
         /\ \A n \in 1..Len(path) : Along(v, path)[n] = Child(Along(v, path)[n - 1], path[n])
<1> DEFINE r == [of |-> "path", from |-> v, path |-> path]
           Body(g) == [n \in 0..Len(path) |->
                         IF n = 0 THEN v
                         ELSE IF IsObject(g[n - 1]) THEN g[n - 1].map[path[n]]
                         ELSE Absent]
           it == Along(v, path)
<1>1. \E g : g = Body(g)
  <2>1. PICK g : g = Unrolled(r, 0..Len(path), g)
    <3>1. Len(path) \in Nat
      OBVIOUS
    <3> HIDE DEF r
    <3> QED
      BY <3>1, UnrolledUpTo
  <2>2. Unrolled(r, 0..Len(path), g) = Body(g)
    BY DEF Unrolled, Start, Step, Child
  <2> QED
    BY <2>1, <2>2
<1>2. it = CHOOSE g : g = Body(g)
  BY DEF Along
<1> HIDE DEF it
<1>3. it = Body(it)
  <2> HIDE DEF Body
  <2> QED
    BY <1>1, <1>2, Zenon
<1>4. it[0] = v /\ \A n \in 1..Len(path) : it[n] = Child(it[n - 1], path[n])
  <2> DEFINE B == Body(it)
  <2>1. B[0] = v /\ \A n \in 1..Len(path) : B[n] = Child(it[n - 1], path[n])
    BY DEF Child
  <2>2. it = B
    BY <1>3
  <2> HIDE DEF B
  <2> QED
    BY <2>1, <2>2
<1> QED
  BY <1>4 DEF it

-----------------------------------------------------------------------------
LEMMA Kinds ==
  /\ Null \in Leaf /\ Absent \notin Leaf /\ ~IsObject(Absent) /\ ~IsArray(Absent)
  /\ ~IsObject(Null) /\ ~IsArray(Null)
  /\ \A v \in Leaf : ~IsObject(v) /\ v # Branch /\ v # Absent
  /\ \A m : IsObject(Object(m)) /\ Object(m).map = m /\ ~IsArray(Object(m)) /\ Object(m) # Absent
  /\ \A s : IsArray(Array(s)) /\ ~IsObject(Array(s)) /\ Array(s) # Absent
  /\ ~IsArray(Branch) /\ Branch # Absent
BY DEF Leaf, Null, Absent, Branch, Object, Array, IsObject, IsArray

(* What a value may be, and what it may hold. *)
LEMMA JsonValues ==
  ASSUME NEW n \in Nat, NEW v \in Json[n]
  PROVE  /\ v # Absent
         /\ ~IsObject(v) => v \in Leaf
         /\ IsObject(v) => /\ n # 0
                          /\ v = Object(v.map) /\ ~IsArray(v)
                          /\ v.map \in [Key -> Json[n - 1] \union {Absent}]
<1>1. CASE v \in Leaf
  BY <1>1, Kinds
<1>2. CASE v \notin Leaf
  <2>1. n # 0
    BY <1>2, JsonLevels
  <2>2. n - 1 \in Nat /\ (n - 1) + 1 = n
    BY <2>1
  <2>3. v \in Above(Json[n - 1])
    BY <2>2, JsonLevels
  <2>4. v \in [type : {"object"}, map : [Key -> Json[n - 1] \union {Absent}]]
    BY <1>2, <2>3 DEF Above
  <2> QED
    BY <2>1, <2>4 DEF IsObject, IsArray, Object, Absent
<1> QED
  BY <1>1, <1>2

LEMMA LeavesAreValues == ASSUME NEW n \in Nat PROVE Leaf \subseteq Json[n]
<1>1. CASE n = 0
  BY <1>1, JsonLevels
<1>2. CASE n # 0
  <2>1. n - 1 \in Nat /\ (n - 1) + 1 = n
    BY <1>2
  <2>2. Json[n] = Above(Json[n - 1])
    BY <2>1, JsonLevels
  <2> QED
    BY <2>2 DEF Above
<1> QED
  BY <1>1, <1>2

(* One step of the merge. *)
LEMMA MergeStep ==
  ASSUME NEW n \in Nat, NEW a \in Json[n], NEW b \in Json[n]
  PROVE  /\ IsObject(a) /\ IsObject(b) =>
              MergeTo[n][<<a, b>>]
                = Object([k \in Key |-> MergeEntry(MergeTo[n - 1], a, b, k)])
         /\ IsArray(a) /\ IsArray(b) =>
              MergeTo[n][<<a, b>>] = Array(a.items \o b.items)
         /\ ~(IsObject(a) /\ IsObject(b)) /\ ~(IsArray(a) /\ IsArray(b)) =>
              MergeTo[n][<<a, b>>] = b
<1> DEFINE v == MergeTo[n][<<a, b>>]
<1>1. n # 0 => MergeTo[n] = MergeOf(n, MergeTo[n - 1])
  <2> SUFFICES ASSUME n # 0 PROVE MergeTo[n] = MergeOf(n, MergeTo[n - 1])
    OBVIOUS
  <2>1. n - 1 \in Nat /\ (n - 1) + 1 = n
    OBVIOUS
  <2> QED
    BY <2>1, MergeLevels
<1>2. IsObject(a) => n # 0
  BY JsonValues
<1>3. PICK lower : /\ MergeTo[n] = MergeOf(n, lower)
                   /\ n # 0 => lower = MergeTo[n - 1]
  BY <1>1, MergeLevels
<1>4. v = MergeOne(lower, a, b)
  <2>1. <<a, b>> \in Json[n] \X Json[n] /\ <<a, b>>[1] = a /\ <<a, b>>[2] = b
    OBVIOUS
  <2> QED
    BY <1>3, <2>1 DEF MergeOf
<1>5. ~(IsObject(a) /\ IsArray(a))
  BY DEF IsObject, IsArray
<1> QED
  BY <1>2, <1>3, <1>4, <1>5 DEF MergeOne

-----------------------------------------------------------------------------
(* Merging leaves the values of a depth in that depth. *)
LEMMA MergeTyped ==
  \A n \in Nat : \A a, b \in Json[n] : MergeTo[n][<<a, b>>] \in Json[n]
<1> DEFINE P == {n \in Nat : \A a, b \in Json[n] : MergeTo[n][<<a, b>>] \in Json[n]}
<1>1. ASSUME NEW n \in Nat, n # 0 => n - 1 \in P, NEW a \in Json[n], NEW b \in Json[n]
      PROVE  MergeTo[n][<<a, b>>] \in Json[n]
  <2> DEFINE v == MergeTo[n][<<a, b>>]
  <2>1. CASE IsObject(a) /\ IsObject(b)
    <3>1. /\ n # 0 /\ a.map \in [Key -> Json[n - 1] \union {Absent}]
          /\ b.map \in [Key -> Json[n - 1] \union {Absent}]
      BY <2>1, JsonValues
    <3>2. v = Object([k \in Key |-> MergeEntry(MergeTo[n - 1], a, b, k)])
      BY <2>1, MergeStep
    <3>3. n - 1 \in Nat /\ (n - 1) + 1 = n /\ n - 1 \in P
      BY <1>1, <3>1
    <3>4. ASSUME NEW k \in Key
          PROVE  MergeEntry(MergeTo[n - 1], a, b, k) \in Json[n - 1] \union {Absent}
      <4>1. CASE b.map[k] = Absent
        BY <3>1, <4>1 DEF MergeEntry
      <4>2. CASE b.map[k] # Absent
        <5> DEFINE x == IF a.map[k] = Absent THEN Null ELSE a.map[k]
                   y == b.map[k]
        <5>1. x \in Json[n - 1] /\ y \in Json[n - 1]
          BY <3>1, <3>3, <4>2, LeavesAreValues, Kinds
        <5>2. MergeEntry(MergeTo[n - 1], a, b, k) = MergeTo[n - 1][<<x, y>>]
          BY <4>2 DEF MergeEntry
        <5> HIDE DEF x, y
        <5> QED
          BY <3>3, <5>1, <5>2
      <4> QED
        BY <4>1, <4>2
    <3>5. v \in Above(Json[n - 1])
      BY <3>2, <3>4 DEF Above, Object
    <3>6. Json[n] = Above(Json[n - 1])
      BY <3>3, JsonLevels
    <3> QED
      BY <3>5, <3>6
  <2>2. CASE IsArray(a) /\ IsArray(b)
    <3>1. ~IsObject(a) /\ ~IsObject(b)
      BY <2>2 DEF IsArray, IsObject
    <3>2. a \in Leaf /\ b \in Leaf
      BY <3>1, JsonValues
    <3>3. a.items \in Seq(Atom) /\ b.items \in Seq(Atom)
      BY <2>2, <3>2 DEF Leaf, IsArray, Null
    <3>4. a.items \o b.items \in Seq(Atom)
      BY <3>3
    <3>5. Array(a.items \o b.items) \in Leaf
      BY <3>4 DEF Leaf, Array
    <3>6. v = Array(a.items \o b.items)
      BY <2>2, MergeStep
    <3> QED
      BY <3>5, <3>6, LeavesAreValues
  <2>3. CASE ~(IsObject(a) /\ IsObject(b)) /\ ~(IsArray(a) /\ IsArray(b))
    <3> HIDE DEF P
    <3>1. v = b
      BY <2>3, MergeStep
    <3> QED
      BY <3>1
  <2> QED
    BY <2>1, <2>2, <2>3
<1>2. 0 \in P
  BY <1>1
<1>3. ASSUME NEW n \in Nat, n \in P PROVE n + 1 \in P
  <2>1. n + 1 \in Nat /\ (n + 1) - 1 = n
    OBVIOUS
  <2> QED
    BY <1>1, <1>3, <2>1
<1>4. Inductive(P)
  BY <1>2, <1>3 DEF Inductive
<1> HIDE DEF P
<1>5. \A n \in Nat : n \in P
  BY <1>4, Counting
<1> QED
  BY <1>5 DEF P

(* The response of extract_field as one location after another is joined.  *)
Responses(found, it) ==
  /\ it[Len(found)] = Joined(found)
  /\ \A n \in 0..Len(found) :
       it[n] = IF n = 0 THEN EmptyObject
               ELSE IF found[n] = Absent THEN it[n - 1]
               ELSE MergeValues(it[n - 1], found[n])

LEMMA JoinedUnfold ==
  ASSUME NEW S, NEW found \in Seq(S) PROVE \E it : Responses(found, it)
<1> DEFINE r == [of |-> "join", found |-> found]
           Body(g) == [n \in 0..Len(found) |->
                         IF n = 0 THEN EmptyObject
                         ELSE IF found[n] = Absent THEN g[n - 1]
                         ELSE MergeValues(g[n - 1], found[n])]
           it == CHOOSE g : g = Body(g)
<1>0. Len(found) \in Nat
  OBVIOUS
<1>1. \E g : g = Body(g)
  <2>1. PICK g : g = Unrolled(r, 0..Len(found), g)
    <3> HIDE DEF r
    <3> QED
      BY <1>0, UnrolledUpTo
  <2>2. Unrolled(r, 0..Len(found), g) = Body(g)
    BY DEF Unrolled, Start, Step
  <2> QED
    BY <2>1, <2>2
<1>2. Joined(found) = it[Len(found)]
  BY DEF Joined
<1>3. it = Body(it)
  <2> HIDE DEF Body
  <2> QED
    BY <1>1, Zenon
<1> HIDE DEF it
<1>4. \A n \in 0..Len(found) :
        it[n] = IF n = 0 THEN EmptyObject
                ELSE IF found[n] = Absent THEN it[n - 1]
                ELSE MergeValues(it[n - 1], found[n])
  BY <1>3
<1> QED
  BY <1>2, <1>4 DEF Responses

(* What is joined is a JSON value as deep as its parts, at every moment.   *)
LEMMA ResponsesTyped ==
  ASSUME NEW found \in Seq(Json[MaxDepth] \union {Absent}), NEW it, Responses(found, it)
  PROVE  \A n \in 0..Len(found) : it[n] \in Json[MaxDepth]
<1> DEFINE P == {n \in Nat : n <= Len(found) => it[n] \in Json[MaxDepth]}
<1>0. Len(found) \in Nat /\ MaxDepth \in Nat
  BY DepthAssumption
<1>1. \A n \in 0..Len(found) :
        it[n] = IF n = 0 THEN EmptyObject
                ELSE IF found[n] = Absent THEN it[n - 1]
                ELSE MergeValues(it[n - 1], found[n])
  BY DEF Responses
<1>2. 0 \in P
  <2>1. MaxDepth - 1 \in Nat /\ (MaxDepth - 1) + 1 = MaxDepth
    BY DepthAssumption
  <2>2. Json[MaxDepth] = Above(Json[MaxDepth - 1])
    BY <2>1, JsonLevels
  <2>3. EmptyObject \in Above(Json[MaxDepth - 1])
    BY DEF EmptyObject, Object, Above
  <2> QED
    BY <1>0, <1>1, <2>2, <2>3
<1>3. ASSUME NEW n \in Nat, n \in P PROVE n + 1 \in P
  <2> SUFFICES ASSUME n + 1 <= Len(found) PROVE it[n + 1] \in Json[MaxDepth]
    OBVIOUS
  <2>1. n + 1 \in 0..Len(found) /\ n + 1 # 0 /\ (n + 1) - 1 = n /\ it[n] \in Json[MaxDepth]
    BY <1>0, <1>3
  <2>2. found[n + 1] \in Json[MaxDepth] \union {Absent}
    BY <2>1
  <2>3. found[n + 1] # Absent => MergeValues(it[n], found[n + 1]) \in Json[MaxDepth]
    BY <1>0, <2>1, <2>2, MergeTyped DEF MergeValues
  <2> QED
    BY <1>1, <2>1, <2>3
<1>4. Inductive(P)
  BY <1>2, <1>3 DEF Inductive
<1> HIDE DEF P
<1>5. \A n \in Nat : n \in P
  BY <1>4, Counting
<1> QED
  BY <1>0, <1>5 DEF P

LEMMA JoinedTyped ==
  ASSUME NEW found \in Seq(Json[MaxDepth] \union {Absent})
  PROVE  Joined(found) \in Json[MaxDepth]
<1>1. PICK it : Responses(found, it)
  BY JoinedUnfold
<1>2. Len(found) \in 0..Len(found)
  OBVIOUS
<1> QED
  BY <1>1, <1>2, ResponsesTyped DEF Responses

(* Where the three walks along a path can stand after n keys: where both   *)
(* values have something, where only a has and b has replaced nothing      *)
(* above, where only b has, and below something that b has replaced.       *)
Hidden(B, n) == \E m \in 0..n - 1 : Shown(B[m]) \notin {Branch, Absent}

BothStand(top, A, B, M, n) ==
  /\ n <= top /\ A[n] \in Json[top - n] /\ B[n] \in Json[top - n]
  /\ M[n] = MergeTo[top - n][<<A[n], B[n]>>]
  /\ ~Hidden(B, n)

Stand(top, A, B, M, n) ==
  \/ BothStand(top, A, B, M, n)
  \/ B[n] = Absent /\ ~Hidden(B, n) /\ M[n] = A[n]
  \/ A[n] = Absent /\ M[n] = B[n]
  \/ B[n] = Absent /\ Hidden(B, n) /\ M[n] = Absent

LEMMA HiddenNext ==
  ASSUME NEW n \in Nat, NEW B
  PROVE  Hidden(B, n + 1) <=> Hidden(B, n) \/ Shown(B[n]) \notin {Branch, Absent}
<1>1. \A m : m \in 0..(n + 1) - 1 <=> m \in 0..n - 1 \/ m = n
  OBVIOUS
<1> QED
  BY <1>1 DEF Hidden

LEMMA StandNext ==
  ASSUME NEW top \in Nat, NEW n \in Nat, NEW k \in Key, NEW A, NEW B, NEW M,
         A[n + 1] = Child(A[n], k), B[n + 1] = Child(B[n], k), M[n + 1] = Child(M[n], k),
         Stand(top, A, B, M, n)
  PROVE  Stand(top, A, B, M, n + 1)
<1>0. \A v : Shown(v) \notin {Branch, Absent} <=> ~IsObject(v) /\ v # Branch /\ v # Absent
  BY DEF Shown
<1>1. CASE B[n] = Absent /\ ~Hidden(B, n) /\ M[n] = A[n]
  <2>1. B[n + 1] = Absent /\ M[n + 1] = A[n + 1]
    BY <1>1, Kinds DEF Child
  <2>2. ~Hidden(B, n + 1)
    BY <1>0, <1>1, HiddenNext
  <2> QED
    BY <2>1, <2>2 DEF Stand
<1>2. CASE A[n] = Absent /\ M[n] = B[n]
  <2>1. A[n + 1] = Absent /\ M[n + 1] = B[n + 1]
    BY <1>2, Kinds DEF Child
  <2> QED
    BY <2>1 DEF Stand
<1>3. CASE B[n] = Absent /\ Hidden(B, n) /\ M[n] = Absent
  <2>1. B[n + 1] = Absent /\ M[n + 1] = Absent
    BY <1>3, Kinds DEF Child
  <2>2. Hidden(B, n + 1)
    BY <1>3, HiddenNext
  <2> QED
    BY <2>1, <2>2 DEF Stand
<1>4. CASE BothStand(top, A, B, M, n)
  <2> DEFINE d == top - n
             a == A[n]
             b == B[n]
             v == M[n]
  <2>1. d \in Nat /\ a \in Json[d] /\ b \in Json[d] /\ v = MergeTo[d][<<a, b>>] /\ ~Hidden(B, n)
    BY <1>4 DEF BothStand
  <2>2. /\ A[n + 1] = Child(a, k) /\ B[n + 1] = Child(b, k) /\ M[n + 1] = Child(v, k)
        /\ Hidden(B, n + 1) <=> Shown(b) \notin {Branch, Absent}
    BY <2>1, HiddenNext
  <2>3. top - n = d /\ top - (n + 1) = d - 1 /\ (d # 0 => n + 1 <= top)
    BY <2>1
  <2> HIDE DEF d, a, b, v
  <2>4. CASE IsObject(a) /\ IsObject(b)
    <3>1. /\ d # 0 /\ b = Object(b.map)
          /\ a.map \in [Key -> Json[d - 1] \union {Absent}]
          /\ b.map \in [Key -> Json[d - 1] \union {Absent}]
      BY <2>1, <2>4, JsonValues
    <3>2. v = Object([j \in Key |-> MergeEntry(MergeTo[d - 1], a, b, j)])
      BY <2>1, <2>4, MergeStep
    <3>3. M[n + 1] = MergeEntry(MergeTo[d - 1], a, b, k)
      BY <2>2, <3>2, Kinds DEF Child
    <3>4. A[n + 1] = a.map[k] /\ B[n + 1] = b.map[k]
      BY <2>2, <2>4 DEF Child
    <3>5. ~Hidden(B, n + 1)
      BY <2>2, <2>4 DEF Shown
    <3>6. CASE b.map[k] = Absent
      BY <3>3, <3>4, <3>5, <3>6 DEF Stand, MergeEntry
    <3>7. CASE b.map[k] # Absent /\ a.map[k] # Absent
      <4>1. M[n + 1] = MergeTo[d - 1][<<a.map[k], b.map[k]>>]
        BY <3>3, <3>7 DEF MergeEntry
      <4>2. a.map[k] \in Json[d - 1] /\ b.map[k] \in Json[d - 1]
        BY <3>1, <3>7
      <4>3. BothStand(top, A, B, M, n + 1)
        BY <2>3, <3>1, <3>4, <3>5, <4>1, <4>2 DEF BothStand
      <4> QED
        BY <4>3 DEF Stand
    <3>8. CASE b.map[k] # Absent /\ a.map[k] = Absent
      <4>1. M[n + 1] = MergeTo[d - 1][<<Null, b.map[k]>>]
        BY <3>3, <3>8 DEF MergeEntry
      <4>2. b.map[k] \in Json[d - 1] /\ d - 1 \in Nat
        BY <2>1, <3>1, <3>8
      <4>3. Null \in Json[d - 1] /\ ~IsObject(Null) /\ ~IsArray(Null)
        BY <4>2, LeavesAreValues, Kinds
      <4>4. M[n + 1] = b.map[k]
        BY <4>1, <4>2, <4>3, MergeStep
      <4> QED
        BY <3>4, <3>8, <4>4 DEF Stand
    <3> QED
      BY <3>6, <3>7, <3>8
  <2>5. CASE IsArray(a) /\ IsArray(b)
    <3>1. ~IsObject(a) /\ ~IsObject(b)
      BY <2>5 DEF IsObject, IsArray
    <3>2. v = Array(a.items \o b.items)
      BY <2>1, <2>5, MergeStep
    <3>3. B[n + 1] = Absent /\ M[n + 1] = Absent
      BY <2>2, <3>1, <3>2, Kinds DEF Child
    <3>4. Hidden(B, n + 1)
      <4>1. b \in Leaf
        BY <2>1, <3>1, JsonValues
      <4> QED
        BY <1>0, <2>2, <4>1, Kinds
    <3> QED
      BY <3>3, <3>4 DEF Stand
  <2>6. CASE ~(IsObject(a) /\ IsObject(b)) /\ ~(IsArray(a) /\ IsArray(b))
    <3>1. v = b
      BY <2>1, <2>6, MergeStep
    <3>2. M[n + 1] = B[n + 1]
      BY <2>2, <3>1
    <3>3. CASE IsObject(b)
      <4>1. A[n + 1] = Absent
        BY <2>2, <2>6, <3>3 DEF Child
      <4> QED
        BY <3>2, <4>1 DEF Stand
    <3>4. CASE ~IsObject(b)
      <4>1. B[n + 1] = Absent
        BY <2>2, <3>4 DEF Child
      <4>2. Hidden(B, n + 1)
        <5>1. b \in Leaf
          BY <2>1, <3>4, JsonValues
        <5> QED
          BY <1>0, <2>2, <5>1, Kinds
      <4> QED
        BY <3>2, <4>1, <4>2 DEF Stand
    <3> QED
      BY <3>3, <3>4
  <2> QED
    BY <2>4, <2>5, <2>6
<1> QED
  BY <1>1, <1>2, <1>3, <1>4 DEF Stand

LEMMA StandAlong ==
  ASSUME NEW top \in Nat, NEW a \in Json[top], NEW b \in Json[top], NEW path \in Seq(Key),
         NEW A, A = Along(a, path), NEW B, B = Along(b, path),
         NEW M, M = Along(MergeTo[top][<<a, b>>], path)
  PROVE  Stand(top, A, B, M, Len(path))
<1> DEFINE P == {n \in Nat : n <= Len(path) => Stand(top, A, B, M, n)}
<1>0. Len(path) \in Nat
  OBVIOUS
<1>1. 0 \in P
  <2>1. A[0] = a /\ B[0] = b /\ M[0] = MergeTo[top][<<a, b>>]
    BY AlongPath
  <2>2. ~Hidden(B, 0)
    BY DEF Hidden
  <2>3. BothStand(top, A, B, M, 0)
    BY <2>1, <2>2 DEF BothStand
  <2> QED
    BY <2>3 DEF Stand
<1>2. ASSUME NEW n \in Nat, n \in P PROVE n + 1 \in P
  <2> SUFFICES ASSUME n + 1 <= Len(path) PROVE Stand(top, A, B, M, n + 1)
    OBVIOUS
  <2> DEFINE k == path[n + 1]
  <2>1. n + 1 \in 1..Len(path) /\ (n + 1) - 1 = n /\ k \in Key
    BY <1>0
  <2>2. /\ A[n + 1] = Child(A[n], k) /\ B[n + 1] = Child(B[n], k)
        /\ M[n + 1] = Child(M[n], k)
    BY <2>1, AlongPath
  <2>3. Stand(top, A, B, M, n)
    BY <1>0, <1>2
  <2> HIDE DEF k
  <2> QED
    BY <2>1, <2>2, <2>3, StandNext
<1>3. Inductive(P)
  BY <1>1, <1>2 DEF Inductive
<1> HIDE DEF P
<1>4. Len(path) \in P
  BY <1>0, <1>3, Counting
<1> QED
  BY <1>0, <1>4 DEF P

(* What the merge of two values shows at a path. *)
LEMMA MergeOverlays ==
  ASSUME NEW a \in Json[MaxDepth], NEW b \in Json[MaxDepth], NEW path \in Seq(Key)
  PROVE  At(MergeValues(a, b), path) = Laid(a, b, path)
<1> DEFINE A == Along(a, path)
           B == Along(b, path)
           M == Along(MergeTo[MaxDepth][<<a, b>>], path)
           n == Len(path)
           x == At(a, path)
           y == At(b, path)
<1>1. Stand(MaxDepth, A, B, M, n)
  <2>1. MaxDepth \in Nat
    BY DepthAssumption
  <2> HIDE DEF A, B, M
  <2> QED
    BY <2>1, StandAlong DEF A, B, M
<1>2. x = Shown(A[n]) /\ y = Shown(B[n]) /\ At(MergeValues(a, b), path) = Shown(M[n])
  BY DEF At, MergeValues
<1>3. Laid(a, b, path) =
        CASE IsArray(x) /\ IsArray(y) -> Array(x.items \o y.items)
          [] ~(IsArray(x) /\ IsArray(y)) /\ y # Absent -> y
          [] y = Absent /\ Hidden(B, n) -> Absent
          [] y = Absent /\ ~Hidden(B, n) -> x
  BY DEF Laid, Hidden
<1> HIDE DEF A, B, M, n, x, y
<1>4. Shown(Absent) = Absent
  BY Kinds DEF Shown
<1>5. CASE B[n] = Absent /\ ~Hidden(B, n) /\ M[n] = A[n]
  <2>1. y = Absent
    BY <1>2, <1>4, <1>5
  <2>2. ~IsArray(y)
    BY <2>1, Kinds
  <2>3. Laid(a, b, path) = x
    BY <1>3, <1>5, <2>1, <2>2
  <2> QED
    BY <1>2, <1>5, <2>3
<1>6. CASE A[n] = Absent /\ M[n] = B[n]
  <2>1. x = Absent
    BY <1>2, <1>4, <1>6
  <2>2. ~IsArray(x)
    BY <2>1, Kinds
  <2>3. Laid(a, b, path) = y
    BY <1>3, <2>1, <2>2
  <2> QED
    BY <1>2, <1>6, <2>3
<1>7. CASE B[n] = Absent /\ Hidden(B, n) /\ M[n] = Absent
  <2>1. y = Absent
    BY <1>2, <1>4, <1>7
  <2>2. ~IsArray(y)
    BY <2>1, Kinds
  <2>3. Laid(a, b, path) = Absent
    BY <1>3, <1>7, <2>1, <2>2
  <2> QED
    BY <1>2, <1>4, <1>7, <2>3
<1>8. CASE BothStand(MaxDepth, A, B, M, n)
  <2> DEFINE d == MaxDepth - n
             v == A[n]
             w == B[n]
             m == M[n]
  <2>1. d \in Nat /\ v \in Json[d] /\ w \in Json[d] /\ m = MergeTo[d][<<v, w>>]
    <3>1. MaxDepth \in Nat /\ n \in Nat
      BY DepthAssumption DEF n
    <3> QED
      BY <1>8, <3>1 DEF BothStand
  <2>2. x = Shown(v) /\ y = Shown(w) /\ At(MergeValues(a, b), path) = Shown(m)
    BY <1>2
  <2> HIDE DEF d, v, w, m
  <2>3. y # Absent
    BY <2>1, <2>2, JsonValues, Kinds DEF Shown
  <2>4. CASE IsArray(v) /\ IsArray(w)
    <3>1. m = Array(v.items \o w.items)
      BY <2>1, <2>4, MergeStep
    <3>2. ~IsObject(v) /\ ~IsObject(w)
      BY <2>4 DEF IsArray, IsObject
    <3>3. x = v /\ y = w /\ Shown(m) = m
      BY <2>2, <3>1, <3>2, Kinds DEF Shown
    <3>4. Laid(a, b, path) = Array(x.items \o y.items)
      BY <1>3, <2>3, <2>4, <3>3
    <3> QED
      BY <2>2, <3>1, <3>3, <3>4
  <2>5. CASE ~(IsArray(v) /\ IsArray(w))
    <3>1. ~(IsArray(x) /\ IsArray(y))
      BY <2>2, <2>5, Kinds DEF Shown
    <3>2. Laid(a, b, path) = y
      BY <1>3, <2>3, <3>1
    <3>3. CASE IsObject(v) /\ IsObject(w)
      <4>1. m = Object([k \in Key |-> MergeEntry(MergeTo[d - 1], v, w, k)])
        BY <2>1, <3>3, MergeStep
      <4>2. IsObject(m)
        BY <4>1, Kinds
      <4> QED
        BY <2>2, <3>2, <3>3, <4>2 DEF Shown
    <3>4. CASE ~(IsObject(v) /\ IsObject(w))
      <4>1. m = w
        BY <2>1, <2>5, <3>4, MergeStep
      <4> QED
        BY <2>2, <3>2, <4>1
    <3> QED
      BY <3>3, <3>4
  <2> QED
    BY <2>4, <2>5
<1> QED
  BY <1>1, <1>5, <1>6, <1>7, <1>8 DEF Stand

(* A location has nothing to say at a path. *)
Silent(v, path) == At(v, path) = Absent /\ ~Hidden(Along(v, path), Len(path))

(* What a location says at a path is what the field has there, unless a    *)
(* later location says something there or above: the last one decides, and *)
(* nothing that was collected is lost to locations that say nothing of it. *)
(* (Arrays are left out, for they are joined.)                             *)
Decides(found, last, path) ==
  /\ found[last] # Absent
  /\ At(found[last], path) # Absent /\ ~IsArray(At(found[last], path))
  /\ \A n \in last + 1..Len(found) : found[n] = Absent \/ Silent(found[n], path)

LEMMA LastLocationDecides ==
  ASSUME NEW found \in Seq(Json[MaxDepth] \union {Absent}), NEW path \in Seq(Key),
         NEW last \in 1..Len(found), Decides(found, last, path)
  PROVE  At(Joined(found), path) = At(found[last], path)
<1>0. /\ found[last] # Absent /\ At(found[last], path) # Absent
      /\ ~IsArray(At(found[last], path))
      /\ \A n \in last + 1..Len(found) : found[n] = Absent \/ Silent(found[n], path)
  BY DEF Decides
<1>1. PICK it : Responses(found, it)
  BY JoinedUnfold
<1>2. /\ it[Len(found)] = Joined(found)
      /\ \A n \in 1..Len(found) :
           it[n] = IF found[n] = Absent THEN it[n - 1] ELSE MergeValues(it[n - 1], found[n])
  BY <1>1 DEF Responses
<1>3. /\ \A n \in 0..Len(found) : it[n] \in Json[MaxDepth]
      /\ \A n \in 1..Len(found) : found[n] \in Json[MaxDepth] \union {Absent}
      /\ Len(found) \in Nat
  BY <1>1, ResponsesTyped
<1>4. ASSUME NEW n \in 1..Len(found), found[n] # Absent
      PROVE  At(it[n], path) = Laid(it[n - 1], found[n], path)
  <2>1. n - 1 \in 0..Len(found)
    OBVIOUS
  <2>2. it[n - 1] \in Json[MaxDepth] /\ found[n] \in Json[MaxDepth]
    BY <1>3, <1>4, <2>1
  <2> QED
    BY <1>2, <1>4, <2>2, MergeOverlays
<1>5. At(it[last], path) = At(found[last], path)
  <2>1. At(it[last], path) = Laid(it[last - 1], found[last], path)
    BY <1>0, <1>4
  <2> QED
    BY <1>0, <2>1 DEF Laid
<1> DEFINE P == {n \in Nat : last <= n /\ n <= Len(found) =>
                                At(it[n], path) = At(found[last], path)}
<1>6. 0 \in P
  OBVIOUS
<1>7. ASSUME NEW n \in Nat, n \in P PROVE n + 1 \in P
  <2> SUFFICES ASSUME last <= n + 1, n + 1 <= Len(found)
               PROVE  At(it[n + 1], path) = At(found[last], path)
    OBVIOUS
  <2>1. CASE last = n + 1
    BY <1>5, <2>1
  <2>2. CASE last # n + 1
    <3>1. last <= n /\ n <= Len(found) /\ n + 1 \in 1..Len(found) /\ (n + 1) - 1 = n
          /\ n + 1 \in last + 1..Len(found)
      BY <2>2, <1>3
    <3>2. At(it[n], path) = At(found[last], path)
      BY <1>7, <3>1
    <3>3. CASE found[n + 1] = Absent
      BY <1>2, <3>1, <3>2, <3>3
    <3>4. CASE found[n + 1] # Absent
      <4>1. At(it[n + 1], path) = Laid(it[n], found[n + 1], path)
        BY <1>4, <3>1, <3>4
      <4>2. Silent(found[n + 1], path)
        BY <1>0, <3>1, <3>4
      <4>3. ~IsArray(Absent)
        BY Kinds
      <4>4. Laid(it[n], found[n + 1], path) = At(it[n], path)
        BY <4>2, <4>3 DEF Laid, Silent, Hidden
      <4> QED
        BY <3>2, <4>1, <4>4
    <3> QED
      BY <3>3, <3>4
  <2> QED
    BY <2>1, <2>2
<1>8. Inductive(P)
  BY <1>6, <1>7 DEF Inductive
<1> HIDE DEF P
<1>9. Len(found) \in P
  BY <1>3, <1>8, Counting
<1>10. last <= Len(found)
  OBVIOUS
<1> QED
  BY <1>2, <1>3, <1>9, <1>10 DEF P

-----------------------------------------------------------------------------
LEMMA LocationsAreCommands ==
  ASSUME NEW f \in Field
  PROVE  /\ CommandsOf[f] = {Locations[f][n] : n \in DOMAIN Locations[f]}
         /\ CommandsOf[f] \subseteq Command
         /\ Len(Locations[f]) \in Nat /\ DOMAIN Locations[f] = 1..Len(Locations[f])
<1>1. Locations[f] \in Seq(Command)
  BY LocationsAssumption
<1> QED
  BY <1>1 DEF CommandsOf

LEMMA RequiredAreCommands == TypeOK => Required \subseteq Command
BY LocationsAreCommands DEF TypeOK, Required

(* The answers that end up cached are numbers, so the new cache is typed,  *)
(* and it holds this collection's answer for every command that answered.  *)
LEMMA CachedType ==
  TypeOK => /\ Cached \in [Command -> States \union {Missing}]
            /\ \A c \in Answered : c \in Command /\ response[c] \in States
            /\ \A c \in Answered : Cached[c] = response[c]
            /\ \A c \in Command : c \notin Answered => Cached[c] = cache[c]
<1> SUFFICES ASSUME TypeOK
             PROVE  /\ Cached \in [Command -> States \union {Missing}]
                    /\ \A c \in Answered : c \in Command /\ response[c] \in States
                    /\ \A c \in Answered : Cached[c] = response[c]
                    /\ \A c \in Command : c \notin Answered => Cached[c] = cache[c]
    OBVIOUS
<1>1. \A c \in Answered : c \in Command /\ response[c] \in States
  BY RequiredAreCommands DEF Answered, TypeOK
<1> QED
  BY <1>1 DEF Cached, TypeOK

LEMMA ToldType == TypeOK => Told \in [Command -> States \union {Missing}]
BY CachedType DEF Told

(* extract_field looks only at the answers to the commands of the field,   *)
(* and makes a JSON value of them.                                         *)
LEMMA ExtractDepends ==
  ASSUME NEW f \in Field, NEW m, NEW n, \A c \in CommandsOf[f] : m[c] = n[c]
  PROVE  Extract(f, m) = Extract(f, n)
<1>1. \A i \in DOMAIN Locations[f] : m[Locations[f][i]] = n[Locations[f][i]]
  BY LocationsAreCommands
<1>2. Found(f, m) = Found(f, n)
  BY <1>1 DEF Found
<1> QED
  BY <1>2 DEF Extract

LEMMA FoundTyped ==
  ASSUME NEW f \in Field, NEW m \in [Command -> States \union {Missing}]
  PROVE  /\ Found(f, m) \in Seq(Json[MaxDepth] \union {Absent})
         /\ DOMAIN Found(f, m) = DOMAIN Locations[f]
<1> DEFINE l == Len(Locations[f])
           found == Found(f, m)
<1>1. l \in Nat /\ DOMAIN Locations[f] = 1..l /\ DOMAIN found = 1..l
  BY LocationsAreCommands DEF Found
<1>2. ASSUME NEW n \in 1..l PROVE found[n] \in Json[MaxDepth] \union {Absent}
  <2> DEFINE c == Locations[f][n]
  <2>1. c \in Command
    BY <1>1, LocationsAreCommands
  <2>2. found[n] = IF m[c] = Missing THEN Absent ELSE Finds(f, n, m[c])
    BY <1>1 DEF Found
  <2>3. m[c] # Missing => m[c] \in States
    BY <2>1
  <2> QED
    BY <1>1, <2>2, <2>3, FindsAssumption
<1>3. found \in [1..l -> Json[MaxDepth] \union {Absent}]
  <2>1. found = [n \in 1..l |-> found[n]]
    BY <1>1 DEF Found
  <2> HIDE DEF found
  <2> QED
    BY <1>2, <2>1
<1> QED
  BY <1>1, <1>3, SeqDef

LEMMA ExtractTyped ==
  ASSUME NEW f \in Field, NEW m \in [Command -> States \union {Missing}]
  PROVE  Extract(f, m) \in Json[MaxDepth] \union {NoValue}
BY FoundTyped, JoinedTyped DEF Extract

(* A field whose commands have all answered is extracted from the new      *)
(* cache as it would be from the answers alone.                            *)
LEMMA ExtractFresh ==
  ASSUME TypeOK, NEW f \in Field, CommandsOf[f] \subseteq Answered
  PROVE  Extract(f, Cached) = Extract(f, Told)
<1>1. \A c \in CommandsOf[f] : Cached[c] = Told[c]
  BY CachedType DEF Told
<1> QED
  BY <1>1, ExtractDepends

LEMMA InitInv == Init => IInv
BY StateAssumption, AnswerAssumption
   DEF Init, IInv, TypeOK, States, ResponsesRecent, CacheOlder, EndCached,
       EndExtracted, EndFromCache, Ended

LEMMA TypeStep == TypeOK /\ [Next]_vars => TypeOK'
<1> SUFFICES ASSUME TypeOK, [Next]_vars PROVE TypeOK'
    OBVIOUS
<1> USE StateAssumption DEF TypeOK, States
<1>1. CASE DeviceChanges
  BY <1>1 DEF DeviceChanges
<1>2. ASSUME NEW fs \in SUBSET Field, Collect(fs) PROVE TypeOK'
  BY <1>2 DEF Collect
<1>3. ASSUME NEW c \in Command, Answer(c) \/ Fail(c) PROVE TypeOK'
  BY <1>3 DEF Answer, Fail
<1>4. CASE Finish
  <2>1. cache' \in [Command -> States \union {Missing}]
    BY <1>4, CachedType DEF Finish
  <2>2. \A f \in Field : Extract(f, cache') \in Json[MaxDepth] \union {NoValue}
    <3> DEFINE m == cache'
    <3>1. m \in [Command -> States \union {Missing}]
      BY <2>1
    <3> HIDE DEF m
    <3>2. \A f \in Field : Extract(f, m) \in Json[MaxDepth] \union {NoValue}
      BY <3>1, ExtractTyped
    <3> QED
      BY <3>2 DEF m
  <2> QED
    BY <1>4, <2>1, <2>2 DEF Finish
<1>5. CASE Cancel
  BY <1>5 DEF Cancel
<1>6. CASE UNCHANGED vars
  BY <1>6 DEF vars
<1> QED
  BY <1>1, <1>2, <1>3, <1>4, <1>5, <1>6 DEF Next

LEMMA RecentStep ==
  TypeOK /\ ResponsesRecent /\ [Next]_vars => ResponsesRecent'
<1> SUFFICES ASSUME TypeOK, ResponsesRecent, [Next]_vars PROVE ResponsesRecent'
    OBVIOUS
<1> USE StateAssumption, AnswerAssumption DEF TypeOK, States, ResponsesRecent
<1>1. CASE DeviceChanges
  BY <1>1 DEF DeviceChanges
<1>2. ASSUME NEW fs \in SUBSET Field, Collect(fs) PROVE ResponsesRecent'
  BY <1>2 DEF Collect
<1>3. ASSUME NEW c \in Command, Answer(c) PROVE ResponsesRecent'
  BY <1>3 DEF Answer
<1>4. ASSUME NEW c \in Command, Fail(c) PROVE ResponsesRecent'
  BY <1>4 DEF Fail
<1>5. CASE Finish \/ Cancel \/ UNCHANGED vars
  BY <1>5 DEF Finish, Cancel, vars
<1> QED
  BY <1>1, <1>2, <1>3, <1>4, <1>5 DEF Next

LEMMA OlderStep ==
  TypeOK /\ ResponsesRecent /\ CacheOlder /\ [Next]_vars => CacheOlder'
<1> SUFFICES ASSUME TypeOK, ResponsesRecent, CacheOlder, [Next]_vars
             PROVE  CacheOlder'
    OBVIOUS
<1> USE DEF TypeOK, States, CacheOlder
<1>1. CASE DeviceChanges
  BY <1>1, StateAssumption, AnswerAssumption DEF DeviceChanges
<1>2. ASSUME NEW fs \in SUBSET Field, Collect(fs) PROVE CacheOlder'
  BY <1>2 DEF Collect
<1>3. ASSUME NEW c \in Command, Answer(c) \/ Fail(c) PROVE CacheOlder'
  BY <1>3 DEF Answer, Fail
<1>4. CASE Finish
  <2>1. ASSUME NEW c \in Command, cache'[c] # Missing PROVE cache'[c] <= state'
    <3>1. CASE c \in Answered
      BY <3>1, <1>4, CachedType, StateAssumption DEF Finish, ResponsesRecent
    <3>2. CASE c \notin Answered
      BY <3>2, <2>1, <1>4, CachedType DEF Finish
    <3> QED
      BY <3>1, <3>2
  <2> QED
    BY <2>1, <1>4 DEF Finish
<1>5. CASE Cancel \/ UNCHANGED vars
  BY <1>5 DEF Cancel, vars
<1> QED
  BY <1>1, <1>2, <1>3, <1>4, <1>5 DEF Next

(* Only Finish ends a collection of some fields; only Collect changes what *)
(* the end of one refers to.                                               *)
LEMMA EndStep ==
  TypeOK /\ EndCached /\ EndExtracted /\ EndFromCache /\ [Next]_vars =>
    EndCached' /\ EndExtracted' /\ EndFromCache'
<1> SUFFICES ASSUME TypeOK, EndCached, EndExtracted, EndFromCache, [Next]_vars
             PROVE  EndCached' /\ EndExtracted' /\ EndFromCache'
    OBVIOUS
<1>1. CASE DeviceChanges \/ UNCHANGED vars
  BY <1>1 DEF DeviceChanges, vars, EndCached, EndExtracted, EndFromCache, Ended, Waiting,
              Answered, Required, Told
<1>2. ASSUME NEW fs \in SUBSET Field, Collect(fs)
      PROVE  EndCached' /\ EndExtracted' /\ EndFromCache'
  BY <1>2 DEF Collect, EndCached, EndExtracted, EndFromCache, Ended
<1>3. ASSUME NEW c \in Command, Answer(c) \/ Fail(c)
      PROVE  EndCached' /\ EndExtracted' /\ EndFromCache'
  BY <1>3 DEF Answer, Fail, EndCached, EndExtracted, EndFromCache, Ended
<1>4. CASE Finish
  <2>1. /\ Required' = Required /\ Waiting' = Waiting
        /\ Answered' = Answered /\ Told' = Told
    BY <1>4 DEF Finish, Required, Waiting, Answered, Told
  <2>2. EndCached'
    BY <2>1, <1>4, CachedType DEF Finish, EndCached
  <2>3. ASSUME NEW f \in fields, CommandsOf[f] \subseteq Answered
        PROVE  results'[f] = Extract(f, Told)
    <3>1. f \in Field
      BY DEF TypeOK
    <3>2. results'[f] = Extract(f, Cached)
      BY <1>4, <3>1 DEF Finish
    <3> QED
      BY <3>1, <3>2, <2>3, ExtractFresh
  <2>4. fields' = fields
    BY <1>4 DEF Finish
  <2>5. EndFromCache'
    BY <1>4 DEF Finish, EndFromCache, TypeOK
  <2> QED
    BY <2>1, <2>2, <2>3, <2>4, <2>5 DEF EndExtracted
<1>5. CASE Cancel
  BY <1>5 DEF Cancel, EndCached, EndExtracted, EndFromCache, Ended
<1> QED
  BY <1>1, <1>2, <1>3, <1>4, <1>5 DEF Next

LEMMA Invariance == Spec => []IInv
<1>1. IInv /\ [Next]_vars => IInv'
  BY TypeStep, RecentStep, OlderStep, EndStep DEF IInv
<1> QED
  BY InitInv, <1>1, PTL DEF Spec

-----------------------------------------------------------------------------
(* Types of the collector's state. *)
THEOREM TypeCorrect == Spec => []TypeOK
<1>1. IInv => TypeOK
  BY DEF IInv
<1> QED
  BY Invariance, <1>1, PTL

(* A field whose commands answered is made of this collection's answers    *)
(* alone, all from the time of the collection.                             *)
THEOREM FieldsAreFresh == Spec => []AnsweredIsFresh
<1>1. IInv => AnsweredIsFresh
  <2> SUFFICES ASSUME IInv, Ended, NEW f \in fields, CommandsOf[f] \subseteq Answered
               PROVE  /\ results[f] = Extract(f, Told)
                      /\ \A c \in CommandsOf[f] : response[c] \in since..state
    BY DEF AnsweredIsFresh
  <2>1. results[f] = Extract(f, Told)
    BY DEF IInv, EndExtracted
  <2>2. \A c \in CommandsOf[f] : response[c] \in since..state
    BY CachedType DEF IInv, ResponsesRecent
  <2> QED
    BY <2>1, <2>2
<1> QED
  BY Invariance, <1>1, PTL

(* Only a command that failed is represented by an older answer. *)
THEOREM StaleMeansFailed == Spec => []StaleOnlyIfFailed
<1>1. IInv => StaleOnlyIfFailed
  <2> SUFFICES ASSUME IInv, Ended, NEW c \in Required, response[c] # Failed
               PROVE  cache[c] >= since
    BY DEF StaleOnlyIfFailed
  <2>1. c \in Answered
    BY DEF IInv, EndCached, Waiting, Answered
  <2>2. cache[c] = response[c] /\ response[c] \in since..state
    BY <2>1, CachedType DEF IInv, EndCached, ResponsesRecent
  <2> QED
    BY <2>2, StateAssumption DEF IInv, TypeOK, States
<1> QED
  BY Invariance, <1>1, PTL

(* Cached answers are kept, or replaced by answers that are not older, and *)
(* only at the end of a collection.                                        *)
THEOREM CacheIsMonotone == Spec => CacheNeverGoesBack
<1> DEFINE Kept == \A c \in Command : cache[c] # Missing =>
                     cache'[c] # Missing /\ cache'[c] >= cache[c]
           Ends == cache' # cache => phase = "collecting" /\ Waiting = {} /\ fields' = fields
<1>1. IInv /\ [Next]_vars => [Kept]_vars
  <2> SUFFICES ASSUME IInv, Next, NEW c \in Command, cache[c] # Missing
               PROVE  cache'[c] # Missing /\ cache'[c] >= cache[c]
    OBVIOUS
  <2>1. cache[c] \in States
    BY DEF IInv, TypeOK
  <2>2. CASE Finish
    <3>1. CASE c \in Answered
      <4>1. cache'[c] = response[c] /\ response[c] \in since..state
        BY <3>1, <2>2, CachedType DEF Finish, IInv, ResponsesRecent
      <4>2. response[c] \in States
        BY <3>1, CachedType DEF IInv
      <4>3. cache[c] <= since
        BY <2>2 DEF Finish, IInv, CacheOlder
      <4> QED
        BY <4>1, <4>2, <4>3, <2>1, StateAssumption, AnswerAssumption
           DEF IInv, TypeOK, States
    <3>2. CASE c \notin Answered
      <4>1. cache'[c] = cache[c]
        BY <3>2, <2>2, CachedType DEF Finish, IInv
      <4> QED
        BY <4>1, <2>1, StateAssumption DEF States
    <3> QED
      BY <3>1, <3>2
  <2>3. CASE ~Finish
    <3>1. cache' = cache
      BY <2>3 DEF Next, DeviceChanges, Collect, Answer, Fail, Cancel
    <3> QED
      BY <3>1, <2>1, StateAssumption DEF States
  <2> QED
    BY <2>2, <2>3
<1>2. [Next]_vars => [Ends]_vars
  BY DEF Next, DeviceChanges, Collect, Answer, Fail, Finish, Cancel
<1>3. IInv /\ [Next]_vars => [Kept /\ Ends]_vars
  BY <1>1, <1>2
<1> QED
  BY Invariance, <1>3, PTL DEF Spec, CacheNeverGoesBack

(* Merging two values lays the second over the first, path by path. *)
THEOREM MergeIsAnOverlay == Spec => []MergeIsOverlay
<1>1. MergeIsOverlay
  <2> SUFFICES ASSUME NEW a \in Values, NEW b \in Values, NEW p \in Paths
               PROVE  At(MergeValues(a, b), p) = Laid(a, b, p)
    BY DEF MergeIsOverlay
  <2> QED
    BY SamplesAssumption, MergeOverlays
<1> QED
  BY <1>1, PTL

FieldsSayTheLast ==
  Ended =>
    \A f \in fields, path \in Seq(Key) : \A last \in DOMAIN Locations[f] :
      Decides(Found(f, cache), last, path) =>
        At(results[f], path) = At(Found(f, cache)[last], path)

(* A returned field has at every path what the last of its locations says  *)
(* there that found something in an answer.                                *)
THEOREM FieldsAreOverlaid == Spec => []FieldsSayTheLast
<1>1. IInv => FieldsSayTheLast
  <2> SUFFICES ASSUME IInv, Ended, NEW f \in fields, NEW path \in Seq(Key),
                      NEW last \in DOMAIN Locations[f],
                      Decides(Found(f, cache), last, path)
               PROVE  At(results[f], path) = At(Found(f, cache)[last], path)
    BY DEF FieldsSayTheLast
  <2> DEFINE found == Found(f, cache)
  <2>1. f \in Field /\ cache \in [Command -> States \union {Missing}]
    BY DEF IInv, TypeOK
  <2>2. found \in Seq(Json[MaxDepth] \union {Absent}) /\ DOMAIN found = DOMAIN Locations[f]
    BY <2>1, FoundTyped
  <2>3. results[f] = Joined(found)
    <3>1. results[f] = Extract(f, cache)
      BY DEF IInv, EndFromCache
    <3>2. found[last] # Absent
      BY DEF Decides
    <3> QED
      BY <3>1, <3>2 DEF Extract
  <2> HIDE DEF found
  <2>4. last \in 1..Len(found)
    BY <2>2
  <2>5. At(Joined(found), path) = At(found[last], path)
    BY <2>2, <2>4, LastLocationDecides DEF found
  <2> QED
    BY <2>3, <2>5 DEF found
<1> QED
  BY Invariance, <1>1, PTL
=============================================================================
