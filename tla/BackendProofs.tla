--------------------------- MODULE BackendProofs ----------------------------
(***************************************************************************)
(* The tables of the backends, the operations as well as the readers, meet *)
(* the conditions of the theorems of OperationProofs, which therefore hold *)
(* for any of the backends, any number of callers and any number of things *)
(* that go wrong.                                                          *)
(***************************************************************************)
EXTENDS OperationProofs, Backends

(* What is wanted of one operation, and of all of a backend.               *)
Fits(name, sleeps, op, q) ==
  /\ op \in Names /\ q \in Seq(Requests)
  /\ OwnSteps(name, sleeps, op, q)
  /\ <<name, op>> \notin MayOnlyHope /\ ~FillsGroups(name, op) =>
       \A x \in Meant(sleeps, op) : SureSteps(q, x)
  /\ VerifiedSteps(q)
  /\ PoolSteps(name, op, q)
  /\ op = "pause" => (sleeps <=> \E n \in DOMAIN q : "mode" \in q[n].cells)

AllFit(name, sleeps, f) == \A op \in DOMAIN f : Fits(name, sleeps, op, f[op])

Sound(b) == WellFormed(b) /\ WritesItsOwn(b) /\ Honest(b) /\ PoolsInOrder(b)

LEMMA FitIsSound ==
  ASSUME NEW b, NEW sleeps \in BOOLEAN, AllFit(b.name, sleeps, Operations(b)),
         sleeps => "pause" \in DOMAIN Operations(b)
  PROVE  Sound(b)
<1>1. SleepsInMode(b) = sleeps
  BY DEF SleepsInMode, AllFit, Fits
<1>2. \A op : Means(b, op) = Meant(sleeps, op)
  BY <1>1 DEF Means
<1>3. WellFormed(b)
  BY DEF WellFormed, AllFit, Fits
<1>4. WritesItsOwn(b)
  BY <1>1 DEF WritesItsOwn, AllFit, Fits
<1>5. Honest(b)
  BY <1>2 DEF Honest, SucceedsWhenDone, VerifiesItsOwn, AllFit, Fits
<1>6. PoolsInOrder(b)
  BY DEF PoolsInOrder, AllFit, Fits
<1> QED
  BY <1>3, <1>4, <1>5, <1>6 DEF Sound

LEMMA JoinedFit ==
  ASSUME NEW name, NEW sleeps \in BOOLEAN, NEW f, NEW g,
         AllFit(name, sleeps, f), AllFit(name, sleeps, g)
  PROVE  AllFit(name, sleeps, f ++ g)
BY DEF AllFit, ++

FailPairs == [refused : Failures, lost : Failures]

LEMMA FailuresTyped ==
  /\ Must \in FailPairs /\ Unlooked \in FailPairs /\ IsOk \in FailPairs /\ Ignored \in FailPairs
  /\ ResultFlag \in FailPairs /\ MayNotAnswer \in FailPairs
BY DEF Must, Unlooked, IsOk, Ignored, ResultFlag, MayNotAnswer, FailPairs, Failures

LEMMA OneSendFits ==
  ASSUME NEW name, NEW sleeps \in BOOLEAN, NEW op \in Names, NEW fail \in FailPairs,
         NEW x \in Cells \ Derived, Meant(sleeps, op) = {x},
         x = "pools" => op = "set_pools" /\ name \notin ManyStepPools,
         <<name, op>> \in MayOnlyHope \/ (fail.refused # "next" /\ fail.lost # "next"),
         name \in ManyStepPools => op # "set_pools"
  PROVE  Fits(name, sleeps, op, <<Send({x}, fail)>>)
<1> DEFINE s == Send({x}, fail)
           q == <<s>>
<1>1. /\ s.does = "write" /\ s.cells = {x} /\ s.kept = {} /\ s.fail = fail /\ s.then = "next"
      /\ s \in Requests
  BY DEF Send, Step, Requests, FailPairs
<1>2. q \in Seq(Requests) /\ Len(q) = 1 /\ DOMAIN q = {1} /\ q[1] = s
  BY <1>1
<1> HIDE DEF s, q
<1>3. OwnSteps(name, sleeps, op, q)
  BY <1>1, <1>2 DEF OwnSteps
<1>4. <<name, op>> \notin MayOnlyHope => \A y \in Meant(sleeps, op) : SureSteps(q, y)
  BY <1>1, <1>2 DEF SureSteps, SureBefore, SureWrite
<1>5. VerifiedSteps(q)
  BY <1>1, <1>2 DEF VerifiedSteps
<1>6. PoolSteps(name, op, q)
  BY <1>1, <1>2 DEF PoolSteps, LeavesAlone, ManyStepPools, SwitchOver, Derived
<1>7. op = "pause" => (sleeps <=> \E n \in DOMAIN q : "mode" \in q[n].cells)
  BY <1>1, <1>2 DEF Meant
<1> QED
  BY <1>2, <1>3, <1>4, <1>5, <1>6, <1>7 DEF Fits, q, s

LEMMA EachFits ==
  ASSUME NEW name, NEW sleeps \in BOOLEAN, NEW ops \in SUBSET Names, NEW fail \in FailPairs,
         NEW x \in Cells \ Derived, \A op \in ops : Meant(sleeps, op) = {x},
         name \in ManyStepPools => "set_pools" \notin ops,
         \/ fail.refused # "next" /\ fail.lost # "next"
         \/ \A op \in ops : <<name, op>> \in MayOnlyHope
  PROVE  AllFit(name, sleeps, Each(ops, {x}, fail))
<1> SUFFICES ASSUME NEW op \in ops
             PROVE  Fits(name, sleeps, op, <<Send({x}, fail)>>)
  BY DEF AllFit, Each
<1>1. x = "pools" => op = "set_pools"
  BY DEF Meant, Names
<1> QED
  BY <1>1, OneSendFits

StepFields(s, does, cells, kept, fail, then) ==
  /\ s \in Requests
  /\ s.does = does /\ s.cells = cells /\ s.kept = kept /\ s.fail = fail /\ s.then = then

LEMMA StepIs ==
  ASSUME NEW does \in {"write", "read", "erase", "add", "fill", "needs", "done_if", "verify"},
         NEW cells \in SUBSET Cells, NEW kept \in SUBSET Cells, cells \intersect kept = {},
         NEW fail \in FailPairs, NEW then \in {"next", "true"}
  PROVE  StepFields(Step(does, cells, kept, fail, then), does, cells, kept, fail, then)
BY DEF StepFields, Step, Requests, FailPairs

LEMMA TwoSteps ==
  ASSUME NEW s1 \in Requests, NEW s2 \in Requests
  PROVE  LET q == <<s1, s2>>
         IN  q \in Seq(Requests) /\ Len(q) = 2 /\ DOMAIN q = {1, 2} /\ q[1] = s1 /\ q[2] = s2
OBVIOUS

LEMMA ThreeSteps ==
  ASSUME NEW s1 \in Requests, NEW s2 \in Requests, NEW s3 \in Requests
  PROVE  LET q == <<s1, s2, s3>>
         IN  /\ q \in Seq(Requests) /\ Len(q) = 3 /\ DOMAIN q = {1, 2, 3}
             /\ q[1] = s1 /\ q[2] = s2 /\ q[3] = s3
OBVIOUS

LEMMA FiveSteps ==
  ASSUME NEW s1 \in Requests, NEW s2 \in Requests, NEW s3 \in Requests, NEW s4 \in Requests,
         NEW s5 \in Requests
  PROVE  LET q == <<s1, s2, s3, s4, s5>>
         IN  /\ q \in Seq(Requests) /\ Len(q) = 5 /\ DOMAIN q = {1, 2, 3, 4, 5}
             /\ q[1] = s1 /\ q[2] = s2 /\ q[3] = s3 /\ q[4] = s4 /\ q[5] = s5
OBVIOUS

LEMMA AntMinerPauseFits ==
  ASSUME NEW op \in {"pause", "resume"}
  PROVE  Fits("AntMinerV2020", TRUE, op, 
        <<Read(AntMinerV2020Conf, Must), Needs("mode", "false"),
          AntMinerV2020SetConf("mode", Must), Read({"mode"}, Must), Verify("mode")>>)
<1> DEFINE s1 == Read(AntMinerV2020Conf, Must)
           s2 == Needs("mode", "false")
           s3 == AntMinerV2020SetConf("mode", Must)
           s4 == Read({"mode"}, Must)
           s5 == Verify("mode")
           q == <<s1, s2, s3, s4, s5>>
<1>1. "mode" \in Cells /\ "pools" \in Cells /\ "fan" \in Cells /\ AntMinerV2020Conf \in SUBSET Cells
      /\ AntMinerV2020Conf \ {"mode"} = {"pools", "fan"}
  BY DEF AntMinerV2020Conf, Cells, Settings
<1>2. /\ StepFields(s1, "read", {"pools", "mode", "fan"}, {}, Must, "next")
      /\ StepFields(s2, "needs", {"mode"}, {}, [Must EXCEPT !.refused = "false"], "next")
      /\ StepFields(s3, "write", {"mode"}, {"pools", "fan"}, Must, "next")
      /\ StepFields(s4, "read", {"mode"}, {}, Must, "next")
      /\ StepFields(s5, "verify", {"mode"}, {}, Must, "next")
  <2>1. [Must EXCEPT !.refused = "false"] \in FailPairs /\ Must \in FailPairs
    BY SMT DEF Must, FailPairs, Failures
  <2> QED
    BY <1>1, <2>1, StepIs DEF Read, Needs, AntMinerV2020SetConf, Rewrite, Verify, AntMinerV2020Conf
<1> HIDE DEF s1, s2, s3, s4, s5
<1>3. /\ q \in Seq(Requests) /\ Len(q) = 5 /\ DOMAIN q = {1, 2, 3, 4, 5}
      /\ q[1] = s1 /\ q[2] = s2 /\ q[3] = s3 /\ q[4] = s4 /\ q[5] = s5
  BY <1>2, FiveSteps DEF StepFields
<1> HIDE DEF q
<1>4. Meant(TRUE, op) = {"mode"} /\ op \in Names
  BY DEF Meant, Names
<1>5. OwnSteps("AntMinerV2020", TRUE, op, q)
  <2>1. \A x \in {"pools", "fan"} : Fresh(q, 3, x)
    <3>1. \A m \in (1 + 1)..(3 - 1) : m = 2
      OBVIOUS
    <3> QED
      BY <1>2, <1>3, <3>1 DEF StepFields, Changes, Fresh, Surely, Must
  <2> QED
    BY <1>2, <1>3, <1>4, <2>1 DEF OwnSteps, StepFields, Changes, Rewriters, Derived
<1>6. SureSteps(q, "mode")
  BY <1>2, <1>3, <1>4 DEF SureSteps, StepFields, SureBefore, SureWrite, Must
<1>7. VerifiedSteps(q)
  BY <1>2, <1>3 DEF VerifiedSteps, StepFields, Derived, Fresh, Wrote, Changes, Surely, Must
<1>8. PoolSteps("AntMinerV2020", op, q)
  BY <1>2, <1>3 DEF PoolSteps, StepFields, SwitchOver
<1>9. \E n \in DOMAIN q : "mode" \in q[n].cells
  BY <1>2, <1>3 DEF StepFields
<1> QED
  BY <1>3, <1>4, <1>5, <1>6, <1>7, <1>8, <1>9 DEF Fits, q, s1, s2, s3, s4, s5

Sure(fail) == fail \in FailPairs /\ fail.refused # "next" /\ fail.lost # "next"

LEMMA SureFailures == Sure(Must) /\ Sure(IsOk) /\ Sure(ResultFlag)
BY FailuresTyped DEF Sure, Must, IsOk, ResultFlag

(* One write for what is meant and one for what goes with it. *)
LEMMA TwoSendsFit ==
  ASSUME NEW name, NEW op \in Names \ {"pause"}, NEW x \in Cells \ Derived, NEW y \in Cells,
         Meant(FALSE, op) = {x}, y \in Aside(name, op),
         NEW f, Sure(f), NEW g \in FailPairs, name # "LuxMiner",
         name \in SwitchOver => op = "set_pools" /\ y = "active_pools" /\ Sure(g)
  PROVE  Fits(name, FALSE, op, <<Send({x}, f), Send({y}, g)>>)
<1> DEFINE s1 == Send({x}, f)
           s2 == Send({y}, g)
           q == <<s1, s2>>
<1>1. /\ StepFields(s1, "write", {x}, {}, f, "next")
      /\ StepFields(s2, "write", {y}, {}, g, "next")
  BY StepIs DEF Send, Sure
<1> HIDE DEF s1, s2
<1>2. q \in Seq(Requests) /\ Len(q) = 2 /\ DOMAIN q = {1, 2} /\ q[1] = s1 /\ q[2] = s2
  BY <1>1, TwoSteps DEF StepFields
<1> HIDE DEF q
<1>3. OwnSteps(name, FALSE, op, q)
  BY <1>1, <1>2 DEF OwnSteps, StepFields
<1>4. SureSteps(q, x)
  BY <1>1, <1>2 DEF SureSteps, StepFields, SureBefore, SureWrite, Sure
<1>5. VerifiedSteps(q)
  BY <1>1, <1>2 DEF VerifiedSteps, StepFields
<1>6. PoolSteps(name, op, q)
  <2>1. name \in SwitchOver => op = "set_pools" /\ StoresThenSwitches(q)
    <3> SUFFICES ASSUME name \in SwitchOver PROVE StoresThenSwitches(q)
      OBVIOUS
    <3>1. x = "pools" /\ y = "active_pools" /\ Sure(g)
      BY DEF Meant
    <3>2. \A n \in DOMAIN q :
            q[n].does = "write" /\ q[n].then = "next" /\ q[n].kept = {} /\ Surely(q[n])
      BY <1>1, <1>2, <3>1 DEF StepFields, Surely, Sure
    <3>3. "pools" \in q[1].cells /\ "active_pools" \in q[2].cells /\ 1 <= 2
      BY <1>1, <1>2, <3>1 DEF StepFields
    <3> QED
      BY <1>2, <3>2, <3>3 DEF StoresThenSwitches
  <2>2. \A n \in DOMAIN q : q[n].does \notin {"erase", "add", "fill"}
    BY <1>1, <1>2 DEF StepFields
  <2> QED
    BY <2>1, <2>2 DEF PoolSteps
<1> QED
  BY <1>2, <1>3, <1>4, <1>5, <1>6 DEF Fits, q, s1, s2

(* Something is read and then the cell is written. *)
LEMMA ReadAndSendFit ==
  ASSUME NEW name, NEW op \in Names \ {"pause"}, NEW x \in Cells \ Derived, NEW y \in Cells,
         NEW sleeps \in BOOLEAN, Meant(sleeps, op) = {x}, NEW f, Sure(f), NEW g \in FailPairs,
         name \notin ManyStepPools
  PROVE  Fits(name, sleeps, op, <<Read({y}, g), Send({x}, f)>>)
<1> DEFINE s1 == Read({y}, g)
           s2 == Send({x}, f)
           q == <<s1, s2>>
<1>1. /\ StepFields(s1, "read", {y}, {}, g, "next")
      /\ StepFields(s2, "write", {x}, {}, f, "next")
  BY StepIs DEF Send, Read, Sure
<1> HIDE DEF s1, s2
<1>2. q \in Seq(Requests) /\ Len(q) = 2 /\ DOMAIN q = {1, 2} /\ q[1] = s1 /\ q[2] = s2
  BY <1>1, TwoSteps DEF StepFields
<1> HIDE DEF q
<1>3. OwnSteps(name, sleeps, op, q)
  BY <1>1, <1>2 DEF OwnSteps, StepFields, Changes
<1>4. SureSteps(q, x)
  BY <1>1, <1>2 DEF SureSteps, StepFields, SureBefore, SureWrite, Sure
<1>5. VerifiedSteps(q)
  BY <1>1, <1>2 DEF VerifiedSteps, StepFields
<1>6. PoolSteps(name, op, q)
  BY <1>1, <1>2 DEF PoolSteps, StepFields, ManyStepPools, SwitchOver
<1> QED
  BY <1>2, <1>3, <1>4, <1>5, <1>6 DEF Fits, q, s1, s2

(* The object is read and written back with one cell of it changed. *)
LEMMA ReadAndRewriteFit ==
  ASSUME NEW name \in Rewriters, NEW op \in Names \ {"pause"}, NEW x \in Cells,
         NEW conf \in SUBSET (Cells \ Derived), x \in conf, NEW sleeps \in BOOLEAN,
         Meant(sleeps, op) = {x}, NEW f, Sure(f)
  PROVE  Fits(name, sleeps, op, <<Read(conf, Must), Rewrite({x}, conf \ {x}, f)>>)
<1> DEFINE s1 == Read(conf, Must)
           s2 == Rewrite({x}, conf \ {x}, f)
           q == <<s1, s2>>
<1>1. /\ StepFields(s1, "read", conf, {}, Must, "next")
      /\ StepFields(s2, "write", {x}, conf \ {x}, f, "next")
  BY StepIs, FailuresTyped DEF Read, Rewrite, Sure
<1> HIDE DEF s1, s2
<1>2. q \in Seq(Requests) /\ Len(q) = 2 /\ DOMAIN q = {1, 2} /\ q[1] = s1 /\ q[2] = s2
  BY <1>1, TwoSteps DEF StepFields
<1> HIDE DEF q
<1>3. OwnSteps(name, sleeps, op, q)
  <2>1. \A y \in conf : Fresh(q, 2, y)
    BY <1>1, <1>2 DEF StepFields, Fresh, Surely, Must
  <2> QED
    BY <1>1, <1>2, <2>1 DEF OwnSteps, StepFields, Changes
<1>4. SureSteps(q, x)
  BY <1>1, <1>2 DEF SureSteps, StepFields, SureBefore, SureWrite, Sure
<1>5. VerifiedSteps(q)
  BY <1>1, <1>2 DEF VerifiedSteps, StepFields
<1>6. PoolSteps(name, op, q)
  BY <1>1, <1>2 DEF PoolSteps, StepFields, SwitchOver, Rewriters
<1> QED
  BY <1>2, <1>3, <1>4, <1>5, <1>6 DEF Fits, q, s1, s2

LEMMA NeedsIs ==
  ASSUME NEW x \in Cells, NEW otherwise \in Failures
  PROVE  StepFields(Needs(x, otherwise), "needs", {x}, {}, [Must EXCEPT !.refused = otherwise],
                    "next")
<1>1. [Must EXCEPT !.refused = otherwise] \in FailPairs
  BY FailuresTyped DEF FailPairs
<1> QED
  BY <1>1, StepIs DEF Needs

(* A request goes by a look at what was read. *)
LEMMA LookAndSendFit ==
  ASSUME NEW name, NEW op \in Names, NEW x \in Cells \ Derived,
         NEW sleeps \in BOOLEAN, Meant(sleeps, op) = {x}, NEW f, Sure(f), NEW g \in FailPairs,
         NEW s2, \/ s2 = DoneIf(x)
                 \/ \E otherwise \in Failures : s2 = Needs(x, otherwise),
         name \notin ManyStepPools, op = "pause" => sleeps
  PROVE  Fits(name, sleeps, op, <<Read({x}, g), s2, Send({x}, f)>>)
<1> DEFINE s1 == Read({x}, g)
           s3 == Send({x}, f)
           q == <<s1, s2, s3>>
<1>1. /\ StepFields(s1, "read", {x}, {}, g, "next")
      /\ s2 \in Requests /\ s2.does \in {"needs", "done_if"} /\ s2.cells = {x} /\ s2.kept = {}
      /\ s2.then = "next"
      /\ StepFields(s3, "write", {x}, {}, f, "next")
  <2>1. StepFields(s1, "read", {x}, {}, g, "next") /\ StepFields(s3, "write", {x}, {}, f, "next")
    BY StepIs DEF Send, Read, Sure
  <2>2. CASE s2 = DoneIf(x)
    <3>1. StepFields(s2, "done_if", {x}, {}, Must, "next")
      BY <2>2, StepIs, FailuresTyped DEF DoneIf
    <3> QED
      BY <2>1, <3>1 DEF StepFields
  <2>3. ASSUME NEW otherwise \in Failures, s2 = Needs(x, otherwise)
        PROVE  StepFields(s2, "needs", {x}, {}, [Must EXCEPT !.refused = otherwise], "next")
    BY <2>3, NeedsIs
  <2> QED
    BY <2>1, <2>2, <2>3 DEF StepFields
<1> HIDE DEF s1, s3
<1>2. /\ q \in Seq(Requests) /\ Len(q) = 3 /\ DOMAIN q = {1, 2, 3}
      /\ q[1] = s1 /\ q[2] = s2 /\ q[3] = s3
  BY <1>1, ThreeSteps DEF StepFields
<1> HIDE DEF q
<1>3. OwnSteps(name, sleeps, op, q)
  BY <1>1, <1>2 DEF OwnSteps, StepFields, Changes
<1>4. SureSteps(q, x)
  BY <1>1, <1>2 DEF SureSteps, StepFields, SureBefore, SureWrite, Sure
<1>5. VerifiedSteps(q)
  BY <1>1, <1>2 DEF VerifiedSteps, StepFields
<1>6. PoolSteps(name, op, q)
  BY <1>1, <1>2 DEF PoolSteps, StepFields, ManyStepPools, SwitchOver
<1>7. op = "pause" => (sleeps <=> \E n \in DOMAIN q : "mode" \in q[n].cells)
  <2>1. CASE op = "pause"
    BY <1>1, <1>2, <2>1 DEF StepFields, Meant
  <2> QED
    BY <2>1
<1> QED
  BY <1>2, <1>3, <1>4, <1>5, <1>6, <1>7 DEF Fits, q, s1, s3
(* AntMiner (2020): the object is read, looked at and written back.       *)
LEMMA AntMinerModeFits ==
  ASSUME NEW op \in Names \ {"pause"}, Meant(TRUE, op) = {"mode"}
  PROVE  Fits("AntMinerV2020", TRUE, op,
       <<Read(AntMinerV2020Conf, Must), Needs("mode", "error"),
         AntMinerV2020SetConf("mode", Must)>>)
<1> DEFINE s1 == Read(AntMinerV2020Conf, Must)
           s2 == Needs("mode", "error")
           s3 == AntMinerV2020SetConf("mode", Must)
           q == <<s1, s2, s3>>
<1>1. /\ "mode" \in Cells /\ "pools" \in Cells /\ "fan" \in Cells /\ "error" \in Failures
      /\ AntMinerV2020Conf \in SUBSET Cells /\ AntMinerV2020Conf \ {"mode"} = {"pools", "fan"}
  BY DEF AntMinerV2020Conf, Cells, Settings, Failures
<1>2. /\ StepFields(s1, "read", {"pools", "mode", "fan"}, {}, Must, "next")
      /\ StepFields(s2, "needs", {"mode"}, {}, [Must EXCEPT !.refused = "error"], "next")
      /\ StepFields(s3, "write", {"mode"}, {"pools", "fan"}, Must, "next")
  BY <1>1, FailuresTyped, NeedsIs, StepIs
     DEF Read, AntMinerV2020SetConf, Rewrite, AntMinerV2020Conf
<1> HIDE DEF s1, s2, s3
<1>3. /\ q \in Seq(Requests) /\ Len(q) = 3 /\ DOMAIN q = {1, 2, 3}
      /\ q[1] = s1 /\ q[2] = s2 /\ q[3] = s3
  BY <1>2, ThreeSteps DEF StepFields
<1> HIDE DEF q
<1>4. OwnSteps("AntMinerV2020", TRUE, op, q)
  <2>1. \A x \in {"pools", "fan"} : Fresh(q, 3, x)
    <3>1. \A m \in (1 + 1)..(3 - 1) : m = 2
      OBVIOUS
    <3> QED
      BY <1>2, <1>3, <3>1 DEF StepFields, Changes, Fresh, Surely, Must
  <2>2. \A n \in {1, 2} : ~Changes(q[n]) /\ q[n].kept = {}
    BY <1>2, <1>3 DEF StepFields, Changes
  <2>3. q[3].cells = {"mode"} /\ q[3].kept = {"pools", "fan"}
    BY <1>2, <1>3 DEF StepFields
  <2> QED
    BY <1>3, <2>1, <2>2, <2>3 DEF OwnSteps, Rewriters, Derived
<1>5. SureSteps(q, "mode")
  BY <1>2, <1>3, SureFailures DEF SureSteps, StepFields, SureBefore, SureWrite, Sure
<1>6. VerifiedSteps(q)
  BY <1>2, <1>3 DEF VerifiedSteps, StepFields
<1>7. PoolSteps("AntMinerV2020", op, q)
  BY <1>2, <1>3 DEF PoolSteps, StepFields, SwitchOver
<1> QED
  BY <1>3, <1>4, <1>5, <1>6, <1>7 DEF Fits, q, s1, s2, s3

LEMMA SevenSteps ==
  ASSUME NEW s1 \in Requests, NEW s2 \in Requests, NEW s3 \in Requests, NEW s4 \in Requests,
         NEW s5 \in Requests, NEW s6 \in Requests, NEW s7 \in Requests
  PROVE  LET q == <<s1, s2, s3, s4, s5, s6, s7>>
         IN  /\ q \in Seq(Requests) /\ Len(q) = 7 /\ DOMAIN q = {1, 2, 3, 4, 5, 6, 7}
             /\ q[1] = s1 /\ q[2] = s2 /\ q[3] = s3 /\ q[4] = s4 /\ q[5] = s5 /\ q[6] = s6
             /\ q[7] = s7
OBVIOUS

(* LuxMiner reads the groups, removes them, adds others and fills those. *)
LEMMA LuxMinerPoolsFit == Fits("LuxMiner", FALSE, "set_pools", LuxMinerSetPools)
<1> DEFINE r == Read({"pools"}, Ignored)
           e == Erase({"pools"}, Must)
           a == Add({"pools"}, Must)
           f == Fill({"pools"}, Must)
           q == <<r, e, e, a, a, f, f>>
<1>1. /\ StepFields(r, "read", {"pools"}, {}, Ignored, "next")
      /\ StepFields(e, "erase", {"pools"}, {}, Must, "next")
      /\ StepFields(a, "add", {"pools"}, {}, Must, "next")
      /\ StepFields(f, "fill", {"pools"}, {}, Must, "next")
  <2>1. "pools" \in Cells
    BY DEF Cells, Settings
  <2> QED
    BY <2>1, FailuresTyped, StepIs DEF Read, Erase, Add, Fill
<1> HIDE DEF r, e, a, f
<1>2. /\ q \in Seq(Requests) /\ Len(q) = 7 /\ DOMAIN q = {1, 2, 3, 4, 5, 6, 7}
      /\ q[1] = r /\ q[2] = e /\ q[3] = e /\ q[4] = a /\ q[5] = a /\ q[6] = f /\ q[7] = f
  BY <1>1, SevenSteps DEF StepFields
<1> HIDE DEF q
<1>3. \A n \in DOMAIN q : q[n].kept = {} /\ q[n].cells = {"pools"} /\ q[n].then = "next"
  BY <1>1, <1>2 DEF StepFields
<1>4. OwnSteps("LuxMiner", FALSE, "set_pools", q)
  BY <1>3 DEF OwnSteps, Meant
<1>5. VerifiedSteps(q)
  BY <1>1, <1>2 DEF VerifiedSteps, StepFields
<1>6. PoolSteps("LuxMiner", "set_pools", q)
  <2>1. \A n \in DOMAIN q : n > 1 => Surely(q[n])
    BY <1>1, <1>2, SureFailures DEF StepFields, Surely, Sure
  <2>2. RemovesAndAdds(q)
    BY <1>1, <1>2, <1>3, <2>1 DEF StepFields, RemovesAndAdds
  <2> QED
    BY <2>2 DEF PoolSteps, SwitchOver
<1>7. q = LuxMinerSetPools
  BY DEF q, r, e, a, f, LuxMinerSetPools
<1> QED
  BY <1>2, <1>4, <1>5, <1>6, <1>7 DEF Fits, Names, FillsGroups

(* WhatsMiner V3 tries a command of the new protocol first. *)
LEMMA WhatsMinerV3ModeFits ==
  Fits("WhatsMinerV3", FALSE, "tune_mode",
       <<SendOr({"mode"}, Ignored), Send({"mode"}, MayNotAnswer)>>)
<1> DEFINE s1 == SendOr({"mode"}, Ignored)
           s2 == Send({"mode"}, MayNotAnswer)
           q == <<s1, s2>>
<1>1. /\ StepFields(s1, "write", {"mode"}, {}, Ignored, "true")
      /\ StepFields(s2, "write", {"mode"}, {}, MayNotAnswer, "next")
  <2>1. {"mode"} \in SUBSET Cells
    BY DEF Cells, Settings
  <2> QED
    BY <2>1, FailuresTyped, StepIs DEF SendOr, Send
<1> HIDE DEF s1, s2
<1>2. q \in Seq(Requests) /\ Len(q) = 2 /\ DOMAIN q = {1, 2} /\ q[1] = s1 /\ q[2] = s2
  BY <1>1, TwoSteps DEF StepFields
<1> HIDE DEF q
<1>3. OwnSteps("WhatsMinerV3", FALSE, "tune_mode", q)
  BY <1>1, <1>2 DEF OwnSteps, StepFields, Meant
<1>4. VerifiedSteps(q)
  BY <1>1, <1>2 DEF VerifiedSteps, StepFields
<1>5. PoolSteps("WhatsMinerV3", "tune_mode", q)
  BY <1>1, <1>2 DEF PoolSteps, StepFields, SwitchOver
<1>6. <<"WhatsMinerV3", "tune_mode">> \in MayOnlyHope
  BY DEF MayOnlyHope
<1> QED
  BY <1>2, <1>3, <1>4, <1>5, <1>6 DEF Fits, Names, q, s1, s2

LEMMA WhatsMinerV3PowerFits ==
  Fits("WhatsMinerV3", FALSE, "tune_power",
       <<Send({"target"}, Must), SendOr({"mode"}, Ignored), Send({"mode"}, Ignored)>>)
<1> DEFINE s1 == Send({"target"}, Must)
           s2 == SendOr({"mode"}, Ignored)
           s3 == Send({"mode"}, Ignored)
           q == <<s1, s2, s3>>
<1>1. /\ StepFields(s1, "write", {"target"}, {}, Must, "next")
      /\ StepFields(s2, "write", {"mode"}, {}, Ignored, "true")
      /\ StepFields(s3, "write", {"mode"}, {}, Ignored, "next")
  <2>1. {"mode"} \in SUBSET Cells /\ {"target"} \in SUBSET Cells
    BY DEF Cells, Settings
  <2> QED
    BY <2>1, FailuresTyped, StepIs DEF SendOr, Send
<1> HIDE DEF s1, s2, s3
<1>2. /\ q \in Seq(Requests) /\ Len(q) = 3 /\ DOMAIN q = {1, 2, 3}
      /\ q[1] = s1 /\ q[2] = s2 /\ q[3] = s3
  BY <1>1, ThreeSteps DEF StepFields
<1> HIDE DEF q
<1>3. Meant(FALSE, "tune_power") = {"target"} /\ "mode" \in Aside("WhatsMinerV3", "tune_power")
  BY DEF Meant, Aside
<1>4. OwnSteps("WhatsMinerV3", FALSE, "tune_power", q)
  BY <1>1, <1>2, <1>3 DEF OwnSteps, StepFields
<1>5. SureSteps(q, "target")
  <2>1. SureBefore(q, 2, "target") /\ SureBefore(q, 4, "target")
    BY <1>1, <1>2, SureFailures DEF StepFields, SureBefore, SureWrite, Sure
  <2> QED
    BY <1>1, <1>2, <2>1 DEF SureSteps, StepFields
<1>6. VerifiedSteps(q)
  BY <1>1, <1>2 DEF VerifiedSteps, StepFields
<1>7. PoolSteps("WhatsMinerV3", "tune_power", q)
  BY <1>1, <1>2 DEF PoolSteps, StepFields, SwitchOver
<1> QED
  BY <1>2, <1>3, <1>4, <1>5, <1>6, <1>7 DEF Fits, Names, q, s1, s2, s3

(* Nothing is sent to switch the light of a Proto off. *)
LEMMA NoStepsFit == Fits("Proto", FALSE, "light_off", << >>)
<1>1. <<"Proto", "light_off">> \in MayOnlyHope
  BY DEF MayOnlyHope
<1> QED
  <2>1. << >> \in Seq(Requests) /\ DOMAIN << >> = {}
    OBVIOUS
  <2>2. OwnSteps("Proto", FALSE, "light_off", << >>) /\ VerifiedSteps(<< >>)
    BY <2>1 DEF OwnSteps, VerifiedSteps
  <2>3. PoolSteps("Proto", "light_off", << >>)
    BY <2>1 DEF PoolSteps, SwitchOver
  <2> QED
    BY <1>1, <2>1, <2>2, <2>3 DEF Fits, Names
LEMMA SixSteps ==
  ASSUME NEW s1 \in Requests, NEW s2 \in Requests, NEW s3 \in Requests, NEW s4 \in Requests,
         NEW s5 \in Requests, NEW s6 \in Requests
  PROVE  LET q == <<s1, s2, s3, s4, s5, s6>>
         IN  /\ q \in Seq(Requests) /\ Len(q) = 6 /\ DOMAIN q = {1, 2, 3, 4, 5, 6}
             /\ q[1] = s1 /\ q[2] = s2 /\ q[3] = s3 /\ q[4] = s4 /\ q[5] = s5 /\ q[6] = s6
OBVIOUS

LEMMA VnishPowerFits ==
  Fits("Vnish", FALSE, "set_power_limit",
     <<Read({"preset"}, Must), Needs("preset", "false"), Read({"target", "overclock"}, Must),
       Rewrite({"target"}, {"overclock"}, Must), Read({"target"}, Must), Verify("target")>>)
<1> DEFINE s1 == Read({"preset"}, Must)
           s2 == Needs("preset", "false")
           s3 == Read({"target", "overclock"}, Must)
           s4 == Rewrite({"target"}, {"overclock"}, Must)
           s5 == Read({"target"}, Must)
           s6 == Verify("target")
           q == <<s1, s2, s3, s4, s5, s6>>
<1>1. "preset" \in Cells /\ "target" \in Cells /\ "overclock" \in Cells /\ "false" \in Failures
  BY DEF Cells, Settings, Facts, Failures
<1>2. /\ StepFields(s1, "read", {"preset"}, {}, Must, "next")
      /\ StepFields(s2, "needs", {"preset"}, {}, [Must EXCEPT !.refused = "false"], "next")
      /\ StepFields(s3, "read", {"target", "overclock"}, {}, Must, "next")
      /\ StepFields(s4, "write", {"target"}, {"overclock"}, Must, "next")
      /\ StepFields(s5, "read", {"target"}, {}, Must, "next")
      /\ StepFields(s6, "verify", {"target"}, {}, Must, "next")
  BY <1>1, FailuresTyped, NeedsIs, StepIs DEF Read, Rewrite, Verify
<1> HIDE DEF s1, s2, s3, s4, s5, s6
<1>3. /\ q \in Seq(Requests) /\ Len(q) = 6 /\ DOMAIN q = {1, 2, 3, 4, 5, 6}
      /\ q[1] = s1 /\ q[2] = s2 /\ q[3] = s3 /\ q[4] = s4 /\ q[5] = s5 /\ q[6] = s6
  BY <1>2, SixSteps DEF StepFields
<1> HIDE DEF q
<1>4. Meant(FALSE, "set_power_limit") = {"target"}
  BY DEF Meant
<1>5. OwnSteps("Vnish", FALSE, "set_power_limit", q)
  <2>1. \A n \in {1, 2, 3, 5, 6} : ~Changes(q[n]) /\ q[n].kept = {}
    BY <1>2, <1>3 DEF StepFields, Changes
  <2>2. q[4].cells = {"target"} /\ q[4].kept = {"overclock"}
    BY <1>2, <1>3 DEF StepFields
  <2>3. Fresh(q, 4, "overclock")
    BY <1>2, <1>3 DEF StepFields, Fresh, Surely, Must
  <2> QED
    BY <1>3, <1>4, <2>1, <2>2, <2>3 DEF OwnSteps, Rewriters, Derived
<1>6. SureSteps(q, "target")
  <2>1. SureBefore(q, 6, "target") /\ SureBefore(q, 7, "target")
    BY <1>2, <1>3, SureFailures DEF StepFields, SureBefore, SureWrite, Sure
  <2> QED
    BY <1>2, <1>3, <2>1 DEF SureSteps, StepFields
<1>7. VerifiedSteps(q)
  <2>1. Fresh(q, 6, "target")
    BY <1>2, <1>3 DEF StepFields, Fresh, Surely, Must
  <2>2. Wrote(q, 6, "target")
    <3>1. \A m \in (4 + 1)..(6 - 1) : m = 5
      OBVIOUS
    <3> QED
      BY <1>2, <1>3, <3>1 DEF StepFields, Wrote, Changes
  <2> QED
    BY <1>2, <1>3, <2>1, <2>2 DEF VerifiedSteps, StepFields, Derived
<1>8. PoolSteps("Vnish", "set_power_limit", q)
  BY <1>2, <1>3 DEF PoolSteps, StepFields, SwitchOver
<1> QED
  BY <1>3, <1>4, <1>5, <1>6, <1>7, <1>8 DEF Fits, Names, q, s1, s2, s3, s4, s5, s6

(* Marathon looks for the mode, and for one more thing, before it reads   *)
(* the object and writes it back.                                         *)
LEMMA MarathonModeFits ==
  ASSUME NEW op \in {"pause", "resume"}, NEW s3 \in Requests, s3.does \in {"needs", "read"},
         s3.kept = {}, s3.then = "next"
  PROVE  Fits("Marathon", TRUE, op,
              <<Read({"mode"}, Must), DoneIf("mode"), s3, Read(MarathonConf, Must),
                Rewrite({"mode"}, MarathonConf \ {"mode"}, Must)>>)
<1> DEFINE s1 == Read({"mode"}, Must)
           s2 == DoneIf("mode")
           s4 == Read(MarathonConf, Must)
           s5 == Rewrite({"mode"}, MarathonConf \ {"mode"}, Must)
           q == <<s1, s2, s3, s4, s5>>
<1>1. "mode" \in Cells /\ "pools" \in Cells
  BY DEF Cells, Settings
<1>2. /\ StepFields(s1, "read", {"mode"}, {}, Must, "next")
      /\ StepFields(s2, "done_if", {"mode"}, {}, Must, "next")
      /\ StepFields(s4, "read", {"pools", "mode"}, {}, Must, "next")
      /\ StepFields(s5, "write", {"mode"}, {"pools"}, Must, "next")
  <2>1. MarathonConf \ {"mode"} = {"pools"}
    BY DEF MarathonConf
  <2> QED
    BY <1>1, <2>1, FailuresTyped, StepIs DEF Read, DoneIf, Rewrite, MarathonConf
<1> HIDE DEF s1, s2, s4, s5
<1>3. /\ q \in Seq(Requests) /\ Len(q) = 5 /\ DOMAIN q = {1, 2, 3, 4, 5}
      /\ q[1] = s1 /\ q[2] = s2 /\ q[3] = s3 /\ q[4] = s4 /\ q[5] = s5
  BY <1>2, FiveSteps DEF StepFields
<1> HIDE DEF q
<1>4. Meant(TRUE, op) = {"mode"} /\ op \in Names
  BY DEF Meant, Names
<1>5. OwnSteps("Marathon", TRUE, op, q)
  <2>1. \A n \in {1, 2, 3, 4} : ~Changes(q[n]) /\ q[n].kept = {}
    BY <1>2, <1>3 DEF StepFields, Changes
  <2>2. q[5].cells = {"mode"} /\ q[5].kept = {"pools"}
    BY <1>2, <1>3 DEF StepFields
  <2>3. Fresh(q, 5, "pools")
    BY <1>2, <1>3 DEF StepFields, Fresh, Surely, Must
  <2> QED
    BY <1>3, <1>4, <2>1, <2>2, <2>3 DEF OwnSteps, Rewriters, Derived
<1>6. SureSteps(q, "mode")
  BY <1>2, <1>3, SureFailures DEF SureSteps, StepFields, SureBefore, SureWrite, Sure
<1>7. VerifiedSteps(q)
  BY <1>2, <1>3 DEF VerifiedSteps, StepFields
<1>8. PoolSteps("Marathon", op, q)
  BY <1>2, <1>3 DEF PoolSteps, StepFields, SwitchOver
<1>9. \E n \in DOMAIN q : "mode" \in q[n].cells
  BY <1>2, <1>3 DEF StepFields
<1> QED
  BY <1>3, <1>4, <1>5, <1>6, <1>7, <1>8, <1>9 DEF Fits, q, s1, s2, s4, s5

LEMMA ThreeAndTwo ==
  ASSUME NEW s1 \in Requests, NEW s2 \in Requests, NEW s3 \in Requests, NEW s4 \in Requests,
         NEW s5 \in Requests
  PROVE  <<s1, s2, s3>> \o <<s4, s5>> = <<s1, s2, s3, s4, s5>>
<1> DEFINE p == <<s1, s2, s3>> \o <<s4, s5>>
           q == <<s1, s2, s3, s4, s5>>
<1>1. p \in Seq(Requests) /\ Len(p) = 5
  OBVIOUS
<1>2. p[1] = s1 /\ p[2] = s2 /\ p[3] = s3 /\ p[4] = s4 /\ p[5] = s5
  OBVIOUS
<1>3. /\ q \in Seq(Requests) /\ Len(q) = 5
      /\ q[1] = s1 /\ q[2] = s2 /\ q[3] = s3 /\ q[4] = s4 /\ q[5] = s5
  BY FiveSteps
<1> HIDE DEF p, q
<1>4. \A i \in 1..5 : p[i] = q[i]
  <2>1. \A i \in 1..5 : i = 1 \/ i = 2 \/ i = 3 \/ i = 4 \/ i = 5
    OBVIOUS
  <2> QED
    BY <1>2, <1>3, <2>1
<1>5. p = q
  BY <1>1, <1>3, <1>4
<1> QED
  BY <1>5 DEF p, q

LEMMA MarathonFits ==
  AllFit("Marathon", TRUE, MarathonSetPools ++ MarathonPause)
<1>1. "mode" \in Cells /\ "pools" \in Cells /\ "history" \in Cells /\ "error" \in Failures
  BY DEF Cells, Settings, Facts, Failures
<1>2. AllFit("Marathon", TRUE, MarathonSetPools)
  <2>1. Fits("Marathon", TRUE, "set_pools", MarathonSetConf("pools"))
    <3>1. Meant(TRUE, "set_pools") = {"pools"} /\ "set_pools" \in Names \ {"pause"}
      BY DEF Meant, Names
    <3>2. MarathonConf \in SUBSET (Cells \ Derived) /\ "pools" \in MarathonConf
      BY <1>1 DEF MarathonConf, Derived
    <3>3. "Marathon" \in Rewriters
      BY DEF Rewriters
    <3>4. Fits("Marathon", TRUE, "set_pools",
               <<Read(MarathonConf, Must), Rewrite({"pools"}, MarathonConf \ {"pools"}, Must)>>)
      BY ONLY <1>1, <3>1, <3>2, <3>3, SureFailures, ReadAndRewriteFit
    <3> QED
      BY <3>4 DEF MarathonSetConf
  <2>2. /\ DOMAIN MarathonSetPools = {"set_pools"}
        /\ MarathonSetPools["set_pools"] = MarathonSetConf("pools")
    BY DEF MarathonSetPools
  <2> QED
    BY <2>1, <2>2 DEF AllFit
<1>3. AllFit("Marathon", TRUE, MarathonPause)
  <2> DEFINE s1 == Read({"mode"}, Must)
             s2 == DoneIf("mode")
             s4 == Read(MarathonConf, Must)
             s5 == Rewrite({"mode"}, MarathonConf \ {"mode"}, Must)
  <2>1. StepFields(Needs("mode", "error"), "needs", {"mode"}, {},
                   [Must EXCEPT !.refused = "error"], "next")
    BY <1>1, NeedsIs
  <2>2. StepFields(Read({"history"}, Must), "read", {"history"}, {}, Must, "next")
    BY <1>1, FailuresTyped, StepIs DEF Read
  <2>3. /\ StepFields(s1, "read", {"mode"}, {}, Must, "next")
        /\ StepFields(s2, "done_if", {"mode"}, {}, Must, "next")
        /\ StepFields(s4, "read", MarathonConf, {}, Must, "next")
        /\ StepFields(s5, "write", {"mode"}, MarathonConf \ {"mode"}, Must, "next")
    <3>1. MarathonConf \in SUBSET Cells
      BY <1>1 DEF MarathonConf
    <3> QED
      BY <1>1, <3>1, FailuresTyped, StepIs DEF Read, DoneIf, Rewrite
  <2>4. Fits("Marathon", TRUE, "pause", <<s1, s2, Needs("mode", "error")>> \o <<s4, s5>>)
    <3>1. <<s1, s2, Needs("mode", "error")>> \o <<s4, s5>>
            = <<s1, s2, Needs("mode", "error"), s4, s5>>
      BY <2>1, <2>3, ThreeAndTwo DEF StepFields
    <3>2. Fits("Marathon", TRUE, "pause", <<s1, s2, Needs("mode", "error"), s4, s5>>)
      BY <2>1, MarathonModeFits DEF StepFields
    <3> QED
      BY ONLY <3>1, <3>2
  <2>5. Fits("Marathon", TRUE, "resume", <<s1, s2, Read({"history"}, Must)>> \o <<s4, s5>>)
    <3>1. <<s1, s2, Read({"history"}, Must)>> \o <<s4, s5>>
            = <<s1, s2, Read({"history"}, Must), s4, s5>>
      BY <2>2, <2>3, ThreeAndTwo DEF StepFields
    <3>2. Fits("Marathon", TRUE, "resume", <<s1, s2, Read({"history"}, Must), s4, s5>>)
      BY <2>2, MarathonModeFits DEF StepFields
    <3> QED
      BY ONLY <3>1, <3>2
  <2> HIDE DEF s1, s2, s4, s5
  <2>6. /\ DOMAIN MarathonPause = {"pause", "resume"}
        /\ MarathonPause["pause"] = <<s1, s2, Needs("mode", "error")>> \o <<s4, s5>>
        /\ MarathonPause["resume"] = <<s1, s2, Read({"history"}, Must)>> \o <<s4, s5>>
    BY DEF MarathonPause, MarathonSetConf, s1, s2, s4, s5
  <2> QED
    BY <2>4, <2>5, <2>6 DEF AllFit
<1> QED
  BY <1>2, <1>3, JoinedFit
(* The operations of one write that many backends have. *)
LEMMA CommonTablesFit ==
  ASSUME NEW name, NEW sleeps \in BOOLEAN, NEW f, Sure(f)
  PROVE  /\ AllFit(name, sleeps, Each({"light_on", "light_off"}, {"light"}, f))
         /\ AllFit(name, sleeps, Each({"light_on"}, {"light"}, f))
         /\ AllFit(name, sleeps, Each({"restart"}, {"boots"}, f))
         /\ AllFit(name, sleeps, Each({"set_power_limit"}, {"target"}, f))
         /\ AllFit(name, sleeps, Each({"tune_power"}, {"target"}, f))
         /\ AllFit(name, sleeps, Each({"set_power_limit", "tune_power"}, {"target"}, f))
         /\ AllFit(name, sleeps, Each({"factory_reset"}, {"reset"}, f))
         /\ AllFit(name, sleeps, Each({"upgrade_firmware"}, {"firmware"}, f))
         /\ AllFit(name, sleeps, Each({"set_fan"}, {"fan"}, f))
<1>1. /\ {"light", "boots", "target", "reset", "firmware", "fan"} \subseteq Cells \ Derived
      /\ {"light_on", "light_off", "restart", "set_power_limit", "tune_power", "factory_reset",
          "upgrade_firmware", "set_fan"} \subseteq Names
  BY DEF Cells, Settings, Derived, Names
<1>2. f \in FailPairs /\ f.refused # "next" /\ f.lost # "next"
  BY DEF Sure
<1>3. AllFit(name, sleeps, Each({"light_on", "light_off"}, {"light"}, f))
  <2>1. \A op \in {"light_on", "light_off"} : Meant(sleeps, op) = {"light"}
    BY DEF Meant
  <2> QED
    BY <1>1, <1>2, <2>1, EachFits
<1>4. AllFit(name, sleeps, Each({"light_on"}, {"light"}, f))
  <2>1. \A op \in {"light_on"} : Meant(sleeps, op) = {"light"}
    BY DEF Meant
  <2> QED
    BY <1>1, <1>2, <2>1, EachFits
<1>5. AllFit(name, sleeps, Each({"restart"}, {"boots"}, f))
  <2>1. \A op \in {"restart"} : Meant(sleeps, op) = {"boots"}
    BY DEF Meant
  <2> QED
    BY <1>1, <1>2, <2>1, EachFits
<1>6. /\ AllFit(name, sleeps, Each({"set_power_limit"}, {"target"}, f))
      /\ AllFit(name, sleeps, Each({"tune_power"}, {"target"}, f))
      /\ AllFit(name, sleeps, Each({"set_power_limit", "tune_power"}, {"target"}, f))
  <2>1. \A op \in {"set_power_limit", "tune_power"} : Meant(sleeps, op) = {"target"}
    BY DEF Meant
  <2>2. ASSUME NEW ops \in SUBSET {"set_power_limit", "tune_power"}
        PROVE  AllFit(name, sleeps, Each(ops, {"target"}, f))
    BY <1>1, <1>2, <2>1, EachFits
  <2> QED
    BY <2>2
<1>7. AllFit(name, sleeps, Each({"factory_reset"}, {"reset"}, f))
  <2>1. \A op \in {"factory_reset"} : Meant(sleeps, op) = {"reset"}
    BY DEF Meant
  <2> QED
    BY <1>1, <1>2, <2>1, EachFits
<1>8. AllFit(name, sleeps, Each({"upgrade_firmware"}, {"firmware"}, f))
  <2>1. \A op \in {"upgrade_firmware"} : Meant(sleeps, op) = {"firmware"}
    BY DEF Meant
  <2> QED
    BY <1>1, <1>2, <2>1, EachFits
<1>9. AllFit(name, sleeps, Each({"set_fan"}, {"fan"}, f))
  <2>1. \A op \in {"set_fan"} : Meant(sleeps, op) = {"fan"}
    BY DEF Meant
  <2> QED
    BY <1>1, <1>2, <2>1, EachFits
<1> QED
  BY <1>3, <1>4, <1>5, <1>6, <1>7, <1>8, <1>9

LEMMA SetPoolsFit ==
  ASSUME NEW name, name \notin ManyStepPools, NEW sleeps \in BOOLEAN, NEW f, Sure(f)
  PROVE  AllFit(name, sleeps, Each({"set_pools"}, {"pools"}, f))
<1>1. "pools" \in Cells \ Derived /\ "set_pools" \in Names
  BY DEF Cells, Settings, Derived, Names
<1>2. \A op \in {"set_pools"} : Meant(sleeps, op) = {"pools"}
  BY DEF Meant
<1> QED
  BY <1>1, <1>2, EachFits DEF Sure

LEMMA PauseResumeFit ==
  ASSUME NEW name, NEW f, Sure(f), NEW ops \in SUBSET {"pause", "resume"}
  PROVE  AllFit(name, FALSE, Each(ops, {"running"}, f))
<1>1. "running" \in Cells \ Derived /\ {"pause", "resume"} \subseteq Names
  BY DEF Cells, Settings, Derived, Names
<1>2. \A op \in {"pause", "resume"} : Meant(FALSE, op) = {"running"}
  BY DEF Meant
<1> QED
  BY <1>1, <1>2, EachFits DEF Sure

(* Two of the operations that may only hope, in one write.                *)
LEMMA HopefulFit ==
  ASSUME NEW name, NEW op, <<name, op>> \in MayOnlyHope, NEW f \in FailPairs
  PROVE  /\ op = "restart" => AllFit(name, FALSE, Each({"restart"}, {"boots"}, f))
         /\ op = "pause" => AllFit(name, FALSE, Each({"pause"}, {"running"}, f))
         /\ op = "resume" => AllFit(name, FALSE, Each({"resume"}, {"running"}, f))
         /\ op = "tune_mode" => AllFit(name, FALSE, Each({"tune_mode"}, {"mode"}, f))
<1>1. /\ {"boots", "running", "mode"} \subseteq Cells \ Derived
      /\ {"restart", "pause", "resume", "tune_mode"} \subseteq Names
  BY DEF Cells, Settings, Derived, Names
<1>2. /\ Meant(FALSE, "restart") = {"boots"} /\ Meant(FALSE, "pause") = {"running"}
      /\ Meant(FALSE, "resume") = {"running"} /\ Meant(FALSE, "tune_mode") = {"mode"}
  BY DEF Meant
<1>3. ASSUME NEW x \in Cells \ Derived, op \in Names \ {"set_pools"}, Meant(FALSE, op) = {x}
      PROVE  AllFit(name, FALSE, Each({op}, {x}, f))
  BY <1>3, EachFits
<1> QED
  BY <1>1, <1>2, <1>3
LEMMA NothingFits == \A name : AllFit(name, FALSE, << >>)
<1>1. DOMAIN << >> = {}
  OBVIOUS
<1> QED
  BY <1>1 DEF AllFit

LEMMA NoPoolSteps ==
  /\ "WhatsMinerV2" \notin ManyStepPools /\ "WhatsMinerV3" \notin ManyStepPools
  /\ "AntMinerV2020" \notin ManyStepPools /\ "AntMinerV2023" \notin ManyStepPools
  /\ "BraiinsV2507" \notin ManyStepPools /\ "BraiinsV2604" \notin ManyStepPools
  /\ "AvalonA" \notin ManyStepPools /\ "AvalonQ" \notin ManyStepPools
  /\ "Vnish" \notin ManyStepPools /\ "Marathon" \notin ManyStepPools
  /\ "Auradine" \notin ManyStepPools /\ "Proto" \notin ManyStepPools
  /\ "SealMiner" \notin ManyStepPools
BY DEF ManyStepPools, SwitchOver

LEMMA Hopes ==
  /\ <<"WhatsMinerV2", "restart">> \in MayOnlyHope /\ <<"WhatsMinerV3", "restart">> \in MayOnlyHope
  /\ <<"WhatsMinerV2", "pause">> \in MayOnlyHope /\ <<"WhatsMinerV2", "tune_mode">> \in MayOnlyHope
  /\ <<"AvalonA", "resume">> \in MayOnlyHope /\ <<"AvalonQ", "resume">> \in MayOnlyHope
  /\ <<"LuxMiner", "restart">> \in MayOnlyHope
BY DEF MayOnlyHope

LEMMA WhatsMinerV2Fits == AllFit("WhatsMinerV2", FALSE, WhatsMinerV2Control ++ WhatsMinerV2Tuning)
<1>1. AllFit("WhatsMinerV2", FALSE, WhatsMinerV2Control)
  BY FailuresTyped, SureFailures, NoPoolSteps, Hopes, CommonTablesFit, SetPoolsFit, PauseResumeFit,
     HopefulFit, JoinedFit DEF WhatsMinerV2Control
<1>2. Fits("WhatsMinerV2", FALSE, "tune_mode", <<Send({"mode"}, MayNotAnswer)>>)
  <2>1. "tune_mode" \in {"tune_mode"}
    OBVIOUS
  <2> QED
    BY <2>1, FailuresTyped, Hopes, HopefulFit DEF AllFit, Each
<1>3. Fits("WhatsMinerV2", FALSE, "tune_power", <<Send({"target"}, Must), Send({"mode"}, Ignored)>>)
  <2>1. /\ "tune_power" \in Names \ {"pause"} /\ "target" \in Cells \ Derived /\ "mode" \in Cells
        /\ Meant(FALSE, "tune_power") = {"target"}
        /\ "mode" \in Aside("WhatsMinerV2", "tune_power") /\ "WhatsMinerV2" \notin SwitchOver
    BY DEF Names, Cells, Settings, Derived, Meant, Aside, SwitchOver
  <2> QED
    BY <2>1, FailuresTyped, SureFailures, TwoSendsFit
<1>4. AllFit("WhatsMinerV2", FALSE, WhatsMinerV2Tuning)
  <2>1. /\ DOMAIN WhatsMinerV2Tuning = {"tune_mode", "tune_power"}
        /\ WhatsMinerV2Tuning["tune_mode"] = <<Send({"mode"}, MayNotAnswer)>>
        /\ WhatsMinerV2Tuning["tune_power"] = <<Send({"target"}, Must), Send({"mode"}, Ignored)>>
    BY DEF WhatsMinerV2Tuning
  <2> QED
    BY <1>2, <1>3, <2>1 DEF AllFit
<1> QED
  BY <1>1, <1>4, JoinedFit

LEMMA WhatsMinerV3Fits == AllFit("WhatsMinerV3", FALSE, WhatsMinerV3Control ++ WhatsMinerV3Tuning)
<1>1. AllFit("WhatsMinerV3", FALSE, WhatsMinerV3Control)
  BY FailuresTyped, SureFailures, NoPoolSteps, Hopes, CommonTablesFit, SetPoolsFit, PauseResumeFit,
     HopefulFit, JoinedFit DEF WhatsMinerV3Control
<1>2. AllFit("WhatsMinerV3", FALSE, WhatsMinerV3Tuning)
  <2>1. /\ DOMAIN WhatsMinerV3Tuning = {"tune_mode", "tune_power"}
        /\ WhatsMinerV3Tuning["tune_mode"]
             = <<SendOr({"mode"}, Ignored), Send({"mode"}, MayNotAnswer)>>
        /\ WhatsMinerV3Tuning["tune_power"]
             = <<Send({"target"}, Must), SendOr({"mode"}, Ignored), Send({"mode"}, Ignored)>>
    BY DEF WhatsMinerV3Tuning
  <2> QED
    BY <2>1, WhatsMinerV3ModeFits, WhatsMinerV3PowerFits DEF AllFit
<1> QED
  BY <1>1, <1>2, JoinedFit

LEMMA AntMinerV2020Fits ==
  AllFit("AntMinerV2020", TRUE, AntMinerV2020Mining ++ AntMinerV2020Device ++ AntMinerV2020Fan)
<1>1. /\ "mode" \in Cells /\ "pools" \in Cells /\ "fan" \in Cells /\ "model" \in Cells
      /\ AntMinerV2020Conf \in SUBSET (Cells \ Derived) /\ "firmware" \in Cells \ Derived
      /\ "pools" \in AntMinerV2020Conf /\ "fan" \in AntMinerV2020Conf
      /\ "AntMinerV2020" \in Rewriters
      /\ {"set_pools", "set_fan", "upgrade_firmware", "tune_mode"} \subseteq Names \ {"pause"}
      /\ Meant(TRUE, "set_pools") = {"pools"} /\ Meant(TRUE, "set_fan") = {"fan"}
      /\ Meant(TRUE, "upgrade_firmware") = {"firmware"} /\ Meant(TRUE, "tune_mode") = {"mode"}
  BY DEF AntMinerV2020Conf, Cells, Settings, Facts, Derived, Rewriters, Names, Meant
<1>2. Fits("AntMinerV2020", TRUE, "set_pools",
           <<Read(AntMinerV2020Conf, Must), AntMinerV2020SetConf("pools", IsOk)>>)
  BY <1>1, SureFailures, ReadAndRewriteFit DEF AntMinerV2020SetConf
<1>3. Fits("AntMinerV2020", TRUE, "set_fan",
           <<Read(AntMinerV2020Conf, Must), AntMinerV2020SetConf("fan", Must)>>)
  BY <1>1, SureFailures, ReadAndRewriteFit DEF AntMinerV2020SetConf
<1>4. Fits("AntMinerV2020", TRUE, "upgrade_firmware",
           <<Read({"model"}, Must), Send({"firmware"}, Must)>>)
  BY <1>1, NoPoolSteps, FailuresTyped, SureFailures, ReadAndSendFit
<1>5. AllFit("AntMinerV2020", TRUE, AntMinerV2020Fan)
  <2>1. /\ DOMAIN AntMinerV2020Fan = {"set_fan"}
        /\ AntMinerV2020Fan["set_fan"]
             = <<Read(AntMinerV2020Conf, Must), AntMinerV2020SetConf("fan", Must)>>
    BY DEF AntMinerV2020Fan
  <2> QED
    BY <1>3, <2>1 DEF AllFit
<1>6. AllFit("AntMinerV2020", TRUE, AntMinerV2020Device)
  <2> DEFINE d == [upgrade_firmware |-> <<Read({"model"}, Must), Send({"firmware"}, Must)>>,
                   tune_mode |-> <<Read(AntMinerV2020Conf, Must), Needs("mode", "error"),
                                   AntMinerV2020SetConf("mode", Must)>>]
  <2>1. /\ DOMAIN d = {"upgrade_firmware", "tune_mode"}
        /\ d["upgrade_firmware"] = <<Read({"model"}, Must), Send({"firmware"}, Must)>>
        /\ d["tune_mode"] = <<Read(AntMinerV2020Conf, Must), Needs("mode", "error"),
                              AntMinerV2020SetConf("mode", Must)>>
    OBVIOUS
  <2>2. AntMinerV2020Device = Each({"factory_reset"}, {"reset"}, Must) ++ d
    BY DEF AntMinerV2020Device
  <2> HIDE DEF d
  <2>3. AllFit("AntMinerV2020", TRUE, d)
    BY <1>1, <1>4, <2>1, AntMinerModeFits DEF AllFit
  <2> QED
    BY <2>2, <2>3, SureFailures, CommonTablesFit, JoinedFit
<1>7. AllFit("AntMinerV2020", TRUE, AntMinerV2020Mining)
  <2> DEFINE d == [set_pools |-> <<Read(AntMinerV2020Conf, Must),
                                   AntMinerV2020SetConf("pools", IsOk)>>]
             p == [o \in {"pause", "resume"} |->
                     <<Read(AntMinerV2020Conf, Must), Needs("mode", "false"),
                       AntMinerV2020SetConf("mode", Must), Read({"mode"}, Must), Verify("mode")>>]
  <2>1. /\ DOMAIN d = {"set_pools"}
        /\ d["set_pools"] = <<Read(AntMinerV2020Conf, Must), AntMinerV2020SetConf("pools", IsOk)>>
    OBVIOUS
  <2>2. AllFit("AntMinerV2020", TRUE, p)
    BY AntMinerPauseFits DEF AllFit
  <2>3. AntMinerV2020Mining = Each({"light_on", "light_off"}, {"light"}, IsOk)
                                ++ Each({"restart"}, {"boots"}, IsOk) ++ d ++ p
    BY DEF AntMinerV2020Mining
  <2> HIDE DEF d, p
  <2>4. AllFit("AntMinerV2020", TRUE, d)
    BY <1>2, <2>1 DEF AllFit
  <2> QED
    BY <2>2, <2>3, <2>4, SureFailures, CommonTablesFit, JoinedFit
<1> QED
  BY <1>5, <1>6, <1>7, JoinedFit

LEMMA AntMinerV2023Fits ==
  AllFit("AntMinerV2023", TRUE, AntMinerV2023Mining ++ AntMinerV2023Device ++ AntMinerV2023Fan)
<1>1. /\ "mode" \in Cells \ Derived /\ "model" \in Cells /\ "firmware" \in Cells \ Derived
      /\ {"upgrade_firmware", "tune_mode"} \subseteq Names \ {"pause"}
      /\ {"pause", "resume"} \subseteq Names
      /\ Meant(TRUE, "pause") = {"mode"} /\ Meant(TRUE, "resume") = {"mode"}
      /\ Meant(TRUE, "upgrade_firmware") = {"firmware"} /\ Meant(TRUE, "tune_mode") = {"mode"}
      /\ {"false", "error"} \subseteq Failures
  BY DEF Cells, Settings, Facts, Derived, Names, Meant, Failures
<1>2. Fits("AntMinerV2023", TRUE, "upgrade_firmware",
           <<Read({"model"}, Must), Send({"firmware"}, Must)>>)
  BY <1>1, NoPoolSteps, FailuresTyped, SureFailures, ReadAndSendFit
<1>3. Fits("AntMinerV2023", TRUE, "tune_mode",
           <<Read({"mode"}, Must), Needs("mode", "error"), Send({"mode"}, Must)>>)
  BY <1>1, NoPoolSteps, FailuresTyped, SureFailures, LookAndSendFit
<1>4. ASSUME NEW op \in {"pause", "resume"}
      PROVE  Fits("AntMinerV2023", TRUE, op,
                  <<Read({"mode"}, Must), Needs("mode", "false"), Send({"mode"}, IsOk)>>)
  BY <1>1, NoPoolSteps, FailuresTyped, SureFailures, LookAndSendFit
<1>5. AllFit("AntMinerV2023", TRUE, AntMinerV2023Device)
  <2> DEFINE d == [upgrade_firmware |-> <<Read({"model"}, Must), Send({"firmware"}, Must)>>,
                   tune_mode |-> <<Read({"mode"}, Must), Needs("mode", "error"),
                                   Send({"mode"}, Must)>>]
  <2>1. /\ DOMAIN d = {"upgrade_firmware", "tune_mode"}
        /\ d["upgrade_firmware"] = <<Read({"model"}, Must), Send({"firmware"}, Must)>>
        /\ d["tune_mode"] = <<Read({"mode"}, Must), Needs("mode", "error"), Send({"mode"}, Must)>>
    OBVIOUS
  <2>2. AntMinerV2023Device = Each({"factory_reset"}, {"reset"}, Must) ++ d
    BY DEF AntMinerV2023Device
  <2> HIDE DEF d
  <2>3. AllFit("AntMinerV2023", TRUE, d)
    BY <1>2, <1>3, <2>1 DEF AllFit
  <2> QED
    BY <2>2, <2>3, SureFailures, CommonTablesFit, JoinedFit
<1>6. AllFit("AntMinerV2023", TRUE, AntMinerV2023Mining)
  <2> DEFINE p == [o \in {"pause", "resume"} |->
                     <<Read({"mode"}, Must), Needs("mode", "false"), Send({"mode"}, IsOk)>>]
  <2>1. AllFit("AntMinerV2023", TRUE, p)
    BY <1>4 DEF AllFit
  <2>2. AntMinerV2023Mining = Each({"light_on", "light_off"}, {"light"}, IsOk)
                                ++ Each({"restart"}, {"boots"}, IsOk)
                                ++ Each({"set_pools"}, {"pools"}, IsOk) ++ p
    BY DEF AntMinerV2023Mining
  <2> HIDE DEF p
  <2> QED
    BY <2>1, <2>2, NoPoolSteps, SureFailures, CommonTablesFit, SetPoolsFit, JoinedFit
<1>7. AllFit("AntMinerV2023", TRUE, AntMinerV2023Fan)
  BY SureFailures, CommonTablesFit DEF AntMinerV2023Fan
<1> QED
  BY <1>5, <1>6, <1>7, JoinedFit

LEMMA AvalonFits ==
  /\ AllFit("AvalonA", FALSE, AvalonAPower ++ AvalonASettings)
  /\ AllFit("AvalonQ", FALSE, AvalonQPower ++ AvalonQSettings)
<1> DEFINE reply == [refused |-> "false", lost |-> "next"]
<1>1. reply \in FailPairs /\ Sure(AvalonReply)
  BY SureFailures DEF FailPairs, Failures, AvalonReply
<1> HIDE DEF reply
<1>2. ASSUME NEW name \in {"AvalonA", "AvalonQ"}
      PROVE  AllFit(name, FALSE, AvalonAPower) /\ AllFit(name, FALSE, AvalonASettings)
  <2>1. AllFit(name, FALSE, Each({"resume"}, {"running"}, reply))
    BY <1>1, Hopes, HopefulFit
  <2>2. AllFit(name, FALSE, AvalonAPower)
    BY <1>1, <2>1, CommonTablesFit, PauseResumeFit, JoinedFit DEF AvalonAPower, reply
  <2> QED
    BY <1>1, <2>2, CommonTablesFit, JoinedFit DEF AvalonASettings
<1>3. AllFit("AvalonQ", FALSE, AvalonQPower)
  <2>1. {"pause", "resume"} \subseteq DOMAIN AvalonAPower
    BY DEF AvalonAPower, ++, Each
  <2> QED
    BY <1>2, <2>1 DEF AllFit, AvalonQPower
<1> QED
  BY <1>2, <1>3, JoinedFit DEF AvalonQSettings

LEMMA BraiinsFits ==
  /\ \A name \in {"BraiinsV2109", "BraiinsV2503", "BraiinsV2505"} :
       AllFit(name, FALSE, BraiinsV2109Control ++ BraiinsV2109Pooling)
  /\ AllFit("BraiinsV2507", FALSE, BraiinsV2507Control)
  /\ AllFit("BraiinsV2604", FALSE, BraiinsV2604Control)
<1>1. ASSUME NEW name \in {"BraiinsV2109", "BraiinsV2503", "BraiinsV2505"}
      PROVE  AllFit(name, FALSE, BraiinsV2109Control ++ BraiinsV2109Pooling)
  <2>1. AllFit(name, FALSE, BraiinsV2109Control)
    BY SureFailures, CommonTablesFit, PauseResumeFit, JoinedFit DEF BraiinsV2109Control
  <2>2. Fits(name, FALSE, "set_pools",
             <<Send({"pools"}, ResultFlag), Send({"active_pools"}, IsOk)>>)
    <3>1. /\ "set_pools" \in Names \ {"pause"} /\ "pools" \in Cells \ Derived
          /\ "active_pools" \in Cells /\ Meant(FALSE, "set_pools") = {"pools"}
          /\ "active_pools" \in Aside(name, "set_pools") /\ name # "LuxMiner"
      BY DEF Names, Cells, Settings, Derived, Meant, Aside
    <3> QED
      BY <3>1, FailuresTyped, SureFailures, TwoSendsFit
  <2>3. /\ DOMAIN BraiinsV2109Pooling = {"set_pools"}
        /\ BraiinsV2109Pooling["set_pools"]
             = <<Send({"pools"}, ResultFlag), Send({"active_pools"}, IsOk)>>
    BY DEF BraiinsV2109Pooling
  <2>4. AllFit(name, FALSE, BraiinsV2109Pooling)
    BY <2>2, <2>3 DEF AllFit
  <2> QED
    BY <2>1, <2>4, JoinedFit
<1>2. ASSUME NEW name \in {"BraiinsV2507", "BraiinsV2604"}
      PROVE  AllFit(name, FALSE, BraiinsV2507Control)
  BY NoPoolSteps, SureFailures, CommonTablesFit, SetPoolsFit, PauseResumeFit, JoinedFit
     DEF BraiinsV2507Control
<1>3. AllFit("BraiinsV2604", FALSE, BraiinsV2604Control)
  BY <1>2, SureFailures, CommonTablesFit, JoinedFit DEF BraiinsV2604Control
<1> QED
  BY <1>1, <1>2, <1>3

LEMMA LuxMinerFits == AllFit("LuxMiner", FALSE, LuxMinerControl)
<1> DEFINE d == [set_pools |-> LuxMinerSetPools]
<1>1. DOMAIN d = {"set_pools"} /\ d["set_pools"] = LuxMinerSetPools
  OBVIOUS
<1>2. LuxMinerControl = Each({"light_on", "light_off"}, {"light"}, IsOk)
                          ++ Each({"restart"}, {"boots"}, Ignored)
                          ++ Each({"pause", "resume"}, {"running"}, IsOk) ++ d
  BY DEF LuxMinerControl
<1> HIDE DEF d
<1>3. AllFit("LuxMiner", FALSE, d)
  BY <1>1, LuxMinerPoolsFit DEF AllFit
<1> QED
  BY <1>2, <1>3, FailuresTyped, SureFailures, Hopes, CommonTablesFit, PauseResumeFit, HopefulFit,
     JoinedFit

LEMMA VnishFits == AllFit("Vnish", FALSE, VnishLight ++ VnishPower ++ VnishControl)
<1>1. AllFit("Vnish", FALSE, VnishControl)
  BY NoPoolSteps, SureFailures, CommonTablesFit, SetPoolsFit, PauseResumeFit, JoinedFit
     DEF VnishControl
<1>2. AllFit("Vnish", FALSE, VnishPower)
  <2>1. /\ DOMAIN VnishPower = {"set_power_limit"}
        /\ VnishPower["set_power_limit"] =
             <<Read({"preset"}, Must), Needs("preset", "false"),
               Read({"target", "overclock"}, Must), Rewrite({"target"}, {"overclock"}, Must),
               Read({"target"}, Must), Verify("target")>>
    BY DEF VnishPower
  <2> QED
    BY <2>1, VnishPowerFits DEF AllFit
<1>3. AllFit("Vnish", FALSE, VnishLight)
  <2>1. ASSUME NEW op \in {"light_on", "light_off"}
        PROVE  Fits("Vnish", FALSE, op,
                    <<Read({"light"}, Ignored), DoneIf("light"), Send({"light"}, ResultFlag)>>)
    <3>1. /\ op \in Names /\ op # "pause"
          /\ "light" \in Cells \ Derived /\ Meant(FALSE, op) = {"light"}
      BY DEF Names, Cells, Settings, Derived, Meant
    <3> QED
      BY <3>1, NoPoolSteps, FailuresTyped, SureFailures, LookAndSendFit
  <2> QED
    BY <2>1 DEF AllFit, VnishLight
<1> QED
  BY <1>1, <1>2, <1>3, JoinedFit

LEMMA EpicFits == AllFit("Epic", FALSE, EpicControl)
<1> DEFINE d == [set_pools |-> EpicSetPools]
<1>1. Fits("Epic", FALSE, "set_pools", EpicSetPools)
  <2>1. /\ "set_pools" \in Names \ {"pause"} /\ "pools" \in Cells \ Derived
        /\ "active_pools" \in Cells /\ Meant(FALSE, "set_pools") = {"pools"}
        /\ "active_pools" \in Aside("Epic", "set_pools")
    BY DEF Names, Cells, Settings, Derived, Meant, Aside
  <2> QED
    BY <2>1, FailuresTyped, SureFailures, TwoSendsFit DEF EpicSetPools
<1>2. DOMAIN d = {"set_pools"} /\ d["set_pools"] = EpicSetPools
  OBVIOUS
<1>3. EpicControl = Each({"light_on", "light_off"}, {"light"}, ResultFlag) ++ d
                      ++ Each({"tune_power"}, {"target"}, ResultFlag)
                      ++ Each({"set_fan"}, {"fan"}, ResultFlag)
                      ++ Each({"restart"}, {"boots"}, ResultFlag)
                      ++ Each({"pause", "resume"}, {"running"}, ResultFlag)
                      ++ Each({"upgrade_firmware"}, {"firmware"}, Must)
  BY DEF EpicControl
<1> HIDE DEF d
<1>4. AllFit("Epic", FALSE, d)
  BY <1>1, <1>2 DEF AllFit
<1> QED
  BY <1>3, <1>4, SureFailures, CommonTablesFit, PauseResumeFit, JoinedFit

LEMMA AuradineFits == AllFit("Auradine", FALSE, AuradineControl)
BY NoPoolSteps, SureFailures, CommonTablesFit, SetPoolsFit, PauseResumeFit, JoinedFit
   DEF AuradineControl

LEMMA ProtoFits == AllFit("Proto", FALSE, ProtoControl ++ ProtoConfiguration)
<1> DEFINE d == [light_off |-> << >>]
<1>1. DOMAIN d = {"light_off"} /\ d["light_off"] = << >>
  OBVIOUS
<1>2. ProtoControl = Each({"light_on"}, {"light"}, Must) ++ d
                       ++ Each({"set_power_limit", "tune_power"}, {"target"}, Must)
                       ++ Each({"restart"}, {"boots"}, Must)
                       ++ Each({"pause", "resume"}, {"running"}, Must)
  BY DEF ProtoControl
<1> HIDE DEF d
<1>3. AllFit("Proto", FALSE, d)
  BY <1>1, NoStepsFit DEF AllFit
<1>4. AllFit("Proto", FALSE, ProtoControl)
  BY <1>2, <1>3, SureFailures, CommonTablesFit, PauseResumeFit, JoinedFit
<1>5. AllFit("Proto", FALSE, ProtoConfiguration)
  BY NoPoolSteps, SureFailures, CommonTablesFit, SetPoolsFit, JoinedFit DEF ProtoConfiguration
<1> QED
  BY <1>4, <1>5, JoinedFit

LEMMA SealMinerFits == AllFit("SealMiner", FALSE, SealMinerControl ++ SealMinerSetPools)
<1>1. /\ {"set_power_limit", "tune_power", "set_pools", "resume"} \subseteq Names \ {"pause"}
      /\ {"target", "pools", "running"} \subseteq Cells \ Derived /\ "boots" \in Cells
      /\ Meant(FALSE, "set_power_limit") = {"target"} /\ Meant(FALSE, "tune_power") = {"target"}
      /\ Meant(FALSE, "set_pools") = {"pools"} /\ Meant(FALSE, "resume") = {"running"}
      /\ \A op \in {"set_power_limit", "tune_power", "set_pools"} :
           "boots" \in Aside("SealMiner", op)
      /\ "SealMiner" \notin SwitchOver
  BY DEF Names, Cells, Settings, Derived, Meant, Aside, SwitchOver
<1>2. ASSUME NEW op \in {"set_power_limit", "tune_power"}
      PROVE  Fits("SealMiner", FALSE, op, <<Send({"target"}, IsOk), SealMinerReboot>>)
  BY <1>1, FailuresTyped, SureFailures, TwoSendsFit DEF SealMinerReboot
<1>3. Fits("SealMiner", FALSE, "set_pools", <<Send({"pools"}, IsOk), SealMinerReboot>>)
  BY <1>1, FailuresTyped, SureFailures, TwoSendsFit DEF SealMinerReboot
<1>4. Fits("SealMiner", FALSE, "resume",
           <<Read({"running"}, Ignored), DoneIf("running"), Send({"running"}, IsOk)>>)
  BY <1>1, NoPoolSteps, FailuresTyped, SureFailures, LookAndSendFit
<1>5. AllFit("SealMiner", FALSE, SealMinerSetPools)
  <2>1. /\ DOMAIN SealMinerSetPools = {"set_pools"}
        /\ SealMinerSetPools["set_pools"] = <<Send({"pools"}, IsOk), SealMinerReboot>>
    BY DEF SealMinerSetPools
  <2> QED
    BY <1>3, <2>1 DEF AllFit
<1>6. AllFit("SealMiner", FALSE, SealMinerControl)
  <2> DEFINE d == [o \in {"set_power_limit", "tune_power"} |->
                     <<Send({"target"}, IsOk), SealMinerReboot>>]
             r == [resume |-> <<Read({"running"}, Ignored), DoneIf("running"),
                                Send({"running"}, IsOk)>>]
  <2>1. AllFit("SealMiner", FALSE, d)
    BY <1>2 DEF AllFit
  <2>2. /\ DOMAIN r = {"resume"}
        /\ r["resume"] = <<Read({"running"}, Ignored), DoneIf("running"), Send({"running"}, IsOk)>>
    OBVIOUS
  <2>3. SealMinerControl = Each({"light_on", "light_off"}, {"light"}, IsOk) ++ d
                             ++ Each({"restart"}, {"boots"}, IsOk)
                             ++ Each({"pause"}, {"running"}, IsOk) ++ r
    BY DEF SealMinerControl
  <2> HIDE DEF d, r
  <2>4. AllFit("SealMiner", FALSE, r)
    BY <1>4, <2>2 DEF AllFit
  <2> QED
    BY <2>1, <2>3, <2>4, SureFailures, CommonTablesFit, PauseResumeFit, JoinedFit
<1> QED
  BY <1>5, <1>6, JoinedFit

(* The tables of all backends are as the theorems above want them.         *)
THEOREM TablesAreSound == \A b \in Backends : Sound(b)
<1>1. ASSUME NEW b, AllFit(b.name, FALSE, Operations(b))
      PROVE  Sound(b)
  BY <1>1, FitIsSound
<1>2. ASSUME NEW b \in WhatsMiner PROVE Sound(b)
  BY <1>1, WhatsMinerV2Fits, WhatsMinerV3Fits, NothingFits
     DEF WhatsMiner, Backend, Operations, WhatsMinerV1Control
<1>3. ASSUME NEW b \in AntMiner PROVE Sound(b)
  <2>1. /\ "pause" \in DOMAIN (AntMinerV2020Mining ++ AntMinerV2020Device ++ AntMinerV2020Fan)
        /\ "pause" \in DOMAIN (AntMinerV2023Mining ++ AntMinerV2023Device ++ AntMinerV2023Fan)
    BY DEF ++, AntMinerV2020Mining, AntMinerV2023Mining
  <2> QED
    <3>1. \/ /\ b.name = "AntMinerV2020"
             /\ Operations(b) = AntMinerV2020Mining ++ AntMinerV2020Device ++ AntMinerV2020Fan
          \/ /\ b.name = "AntMinerV2023"
             /\ Operations(b) = AntMinerV2023Mining ++ AntMinerV2023Device ++ AntMinerV2023Fan
      BY DEF AntMiner, Backend, Operations
    <3>2. /\ b.name \in {"AntMinerV2020", "AntMinerV2023", "Marathon"}
          /\ "pause" \in DOMAIN Operations(b)
      BY <2>1, <3>1
    <3>3. AllFit(b.name, TRUE, Operations(b))
      BY <3>1, AntMinerV2020Fits, AntMinerV2023Fits
    <3> QED
      BY <3>2, <3>3, FitIsSound
<1>4. ASSUME NEW b \in BraiinsBOSminer \union BraiinsWeb PROVE Sound(b)
  BY <1>1, BraiinsFits
     DEF BraiinsBOSminer, BraiinsWeb, Backend, Operations, BraiinsV2503Control, BraiinsV2503Pooling,
         BraiinsV2505Control, BraiinsV2505Pooling
<1>5. ASSUME NEW b \in Axe PROVE Sound(b)
  BY <1>1, NothingFits DEF Axe, Backend, Operations
<1>6. ASSUME NEW b \in Avalon PROVE Sound(b)
  BY <1>1, AvalonFits DEF Avalon, Backend, Operations
<1>7. ASSUME NEW b \in ThirdParty PROVE Sound(b)
  <2>1. "pause" \in DOMAIN (MarathonSetPools ++ MarathonPause)
    BY DEF ++, MarathonPause
  <2> QED
    <3>1. \/ b.name = "LuxMiner" /\ Operations(b) = LuxMinerControl
          \/ b.name = "Vnish" /\ Operations(b) = VnishLight ++ VnishPower ++ VnishControl
          \/ b.name = "Epic" /\ Operations(b) = EpicControl
          \/ b.name = "Marathon" /\ Operations(b) = MarathonSetPools ++ MarathonPause
      BY DEF ThirdParty, Backend, Operations
    <3>2. \/ AllFit(b.name, FALSE, Operations(b))
          \/ b.name = "Marathon" /\ AllFit(b.name, TRUE, Operations(b))
             /\ "pause" \in DOMAIN Operations(b)
      BY <2>1, <3>1, LuxMinerFits, VnishFits, EpicFits, MarathonFits
    <3> QED
      BY <3>2, FitIsSound
<1>8. ASSUME NEW b \in Vendors PROVE Sound(b)
  BY <1>1, AuradineFits, ProtoFits, SealMinerFits DEF Vendors, Backend, Operations
<1> QED
  BY <1>2, <1>3, <1>4, <1>5, <1>6, <1>7, <1>8 DEF Backends
-----------------------------------------------------------------------------
(* For any of the backends, any number of callers and any number of things *)
(* that go wrong: the calls and the device are what the model says of them.*)
COROLLARY BackendsTypeCorrect ==
  ASSUME Table \subseteq Backends
  PROVE  Spec => []ControlTypeOK
BY TablesAreSound, TypeCorrect DEF Sound

(* An operation of a backend changes what it is about and nothing else,    *)
(* unless the backend writes a whole object back and was disturbed.        *)
COROLLARY BackendsWriteTheirOwn ==
  ASSUME Table \subseteq Backends
  PROVE  Spec => NothingElseIsWritten
BY TablesAreSound, OnlyItsOwnIsWritten DEF Sound

(* Ok(true) of an operation of a backend means the device has done it, and *)
(* Ok(false) or an error that something went wrong, but for the operations *)
(* named in MayOnlyHope and for the pools of a LuxMiner that MayJoin those *)
(* of others.                                                              *)
COROLLARY BackendsAnswerTruly ==
  ASSUME Table \subseteq Backends
  PROVE  Spec => []AnswersAreReal
BY TablesAreSound, AnswersAlwaysReal DEF Sound

(* A set_pools_config that succeeds after all others were over leaves its  *)
(* own pools and no others, in use, whatever refusals, lost answers and    *)
(* dropped calls left behind before it: for every backend that takes       *)
(* several requests for it.  On all others the pools are never in part.    *)
COROLLARY BackendsKeepPoolsWhole ==
  ASSUME Table \subseteq Backends
  PROVE  Spec => []PoolsAreWhole
BY TablesAreSound, PoolsAlwaysWhole DEF Sound

-----------------------------------------------------------------------------
(* What is wanted of a reader whatever the backend is: it looks at its own *)
(* field and makes of some of its sources what it makes of all of them, up *)
(* to "m", which it says of the mining when nothing is known; it tells the *)
(* limit only after the mode.                                              *)
InOrder(tries) ==
  \A n \in DOMAIN tries :
    /\ tries[n].says = "mode" => tries[n].when = "mode"
    /\ tries[n].says = "power" =>
         \E m \in DOMAIN tries, s \in tries[n].needs :
           m < n /\ tries[m].when = "mode" /\ tries[m].needs = {s} /\ tries[n].needs = {s}

OwnReader(m, f, r) ==
  /\ DOMAIN r.tries \subseteq Nat
  /\ \A n \in DOMAIN r.tries :
       r.tries[n].needs # {} /\ LooksAtIts(Collects(f), r.tries[n].needs)
  /\ SaysTheSame(IF f = "IsMining" THEN {m} ELSE {}, r)
  /\ f = "TuningTarget" => InOrder(r.tries)

(* What is wanted of a reader of the backend of that name: of the target,  *)
(* what TellsTheTarget says.                                               *)
TargetBy(name, located, normal, tries) ==
  \A n \in DOMAIN tries :
    /\ tries[n].needs # {}
    /\ tries[n].says = "mode" => tries[n].when = "mode"
    /\ tries[n].says = "power" =>
         \/ normal
         \/ \E m \in DOMAIN tries, s \in tries[n].needs :
              m < n /\ tries[m].when = "mode"
                /\ tries[m].needs = {s} /\ tries[n].needs = {s}
         \/ /\ name = "WhatsMinerV3"
            /\ \E m \in DOMAIN tries, s \in located :
                 /\ m < n /\ tries[m].when = "mode"
                 /\ tries[m].needs = {s} /\ s[1] = "TuningTarget"
         \/ /\ name = "Marathon"
            /\ \A s, u \in located :
                 s[1] = "TuningTarget" /\ u[1] = "TuningTarget" => s[2] = u[2]

GoodReader(name, located, normal, f, r) ==
  /\ DOMAIN r.tries \subseteq Nat
  /\ LooksAt(located, Own(name, f), r)
  /\ SaysTheSame(Instead(name, f), r)
  /\ f = "TuningTarget" => TargetBy(name, located, normal, r.tries)

AllOwn(m, g) == \A f \in DOMAIN g : OwnReader(m, f, g[f])
AllGood(name, located, normal, g) ==
  \A f \in DOMAIN g : GoodReader(name, located, normal, f, g[f])

(* What a WhatsMiner says of the mining, and the others.                   *)
LEMMA InsteadOfMining ==
  /\ \A name \in {"WhatsMinerV1", "WhatsMinerV2", "WhatsMinerV3"} :
       "yes" \in Instead(name, "IsMining")
  /\ \A name : name \notin {"WhatsMinerV1", "WhatsMinerV2", "WhatsMinerV3"} =>
       "no" \in Instead(name, "IsMining")
BY DEF Instead

LEMMA SaysTheSameOfMore ==
  ASSUME NEW instead, NEW more, NEW r, instead \subseteq more, SaysTheSame(instead, r)
  PROVE  SaysTheSame(more, r)
<1>1. Blank \union instead \subseteq Blank \union more
  OBVIOUS
<1> QED
  BY <1>1 DEF SaysTheSame

LEMMA LooksAtOwn ==
  ASSUME NEW name, NEW f
  PROVE  /\ \A needs : LooksAtIts(Collects(f), needs) => LooksAtIts(Own(name, f), needs)
         /\ \A needs : LooksAtIts(AlsoNeeds(name, f), needs) => LooksAtIts(Own(name, f), needs)
BY DEF LooksAtIts, Own

LEMMA OwnReaderIsGood ==
  ASSUME NEW name, NEW located, NEW normal, NEW m \in Instead(name, "IsMining"),
         NEW f, NEW r, OwnReader(m, f, r)
  PROVE  GoodReader(name, located, normal, f, r)
<1>1. SaysTheSame(Instead(name, f), r)
  <2>1. (IF f = "IsMining" THEN {m} ELSE {}) \subseteq Instead(name, f)
    OBVIOUS
  <2> QED
    BY <2>1, SaysTheSameOfMore DEF OwnReader
<1>2. LooksAt(located, Own(name, f), r)
  BY LooksAtOwn DEF OwnReader, LooksAt
<1>3. f = "TuningTarget" => TargetBy(name, located, normal, r.tries)
  BY DEF OwnReader, InOrder, TargetBy
<1> QED
  BY <1>1, <1>2, <1>3 DEF OwnReader, GoodReader

LEMMA OwnIsGood ==
  ASSUME NEW name, NEW located, NEW normal, NEW m \in Instead(name, "IsMining"),
         NEW g, AllOwn(m, g)
  PROVE  AllGood(name, located, normal, g)
BY OwnReaderIsGood DEF AllOwn, AllGood

LEMMA JoinedOwn ==
  ASSUME NEW m, NEW g, NEW h, AllOwn(m, g), AllOwn(m, h)
  PROVE  AllOwn(m, g ++ h)
BY DEF AllOwn, ++

LEMMA JoinedGood ==
  ASSUME NEW name, NEW located, NEW normal, NEW g, NEW h,
         AllGood(name, located, normal, g), AllGood(name, located, normal, h)
  PROVE  AllGood(name, located, normal, g ++ h)
BY DEF AllGood, ++

(* The same of the parts of the boards and the fans.                       *)
OwnParts(f, parts) ==
  \A p \in DOMAIN parts :
    /\ parts[p].otherwise \in Blank
    /\ \A needs \in parts[p].needs : LooksAtIts(Collects(f), needs)

BlankParts(parts) == \A p \in DOMAIN parts : parts[p].otherwise \in Blank

LEMMA JoinedParts ==
  ASSUME NEW f, NEW p, NEW q
  PROVE  /\ OwnParts(f, p) /\ OwnParts(f, q) => OwnParts(f, p ++ q)
         /\ BlankParts(p) /\ BlankParts(q) => BlankParts(p ++ q)
BY DEF OwnParts, BlankParts, ++

AllRows(name, rows) ==
  \A f \in DOMAIN rows : BlankParts(rows[f].parts) /\ PartsLookAt(Own(name, f), rows[f])

LEMMA OwnPartsLook ==
  ASSUME NEW name, NEW f, NEW t, OwnParts(f, t.parts)
  PROVE  BlankParts(t.parts) /\ PartsLookAt(Own(name, f), t)
BY LooksAtOwn DEF OwnParts, BlankParts, PartsLookAt

(* All that the theorems about reads want of a backend.                    *)
ReadSoundly(b) == KeepsToItsFields(b) /\ OnlyLoses(b) /\ TellsTheTarget(b)

LEMMA DefaultOwn == \A m, f : OwnReader(m, f, DefaultReader(f))
<1> SUFFICES ASSUME NEW m, NEW f PROVE OwnReader(m, f, DefaultReader(f))
  OBVIOUS
<1>1. DefaultReader(f).tries = <<>> /\ DOMAIN <<>> = {}
  BY DEF DefaultReader, Never, Reader
<1> QED
  BY <1>1 DEF OwnReader, SaysTheSame, InOrder

LEMMA GoodIsSound ==
  ASSUME NEW b, AllGood(b.name, b.located, KeepsNormal(b), b.readers), AllRows(b.name, b.rows)
  PROVE  ReadSoundly(b)
<1>1. \A f : GoodReader(b.name, b.located, KeepsNormal(b), f, ReaderOf(b, f))
  <2> SUFFICES ASSUME NEW f PROVE GoodReader(b.name, b.located, KeepsNormal(b), f, ReaderOf(b, f))
    OBVIOUS
  <2>1. CASE f \in DOMAIN b.readers
    BY <2>1 DEF ReaderOf, AllGood
  <2>2. CASE f \notin DOMAIN b.readers
    <3>1. \A m : OwnReader(m, f, ReaderOf(b, f))
      BY <2>2, DefaultOwn DEF ReaderOf
    <3>2. PICK m : m \in Instead(b.name, "IsMining")
      BY InsteadOfMining
    <3> QED
      BY <3>1, <3>2, OwnReaderIsGood
  <2> QED
    BY <2>1, <2>2
<1>2. KeepsToItsFields(b)
  BY <1>1 DEF KeepsToItsFields, GoodReader, Numbered, AllRows
<1>3. OnlyLoses(b)
  BY <1>1 DEF OnlyLoses, GoodReader, Numbered, AllRows, BlankParts, PartsBlank
<1>4. TellsTheTarget(b)
  <2>1. GoodReader(b.name, b.located, KeepsNormal(b), "TuningTarget", ReaderOf(b, "TuningTarget"))
    BY <1>1
  <2> QED
    BY <2>1 DEF TellsTheTarget, GoodReader, TargetBy
<1> QED
  BY <1>2, <1>3, <1>4 DEF ReadSoundly

-----------------------------------------------------------------------------
(* The readers that many backends have.                                    *)
LEMMA OwnFieldCollected ==
  /\ \A f : f # "ScaledTuningTarget" => f \in Collects(f)
  /\ "TuningTarget" \in Collects("ScaledTuningTarget")
BY DEF Collects

LEMMA OneTryOwn ==
  ASSUME NEW m, NEW f, NEW needs, needs # {}, LooksAtIts(Collects(f), needs), NEW when, NEW says,
         f = "TuningTarget" => says \notin {"mode", "power"}, NEW o \in Blank
  PROVE  OwnReader(m, f, Reader(<<When(when, needs, says)>>, o))
<1> DEFINE t == When(when, needs, says)
           r == Reader(<<t>>, o)
<1>1. t.needs = needs /\ t.says = says
  BY DEF When
<1>2. r.tries = <<t>> /\ r.otherwise = o
  BY DEF Reader
<1> HIDE DEF t, r
<1>3. DOMAIN r.tries = {1} /\ r.tries[1] = t
  BY <1>2
<1> QED
  BY <1>1, <1>2, <1>3 DEF OwnReader, SaysTheSame, InOrder, t, r

LEMMA OneSourceOwn ==
  ASSUME NEW m, NEW f, f # "ScaledTuningTarget", NEW command, NEW when, NEW says,
         f = "TuningTarget" => says \notin {"mode", "power"}, NEW o \in Blank
  PROVE  /\ OwnReader(m, f, Reader(<<When(when, {<<f, command>>}, says)>>, o))
         /\ when = "always" => OwnReader(m, f, Reader(<<Says({<<f, command>>}, says)>>, o))
<1>1. LooksAtIts(Collects(f), {<<f, command>>})
  BY OwnFieldCollected DEF LooksAtIts
<1> QED
  BY <1>1, OneTryOwn DEF Says

LEMMA GivenOwn ==
  ASSUME NEW m, NEW f, NEW field \in Collects(f), NEW commands, DOMAIN commands \subseteq Nat
  PROVE  OwnReader(m, f, Given(field, commands))
<1> DEFINE tries == [n \in DOMAIN commands |-> Says({<<field, commands[n]>>}, "given")]
           r == Reader(tries, "none")
<1>1. \A n \in DOMAIN tries :
        tries[n].needs = {<<field, commands[n]>>} /\ tries[n].says = "given"
  BY DEF Says, When
<1>2. r.tries = tries /\ r.otherwise = "none" /\ r.otherwise \in Blank
  BY DEF Reader, Blank
<1>3. DOMAIN tries \subseteq Nat
  OBVIOUS
<1> HIDE DEF tries, r
<1>4. (\A instead : SaysTheSame(instead, r)) /\ InOrder(r.tries)
  BY <1>1, <1>2 DEF SaysTheSame, InOrder
<1>5. \A n \in DOMAIN tries : tries[n].needs # {} /\ LooksAtIts(Collects(f), tries[n].needs)
  <2>1. \A c : LooksAtIts(Collects(f), {<<field, c>>}) /\ {<<field, c>>} # {}
    BY DEF LooksAtIts
  <2> QED
    BY <1>1, <2>1
<1>6. OwnReader(m, f, r)
  BY <1>2, <1>3, <1>4, <1>5 DEF OwnReader
<1> QED
  BY <1>6 DEF Given, tries, r

LEMMA OneOrTwoCommands ==
  ASSUME NEW c, NEW d
  PROVE  DOMAIN <<c>> \subseteq Nat /\ DOMAIN <<c, d>> \subseteq Nat
OBVIOUS

LEMMA PlainOwn ==
  ASSUME NEW m, NEW command, NEW fields, "ScaledTuningTarget" \notin fields
  PROVE  AllOwn(m, Plain(command, fields))
<1>1. \A f \in fields : OwnReader(m, f, Given(f, <<command>>))
  BY OwnFieldCollected, GivenOwn, OneOrTwoCommands
<1> QED
  BY <1>1 DEF AllOwn, Plain

LEMMA ListsOwn ==
  ASSUME NEW m, NEW command, NEW fields, "ScaledTuningTarget" \notin fields
  PROVE  AllOwn(m, Lists(command, fields))
<1>1. "empty" \in Blank
  BY DEF Blank
<1>2. \A f \in fields : OwnReader(m, f, Reader(<<Says({<<f, command>>}, "given")>>, "empty"))
  BY <1>1, OneSourceOwn
<1> QED
  BY <1>2 DEF AllOwn, Lists

(* Whether the miner is mining, from one source of the field.              *)
LEMMA TellsOwn ==
  ASSUME NEW m, NEW command
  PROVE  OwnReader(m, "IsMining", Reader(Tells(<<"IsMining", command>>), m))
<1> DEFINE s == <<"IsMining", command>>
           t1 == When("mining", {s}, "yes")
           t2 == Says({s}, "no")
           r == Reader(<<t1, t2>>, m)
<1>1. t1.needs = {s} /\ t2.needs = {s}
  BY DEF When, Says
<1>2. r.tries = <<t1, t2>> /\ r.otherwise = m
  BY DEF Reader
<1>3. s[1] \in Collects("IsMining")
  BY OwnFieldCollected
<1>4. r = Reader(Tells(s), m)
  BY DEF Tells
<1> HIDE DEF t1, t2, r, s
<1>5. DOMAIN r.tries = {1, 2} /\ r.tries[1] = t1 /\ r.tries[2] = t2
  BY <1>2
<1>6. OwnReader(m, "IsMining", r)
  BY <1>1, <1>2, <1>3, <1>5 DEF OwnReader, LooksAtIts, SaysTheSame
<1> QED
  BY <1>4, <1>6 DEF s

(* The mode or the limit, from one source of the field.                    *)
LEMMA ModeOrPowerOwn ==
  ASSUME NEW m, NEW f \in {"TuningTarget", "TuningConfig"}, NEW command, NEW o \in Blank
  PROVE  OwnReader(m, f, Reader(ModeOrPower(<<f, command>>), o))
<1> DEFINE s == <<f, command>>
           t1 == When("mode", {s}, "mode")
           t2 == Says({s}, "power")
           r == Reader(<<t1, t2>>, o)
<1>1. /\ t1.needs = {s} /\ t1.says = "mode" /\ t1.when = "mode"
      /\ t2.needs = {s} /\ t2.says = "power" /\ t2.when = "always"
  BY DEF When, Says
<1>2. r.tries = <<t1, t2>> /\ r.otherwise = o
  BY DEF Reader
<1>3. s[1] \in Collects(f)
  BY OwnFieldCollected
<1>4. r = Reader(ModeOrPower(s), o)
  BY DEF ModeOrPower
<1> HIDE DEF t1, t2, r, s
<1>5. DOMAIN r.tries = {1, 2} /\ r.tries[1] = t1 /\ r.tries[2] = t2
  BY <1>2
<1>6. SaysTheSame({}, r)
  BY <1>1, <1>2, <1>5 DEF SaysTheSame
<1>7. InOrder(r.tries)
  <2>1. 1 < 2 /\ s \in t2.needs
    BY <1>1
  <2> QED
    BY <1>1, <1>5, <2>1 DEF InOrder
<1>8. OwnReader(m, f, r)
  BY <1>1, <1>3, <1>5, <1>6, <1>7 DEF OwnReader, LooksAtIts
<1> QED
  BY <1>4, <1>8 DEF s

LEMMA NeverOwn ==
  ASSUME NEW m, NEW f, NEW o
  PROVE  OwnReader(m, f, Never(o))
<1>1. Never(o).tries = <<>> /\ Never(o).otherwise = o /\ DOMAIN <<>> = {}
  BY DEF Never, Reader
<1> QED
  BY <1>1 DEF OwnReader, SaysTheSame, InOrder

(* One reader alone.                                                       *)
LEMMA OneReaderOwn ==
  ASSUME NEW m, NEW r
  PROVE  /\ OwnReader(m, "IsMining", r) => AllOwn(m, [IsMining |-> r])
         /\ OwnReader(m, "Messages", r) => AllOwn(m, [Messages |-> r])
         /\ OwnReader(m, "Pools", r) => AllOwn(m, [Pools |-> r])
         /\ OwnReader(m, "PoolsConfig", r) => AllOwn(m, [PoolsConfig |-> r])
         /\ OwnReader(m, "TuningTarget", r) => AllOwn(m, [TuningTarget |-> r])
         /\ OwnReader(m, "ScaledTuningTarget", r) => AllOwn(m, [ScaledTuningTarget |-> r])
         /\ OwnReader(m, "TuningConfig", r) => AllOwn(m, [TuningConfig |-> r])
         /\ OwnReader(m, "ExpectedHashrate", r) => AllOwn(m, [ExpectedHashrate |-> r])
         /\ OwnReader(m, "Wattage", r) => AllOwn(m, [Wattage |-> r])
         /\ OwnReader(m, "SerialNumber", r) => AllOwn(m, [SerialNumber |-> r])
         /\ OwnReader(m, "FluidTemperature", r) => AllOwn(m, [FluidTemperature |-> r])
         /\ OwnReader(m, "LightFlashing", r) => AllOwn(m, [LightFlashing |-> r])
         /\ OwnReader(m, "ApiVersion", r) => AllOwn(m, [ApiVersion |-> r])
         /\ OwnReader(m, "FirmwareVersion", r) => AllOwn(m, [FirmwareVersion |-> r])
         /\ OwnReader(m, "ControlBoardVersion", r) => AllOwn(m, [ControlBoardVersion |-> r])
BY DEF AllOwn

LEMMA PartsOwn ==
  ASSUME NEW f, NEW names, NEW alternatives, NEW source, NEW key
  PROVE  /\ BlankParts(PartsOf(names, alternatives, key))
         /\ (\A needs \in alternatives : LooksAtIts(Collects(f), needs))
              => OwnParts(f, PartsOf(names, alternatives, key))
         /\ source[1] \in Collects(f) => OwnParts(f, Parts(names, source, key))
         /\ BlankParts(Parts(names, source, key))
         /\ source[1] \in Collects(f) => OwnParts(f, Assumed(names, source, key))
         /\ BlankParts(Assumed(names, source, key))
<1>1. "nothing" \in Blank /\ "assumed" \in Blank
  BY DEF Blank
<1>2. \A x : /\ BlankParts(PartsOf(names, x, key))
             /\ (\A needs \in x : LooksAtIts(Collects(f), needs)) => OwnParts(f, PartsOf(names, x, key))
  BY <1>1 DEF PartsOf, BlankParts, OwnParts
<1>3. source[1] \in Collects(f) => \A needs \in {{source}} : LooksAtIts(Collects(f), needs)
  BY DEF LooksAtIts
<1>4. BlankParts(Assumed(names, source, key))
  BY <1>1 DEF Assumed, BlankParts
<1>5. source[1] \in Collects(f) => OwnParts(f, Assumed(names, source, key))
  BY <1>1, <1>3 DEF Assumed, OwnParts
<1> QED
  BY <1>2, <1>3, <1>4, <1>5 DEF Parts

LEMMA SourcesOfRows ==
  ASSUME NEW names, NEW command, NEW key
  PROVE  /\ OwnParts("Hashboards", Parts(names, <<"Hashboards", command>>, key))
         /\ OwnParts("Hashboards", Parts(names, <<"Chips", command>>, key))
         /\ OwnParts("Hashboards", Assumed(names, <<"Chips", command>>, key))
         /\ OwnParts("Fans", Parts(names, <<"Fans", command>>, key))
         /\ OwnParts("PsuFans", Parts(names, <<"PsuFans", command>>, key))
<1>1. /\ <<"Hashboards", command>>[1] \in Collects("Hashboards")
      /\ <<"Chips", command>>[1] \in Collects("Hashboards")
      /\ <<"Fans", command>>[1] \in Collects("Fans")
      /\ <<"PsuFans", command>>[1] \in Collects("PsuFans")
  BY DEF Collects
<1> QED
  BY <1>1, PartsOwn

AllOwnRows(rows) == \A f \in DOMAIN rows : OwnParts(f, rows[f].parts)

LEMMA RowsAre ==
  ASSUME NEW slots, NEW parts, NEW f, OwnParts(f, parts)
  PROVE  OwnParts(f, Rows(slots, parts).parts)
BY DEF Rows

LEMMA OwnRows ==
  ASSUME NEW t, NEW u
  PROVE  /\ OwnParts("Hashboards", t.parts) => AllOwnRows([Hashboards |-> t])
         /\ OwnParts("Fans", t.parts) => AllOwnRows([Fans |-> t])
         /\ OwnParts("Fans", t.parts) /\ OwnParts("PsuFans", u.parts)
              => AllOwnRows([Fans |-> t, PsuFans |-> u])
BY DEF AllOwnRows

LEMMA JoinedRows ==
  ASSUME NEW name, NEW t, NEW fans, OwnParts("Hashboards", t.parts), AllOwnRows(fans)
  PROVE  AllRows(name, [Hashboards |-> t] ++ fans)
<1> DEFINE h == [Hashboards |-> t]
<1>1. AllOwnRows(h)
  BY OwnRows
<1> HIDE DEF h
<1>2. AllOwnRows(h ++ fans)
  BY <1>1 DEF AllOwnRows, ++
<1>3. AllRows(name, h ++ fans)
  BY <1>2, OwnPartsLook DEF AllOwnRows, AllRows
<1> QED
  BY <1>3 DEF h

(* A backend whose readers and rows look at their own fields only.         *)
LEMMA OwnIsSound ==
  ASSUME NEW b, NEW m \in Instead(b.name, "IsMining"), NEW readers, NEW boards, NEW fans,
         AllOwn(m, readers),
         OwnParts("Hashboards", boards.parts), AllOwnRows(fans),
         b.readers = readers, b.rows = [Hashboards |-> boards] ++ fans
  PROVE  ReadSoundly(b)
<1>1. AllGood(b.name, b.located, KeepsNormal(b), b.readers)
  BY OwnIsGood
<1>2. AllRows(b.name, b.rows)
  BY JoinedRows
<1> QED
  BY <1>1, <1>2, GoodIsSound

LEMMA BackendIs ==
  ASSUME NEW name, NEW commands, NEW located, NEW readers, NEW boards, NEW fans, NEW operations
  PROVE  LET b == Backend(name, commands, located, readers, boards, fans, operations)
         IN  /\ b.name = name /\ b.located = located /\ b.readers = readers
             /\ b.rows = [Hashboards |-> boards] ++ fans
             /\ b.operations = operations
BY DEF Backend

LEMMA OwnBackend ==
  ASSUME NEW name, NEW commands, NEW located, NEW readers, NEW boards, NEW fans, NEW operations,
         NEW m \in Instead(name, "IsMining"), AllOwn(m, readers), OwnParts("Hashboards", boards.parts), AllOwnRows(fans)
  PROVE  ReadSoundly(Backend(name, commands, located, readers, boards, fans, operations))
<1> DEFINE b == Backend(name, commands, located, readers, boards, fans, operations)
<1>1. b.name = name /\ b.readers = readers /\ b.rows = [Hashboards |-> boards] ++ fans
  BY BackendIs
<1> HIDE DEF b
<1>2. ReadSoundly(b)
  BY <1>1, OwnIsSound
<1> QED
  BY <1>2 DEF b

LEMMA Blanks ==
  /\ "none" \in Blank /\ "empty" \in Blank /\ "error" \in Blank /\ "nothing" \in Blank
  /\ "group_without_pools" \in Blank /\ "blank_pools" \in Blank
BY DEF Blank

LEMMA WhatsMinerV1Reads ==
  /\ AllOwn("yes", WhatsMinerV1Identity ++ WhatsMinerV1Readings ++ WhatsMinerV1Pools)
  /\ OwnParts("Hashboards", WhatsMinerV1Boards.parts)
  /\ AllOwnRows(WhatsMinerV1Fans)
<1>1. AllOwn("yes", WhatsMinerV1Identity)
  BY PlainOwn, JoinedOwn DEF WhatsMinerV1Identity
<1>2. AllOwn("yes", WhatsMinerV1Readings)
  BY PlainOwn, ListsOwn, TellsOwn, OneReaderOwn, JoinedOwn DEF WhatsMinerV1Readings
<1>3. AllOwn("yes", WhatsMinerV1Pools)
  BY OneSourceOwn, OneReaderOwn, Blanks DEF WhatsMinerV1Pools
<1>4. OwnParts("Hashboards", WhatsMinerV1Boards.parts)
  BY SourcesOfRows, RowsAre DEF WhatsMinerV1Boards
<1>5. AllOwnRows(WhatsMinerV1Fans)
  BY SourcesOfRows, RowsAre, OwnRows DEF WhatsMinerV1Fans
<1> QED
  BY <1>1, <1>2, <1>3, <1>4, <1>5, JoinedOwn

LEMMA WhatsMinerV2Reads ==
  /\ AllOwn("yes", WhatsMinerV2Identity ++ WhatsMinerV2Readings ++ WhatsMinerV2Pools
              ++ WhatsMinerV2TuningConfig)
  /\ OwnParts("Hashboards", WhatsMinerV2Boards.parts)
  /\ AllOwnRows(WhatsMinerV2Fans)
<1>1. AllOwn("yes", WhatsMinerV2Identity)
  BY PlainOwn, JoinedOwn DEF WhatsMinerV2Identity
<1>2. AllOwn("yes", WhatsMinerV2Readings)
  BY PlainOwn, ListsOwn, TellsOwn, ModeOrPowerOwn, OneReaderOwn, JoinedOwn, Blanks
     DEF WhatsMinerV2Readings
<1>3. AllOwn("yes", WhatsMinerV2Pools) /\ AllOwn("yes", WhatsMinerV2TuningConfig)
  BY OneSourceOwn, ModeOrPowerOwn, OneReaderOwn, Blanks
     DEF WhatsMinerV2Pools, WhatsMinerV1Pools, WhatsMinerV2TuningConfig
<1> QED
  BY <1>1, <1>2, <1>3, WhatsMinerV1Reads, JoinedOwn DEF WhatsMinerV2Boards, WhatsMinerV2Fans

LEMMA BraiinsReads ==
  /\ AllOwn("no", BraiinsV2109Identity ++ BraiinsV2109Readings ++ BraiinsV2109Pools)
  /\ OwnParts("Hashboards", BraiinsV2109Boards.parts)
  /\ OwnParts("Hashboards", BraiinsV2503Boards.parts)
  /\ AllOwnRows(BraiinsV2109Fans)
  /\ AllOwn("no", BraiinsV2507Identity ++ BraiinsV2507Readings ++ BraiinsV2507Details
              ++ BraiinsV2507Pools)
  /\ OwnParts("Hashboards", BraiinsV2507Boards.parts)
  /\ AllOwnRows(BraiinsV2507Fans)
<1>0. \A c : OwnReader("no", "TuningTarget", Given("TuningTarget", <<c>>))
           /\ OwnReader("no", "ScaledTuningTarget", Given("TuningTarget", <<c>>))
  BY GivenOwn, OneOrTwoCommands, OwnFieldCollected
<1>1. AllOwn("no", BraiinsV2109Identity) /\ AllOwn("no", BraiinsV2507Identity)
  BY PlainOwn, JoinedOwn DEF BraiinsV2109Identity, BraiinsV2507Identity
<1>2. AllOwn("no", BraiinsV2109Readings)
  BY <1>0, PlainOwn, ListsOwn, TellsOwn, OneReaderOwn, JoinedOwn DEF BraiinsV2109Readings
<1>3. AllOwn("no", BraiinsV2507Readings) /\ AllOwn("no", BraiinsV2507Details)
  BY <1>0, PlainOwn, ListsOwn, TellsOwn, OneReaderOwn, JoinedOwn
     DEF BraiinsV2507Readings, BraiinsV2507Details
<1>4. AllOwn("no", BraiinsV2109Pools) /\ AllOwn("no", BraiinsV2507Pools)
  BY ListsOwn, OneSourceOwn, OneReaderOwn, Blanks DEF BraiinsV2109Pools, BraiinsV2507Pools
<1>5. /\ OwnParts("Hashboards", BraiinsV2109Boards.parts)
      /\ OwnParts("Hashboards", BraiinsV2507Boards.parts)
  BY SourcesOfRows, RowsAre DEF BraiinsV2109Boards, BraiinsV2507Boards
<1>6. OwnParts("Hashboards", BraiinsV2503Boards.parts)
  BY <1>5, SourcesOfRows, RowsAre, JoinedParts DEF BraiinsV2503Boards
<1>7. AllOwnRows(BraiinsV2109Fans) /\ AllOwnRows(BraiinsV2507Fans)
  BY SourcesOfRows, RowsAre, OwnRows DEF BraiinsV2109Fans, BraiinsV2507Fans
<1> QED
  BY <1>1, <1>2, <1>3, <1>4, <1>5, <1>6, <1>7, JoinedOwn

LEMMA AvalonReads ==
  /\ AllOwn("no", AvalonAIdentity ++ AvalonAHashrates ++ AvalonAReadings ++ AvalonAPools)
  /\ OwnParts("Hashboards", AvalonABoards.parts)
  /\ AllOwnRows(AvalonAFans)
  /\ AllOwn("no", AvalonQIdentity ++ AvalonQHashrates ++ AvalonQReadings ++ AvalonQPools)
  /\ OwnParts("Hashboards", AvalonQBoards.parts)
  /\ AllOwnRows(AvalonQFans)
<1>1. /\ AllOwn("no", AvalonAIdentity) /\ AllOwn("no", AvalonAHashrates) /\ AllOwn("no", AvalonAReadings)
      /\ AllOwn("no", AvalonQIdentity)
  BY PlainOwn, JoinedOwn DEF AvalonAIdentity, AvalonAHashrates, AvalonAReadings, AvalonQIdentity
<1>2. AllOwn("no", AvalonAPools)
  BY OneSourceOwn, OneReaderOwn, Blanks DEF AvalonAPools
<1>3. OwnParts("Hashboards", AvalonABoards.parts) /\ OwnParts("Hashboards", AvalonQBoards.parts)
  BY SourcesOfRows, RowsAre, JoinedParts DEF AvalonABoards, AvalonQBoards
<1>4. AllOwnRows(AvalonAFans)
  BY SourcesOfRows, RowsAre, OwnRows DEF AvalonAFans
<1> QED
  BY <1>1, <1>2, <1>3, <1>4, JoinedOwn
     DEF AvalonQHashrates, AvalonQReadings, AvalonQPools, AvalonQFans

LEMMA OneReaderGood ==
  ASSUME NEW name, NEW located, NEW normal, NEW r
  PROVE  /\ GoodReader(name, located, normal, "IsMining", r)
              => AllGood(name, located, normal, [IsMining |-> r])
         /\ GoodReader(name, located, normal, "Messages", r)
              => AllGood(name, located, normal, [Messages |-> r])
         /\ GoodReader(name, located, normal, "TuningTarget", r)
              => AllGood(name, located, normal, [TuningTarget |-> r])
         /\ GoodReader(name, located, normal, "TuningConfig", r)
              => AllGood(name, located, normal, [TuningConfig |-> r])
         /\ GoodReader(name, located, normal, "ExpectedHashrate", r)
              => AllGood(name, located, normal, [ExpectedHashrate |-> r])
         /\ GoodReader(name, located, normal, "Hashrate", r)
              => AllGood(name, located, normal, [Hashrate |-> r])
         /\ GoodReader(name, located, normal, "PoolsConfig", r)
              => AllGood(name, located, normal, [PoolsConfig |-> r])
BY DEF AllGood

(* Readers that look at their own fields and make do with a part of them.  *)
LEMMA MakeshiftGood ==
  ASSUME NEW name, NEW located, NEW normal, NEW f, NEW r, DOMAIN r.tries \subseteq Nat,
         \A n \in DOMAIN r.tries : LooksAtIts(Own(name, f), r.tries[n].needs),
         SaysTheSame(Instead(name, f), r),
         f = "TuningTarget" => TargetBy(name, located, normal, r.tries)
  PROVE  GoodReader(name, located, normal, f, r)
BY DEF GoodReader, LooksAt

LEMMA WhatsMinerV3Reads ==
  ASSUME NEW located, NEW normal, <<"TuningTarget", "device_info">> \in located
  PROVE  /\ AllGood("WhatsMinerV3", located, normal,
                    WhatsMinerV3Identity ++ WhatsMinerV3Readings ++ WhatsMinerV3Pools
                      ++ WhatsMinerV3TuningConfig)
         /\ OwnParts("Hashboards", WhatsMinerV3Boards.parts)
         /\ AllOwnRows(WhatsMinerV3Fans)
<1>0. "yes" \in Instead("WhatsMinerV3", "IsMining")
  BY InsteadOfMining
<1>1. AllOwn("yes", WhatsMinerV3Identity)
  BY PlainOwn, JoinedOwn DEF WhatsMinerV3Identity
<1>2. ASSUME NEW f \in {"TuningTarget", "TuningConfig"}, NEW o \in Blank
      PROVE  GoodReader("WhatsMinerV3", located, normal, f, Reader(WhatsMinerV3Target(f), o))
  <2> DEFINE t1 == When("mode", {<<f, "device_info">>}, "mode")
             t2 == Says({<<f, "status_summary">>}, "power")
             r == Reader(<<t1, t2>>, o)
  <2>1. /\ t1.needs = {<<f, "device_info">>} /\ t1.when = "mode" /\ t1.says = "mode"
        /\ t2.needs = {<<f, "status_summary">>} /\ t2.says = "power"
    BY DEF When, Says
  <2>2. r.tries = <<t1, t2>> /\ r.otherwise = o /\ r = Reader(WhatsMinerV3Target(f), o)
    BY DEF Reader, WhatsMinerV3Target
  <2>3. /\ LooksAtIts(Own("WhatsMinerV3", f), {<<f, "device_info">>})
        /\ LooksAtIts(Own("WhatsMinerV3", f), {<<f, "status_summary">>})
    BY OwnFieldCollected DEF LooksAtIts, Own
  <2> HIDE DEF t1, t2, r
  <2>4. DOMAIN r.tries = {1, 2} /\ r.tries[1] = t1 /\ r.tries[2] = t2
    BY <2>2
  <2>5. Instead("WhatsMinerV3", f) = {"power"}
    BY DEF Instead
  <2>6. SaysTheSame({"power"}, r)
    BY <2>1, <2>2, <2>4 DEF SaysTheSame
  <2>7. f = "TuningTarget" => TargetBy("WhatsMinerV3", located, normal, r.tries)
    <3> SUFFICES ASSUME f = "TuningTarget"
                 PROVE  TargetBy("WhatsMinerV3", located, normal, r.tries)
      OBVIOUS
    <3> DEFINE s == <<"TuningTarget", "device_info">>
    <3>1. s \in located /\ s[1] = "TuningTarget" /\ t1.needs = {s}
      BY <2>1
    <3> HIDE DEF s
    <3>2. t1.needs # {} /\ t2.needs # {} /\ 1 < 2
      BY <2>1
    <3>3. \E m \in DOMAIN r.tries, u \in located :
            /\ m < 2 /\ r.tries[m].when = "mode"
            /\ r.tries[m].needs = {u} /\ u[1] = "TuningTarget"
      BY <2>1, <2>4, <3>1, <3>2
    <3>4. r.tries[1].says # "power" /\ r.tries[2].says # "mode"
      BY <2>1, <2>4
    <3>5. r.tries[1].needs # {} /\ r.tries[2].needs # {} /\ r.tries[1].when = "mode"
      BY <2>1, <2>4, <3>2
    <3> QED
      BY <2>4, <3>3, <3>4, <3>5 DEF TargetBy
  <2>8. \A n \in DOMAIN r.tries : LooksAtIts(Own("WhatsMinerV3", f), r.tries[n].needs)
    BY <2>1, <2>3, <2>4
  <2>9. GoodReader("WhatsMinerV3", located, normal, f, r)
    BY <2>4, <2>5, <2>6, <2>7, <2>8, MakeshiftGood
  <2> QED
    BY <2>2, <2>9
<1>3. AllGood("WhatsMinerV3", located, normal, WhatsMinerV3TuningConfig)
  BY <1>2, OneReaderGood, Blanks DEF WhatsMinerV3TuningConfig
<1>4. AllGood("WhatsMinerV3", located, normal, WhatsMinerV3Readings)
  BY <1>0, <1>2, PlainOwn, ListsOwn, TellsOwn, OneReaderOwn, OneReaderGood, OwnIsGood,
     JoinedGood, Blanks
     DEF WhatsMinerV3Readings
<1>5. AllOwn("yes", WhatsMinerV3Pools)
  BY OneSourceOwn, OneReaderOwn, Blanks DEF WhatsMinerV3Pools
<1>6. OwnParts("Hashboards", WhatsMinerV3Boards.parts)
  BY SourcesOfRows, RowsAre, JoinedParts DEF WhatsMinerV3Boards
<1>7. AllOwnRows(WhatsMinerV3Fans)
  BY SourcesOfRows, RowsAre, OwnRows DEF WhatsMinerV3Fans
<1> QED
  BY <1>0, <1>1, <1>3, <1>4, <1>5, <1>6, <1>7, OwnIsGood, JoinedGood

(* AntMiner and Auradine look at the hashrate when their own answers do    *)
(* not say whether the miner is mining, which they always do.              *)
LEMMA TwiceTells ==
  ASSUME NEW name, NEW located, NEW normal, NEW command, NEW other,
         "no" \in Instead(name, "IsMining"), <<"IsMining", command>> \in located
  PROVE  GoodReader(name, located, normal, "IsMining",
                    Reader(Tells(<<"IsMining", command>>) \o Tells(other), "no"))
<1> DEFINE s == <<"IsMining", command>>
           t1 == When("mining", {s}, "yes")
           t2 == Says({s}, "no")
           t3 == When("mining", {other}, "yes")
           t4 == Says({other}, "no")
           r == Reader(Tells(s) \o Tells(other), "no")
<1>1. /\ t1.needs = {s} /\ t1.when = "mining" /\ t1.says = "yes"
      /\ t2.needs = {s} /\ t2.when = "always" /\ t2.says = "no"
      /\ t3.needs = {other} /\ t3.when = "mining" /\ t3.says = "yes"
      /\ t4.needs = {other} /\ t4.says = "no"
  BY DEF When, Says
<1>2. r.tries = <<t1, t2>> \o <<t3, t4>> /\ r.otherwise = "no"
  BY DEF Reader, Tells
<1>3. s[1] \in Own(name, "IsMining") /\ s \in located
  BY OwnFieldCollected DEF Own
<1> HIDE DEF t1, t2, t3, t4, s, r
<1>4. /\ DOMAIN r.tries = 1..4 /\ r.tries[1] = t1 /\ r.tries[2] = t2
      /\ r.tries[3] = t3 /\ r.tries[4] = t4
  BY <1>2
<1>5. SaysTheSame(Instead(name, "IsMining"), r)
  <2> DEFINE instead == Instead(name, "IsMining")
  <2> HIDE DEF instead
  <2>1. "no" \in Blank \union instead
    BY DEF instead
  <2>2. TriedBefore(r.tries, 2, 3)
    BY <1>1, <1>4 DEF TriedBefore
  <2>3. SaysTheSame(instead, r)
    BY <1>1, <1>2, <1>4, <2>1, <2>2 DEF SaysTheSame
  <2> QED
    BY <2>3 DEF instead
<1>6. LooksAt(located, Own(name, "IsMining"), r)
  <2> DEFINE own == Own(name, "IsMining")
  <2>1. LooksAtIts(own, t1.needs) /\ LooksAtIts(own, t2.needs)
    BY <1>1, <1>3 DEF LooksAtIts
  <2> HIDE DEF own
  <2>2. t2.needs \subseteq located
    BY <1>1, <1>3
  <2>3. \A n \in 1..4 : n = 1 \/ n = 2 \/ 2 < n
    OBVIOUS
  <2>4. 2 \in DOMAIN r.tries
    BY <1>4
  <2>5. LooksAt(located, own, r)
    BY <1>1, <1>4, <2>1, <2>2, <2>3, <2>4 DEF LooksAt
  <2> QED
    BY <2>5 DEF own
<1>7. DOMAIN r.tries \subseteq Nat
  BY <1>4
<1>8. GoodReader(name, located, normal, "IsMining", r)
  BY <1>5, <1>6, <1>7 DEF GoodReader
<1> QED
  BY <1>8 DEF r, s

LEMMA AntMinerReads ==
  ASSUME NEW name, NEW located, NEW normal, <<"IsMining", "get_miner_conf">> \in located,
         "no" \in Instead(name, "IsMining")
  PROVE  /\ AllGood(name, located, normal,
                    AntMinerV2020Identity ++ AntMinerV2020Status ++ AntMinerV2020Readings
                      ++ AntMinerV2020Pools ++ AntMinerV2020PoolsConfig
                      ++ AntMinerV2020TuningConfig)
         /\ OwnParts("Hashboards", AntMinerV2020Boards.parts)
         /\ AllOwnRows(AntMinerV2020Fans)
<1>1. AllOwn("no", AntMinerV2020Identity) /\ AllOwn("no", AntMinerV2020Pools)
  BY PlainOwn, ListsOwn, JoinedOwn DEF AntMinerV2020Identity, AntMinerV2020Pools
<1>2. AllGood(name, located, normal, AntMinerV2020Status)
  BY TwiceTells, PlainOwn, OneReaderGood, OwnIsGood, JoinedGood DEF AntMinerV2020Status
<1>3. AllOwn("no", AntMinerV2020Readings)
  <2> DEFINE d == [o \in {"TuningTarget", "ScaledTuningTarget"} |->
                     Reader(<<AntMinerV2020Mode("TuningTarget")>>, "none")]
  <2>1. \A f \in {"TuningTarget", "ScaledTuningTarget"} :
          LooksAtIts(Collects(f), {<<"TuningTarget", "get_miner_conf">>})
    BY OwnFieldCollected DEF LooksAtIts
  <2>2. AllOwn("no", d)
    BY <2>1, OneTryOwn, Blanks DEF AllOwn, AntMinerV2020Mode
  <2>3. AntMinerV2020Readings =
          Plain("get_system_info", {"SerialNumber"})
            ++ Plain("miner_type", {"ControlBoardVersion"}) ++ Plain("stats", {"Wattage"})
            ++ d ++ [FluidTemperature |-> Never("none")] ++ Lists("summary", {"Messages"})
    BY DEF AntMinerV2020Readings
  <2> HIDE DEF d
  <2> QED
    BY <2>2, <2>3, PlainOwn, ListsOwn, NeverOwn, OneReaderOwn, JoinedOwn, Blanks
<1>4. AllOwn("no", AntMinerV2020PoolsConfig)
  BY OneSourceOwn, OneReaderOwn, Blanks DEF AntMinerV2020PoolsConfig
<1>5. AllOwn("no", AntMinerV2020TuningConfig)
  <2>1. OwnReader("no", "TuningConfig", Reader(<<AntMinerV2020Mode("TuningConfig")>>, "error"))
    BY OneSourceOwn, Blanks DEF AntMinerV2020Mode
  <2>2. OwnReader("no", "FanConfig",
                  Reader(<<Says({<<"FanConfig", "get_miner_conf">>}, "given")>>, "error"))
    BY OneSourceOwn, Blanks
  <2> QED
    BY <2>1, <2>2 DEF AllOwn, AntMinerV2020TuningConfig
<1>6. OwnParts("Hashboards", AntMinerV2020Boards.parts)
  BY SourcesOfRows, RowsAre DEF AntMinerV2020Boards
<1>7. AllOwnRows(AntMinerV2020Fans)
  BY SourcesOfRows, RowsAre, OwnRows DEF AntMinerV2020Fans
<1> QED
  BY <1>1, <1>2, <1>3, <1>4, <1>5, <1>6, <1>7, OwnIsGood, JoinedGood

(* One try from the field itself and, it may be, from others. *)
LEMMA OneTryGood ==
  ASSUME NEW name, NEW located, NEW normal, NEW f, NEW needs, NEW when, NEW says,
         NEW o \in Blank \union Instead(name, f),
         LooksAtIts(Own(name, f), needs), f # "TuningTarget"
  PROVE  GoodReader(name, located, normal, f, Reader(<<When(when, needs, says)>>, o))
<1> DEFINE t == When(when, needs, says)
           r == Reader(<<t>>, o)
<1>1. t.needs = needs
  BY DEF When
<1>2. r.tries = <<t>> /\ r.otherwise = o
  BY DEF Reader
<1> HIDE DEF t, r
<1>3. DOMAIN r.tries = {1} /\ r.tries[1] = t
  BY <1>2
<1>4. SaysTheSame(Instead(name, f), r)
  BY <1>2, <1>3 DEF SaysTheSame
<1>5. GoodReader(name, located, normal, f, r)
  BY <1>1, <1>3, <1>4, MakeshiftGood
<1> QED
  BY <1>5 DEF t, r

(* Readers that take it from another field. *)
LEMMA TellsOfOthers ==
  ASSUME NEW name, NEW located, NEW normal, NEW s, s[1] \in Own(name, "IsMining"),
         NEW o \in Instead(name, "IsMining")
  PROVE  GoodReader(name, located, normal, "IsMining", Reader(Tells(s), o))
<1> DEFINE t1 == When("mining", {s}, "yes")
           t2 == Says({s}, "no")
           r == Reader(<<t1, t2>>, o)
<1>1. r.tries = <<t1, t2>> /\ r.otherwise = o /\ r = Reader(Tells(s), o)
  BY DEF Reader, Tells
<1>2. t1.needs = {s} /\ t2.needs = {s}
  BY DEF When, Says
<1> HIDE DEF t1, t2, r
<1>3. DOMAIN r.tries = {1, 2} /\ r.tries[1] = t1 /\ r.tries[2] = t2
  BY <1>1
<1>4. SaysTheSame(Instead(name, "IsMining"), r)
  BY <1>1, <1>2, <1>3 DEF SaysTheSame
<1>5. \A n \in DOMAIN r.tries : LooksAtIts(Own(name, "IsMining"), r.tries[n].needs)
  BY <1>2, <1>3 DEF LooksAtIts
<1>6. GoodReader(name, located, normal, "IsMining", r)
  BY <1>3, <1>4, <1>5, MakeshiftGood
<1> QED
  BY <1>1, <1>6

LEMMA AxeReads ==
  ASSUME NEW name \in {"BitaxeV2", "BitaxeV29", "NerdAxe"}, NEW located, NEW normal
  PROVE  /\ AllOwn("no", BitaxeV2Identity) /\ AllOwn("no", BitaxeV29Hashrates) /\ AllOwn("no", BitaxeV2Pools)
         /\ name # "BitaxeV29" => AllGood(name, located, normal, BitaxeV2Hashrates)
         /\ AllGood(name, located, normal, BitaxeV2Readings)
         /\ OwnParts("Hashboards", BitaxeV2Boards.parts)
         /\ OwnParts("Hashboards", BitaxeV29Boards.parts)
         /\ OwnParts("Hashboards", NerdAxeBoards.parts)
         /\ AllOwnRows(BitaxeV2Fans)
<1>1. AllOwn("no", BitaxeV2Identity) /\ AllOwn("no", BitaxeV29Hashrates)
  BY PlainOwn DEF BitaxeV2Identity, BitaxeV29Hashrates
<1>2. AllOwn("no", BitaxeV2Pools)
  BY OneSourceOwn, OneReaderOwn, Blanks DEF BitaxeV2Pools
<1>3. /\ "Hashrate" \in Own(name, "IsMining") /\ "Hashboards" \in Own(name, "Messages")
      /\ name # "BitaxeV29" =>
           /\ "ExpectedHashrate" \in Own(name, "ExpectedHashrate")
           /\ "Hashboards" \in Own(name, "ExpectedHashrate")
           /\ "zero" \in Instead(name, "ExpectedHashrate")
      /\ "no" \in Instead(name, "IsMining")
  BY OwnFieldCollected DEF Own, AlsoNeeds, Instead
<1>4. ASSUME name # "BitaxeV29" PROVE AllGood(name, located, normal, BitaxeV2Hashrates)
  <2> DEFINE needs == {<<"ExpectedHashrate", "system_info">>, <<"Hashboards", "system_info">>}
             r == Reader(<<Says(needs, "given")>>, "zero")
  <2>1. LooksAtIts(Own(name, "ExpectedHashrate"), needs)
    BY <1>3, <1>4 DEF LooksAtIts
  <2>2. BitaxeV2Hashrates = Plain("system_info", {"Hashrate"}) ++ [ExpectedHashrate |-> r]
    BY DEF BitaxeV2Hashrates
  <2>3. r = Reader(<<When("always", needs, "given")>>, "zero")
    BY DEF Says
  <2>4. "zero" \in Blank \union Instead(name, "ExpectedHashrate")
    BY <1>3, <1>4
  <2> HIDE DEF needs
  <2>5. GoodReader(name, located, normal, "ExpectedHashrate", r)
    BY <2>1, <2>3, <2>4, OneTryGood
  <2> HIDE DEF r
  <2>6. AllGood(name, located, normal, [ExpectedHashrate |-> r])
    BY <2>5, OneReaderGood
  <2>7. AllGood(name, located, normal, Plain("system_info", {"Hashrate"}))
    BY <1>3, PlainOwn, OwnIsGood
  <2> QED
    BY <2>2, <2>6, <2>7, JoinedGood
<1>5. AllGood(name, located, normal, BitaxeV2Readings)
  <2> DEFINE needs == {<<"Hashboards", "system_info">>}
             r == Reader(<<Says(needs, "given")>>, "empty")
             t == Reader(Tells(<<"Hashrate", "system_info">>), "no")
  <2>1. LooksAtIts(Own(name, "Messages"), needs) /\ "empty" \in Blank
    BY <1>3, Blanks DEF LooksAtIts
  <2>2. BitaxeV2Readings = Plain("system_info", {"Wattage", "Uptime"}) ++ [Messages |-> r]
                             ++ [IsMining |-> t]
    BY DEF BitaxeV2Readings
  <2>3. r = Reader(<<When("always", needs, "given")>>, "empty")
    BY DEF Says
  <2> HIDE DEF needs
  <2>4. GoodReader(name, located, normal, "Messages", r)
    BY <2>1, <2>3, OneTryGood
  <2>5. GoodReader(name, located, normal, "IsMining", t)
    BY <1>3, TellsOfOthers
  <2> HIDE DEF r, t
  <2>6. /\ AllGood(name, located, normal, [Messages |-> r])
        /\ AllGood(name, located, normal, [IsMining |-> t])
    BY <2>4, <2>5, OneReaderGood
  <2>7. AllGood(name, located, normal, Plain("system_info", {"Wattage", "Uptime"}))
    BY <1>3, PlainOwn, OwnIsGood
  <2> QED
    BY <2>2, <2>6, <2>7, JoinedGood
<1>6. OwnParts("Hashboards", BitaxeV2Boards.parts) /\ OwnParts("Hashboards", BitaxeV29Boards.parts)
  BY SourcesOfRows, RowsAre, JoinedParts DEF BitaxeV2Boards, BitaxeV29Boards
<1>7. OwnParts("Hashboards", NerdAxeBoards.parts)
  BY <1>6, SourcesOfRows, RowsAre, JoinedParts DEF NerdAxeBoards
<1>8. AllOwnRows(BitaxeV2Fans)
  BY SourcesOfRows, RowsAre, OwnRows DEF BitaxeV2Fans, AxeFans
<1> QED
  BY <1>1, <1>2, <1>4, <1>5, <1>6, <1>7, <1>8

(* The limit alone, of a miner without modes. *)
LEMMA PowerGood ==
  ASSUME NEW name, NEW located, NEW needs, needs # {}, LooksAtIts(Collects("TuningTarget"), needs)
  PROVE  AllGood(name, located, TRUE,
                 [TuningTarget |-> Reader(<<Says(needs, "power")>>, "none")])
<1> DEFINE t == Says(needs, "power")
           r == Reader(<<t>>, "none")
<1>1. t.needs = needs /\ t.says = "power"
  BY DEF When, Says
<1>2. r.tries = <<t>> /\ r.otherwise = "none"
  BY DEF Reader
<1> HIDE DEF t, r
<1>3. DOMAIN r.tries = {1} /\ r.tries[1] = t
  BY <1>2
<1>4. SaysTheSame(Instead(name, "TuningTarget"), r)
  BY <1>2, <1>3, Blanks DEF SaysTheSame
<1> DEFINE normal == TRUE
<1>5. TargetBy(name, located, normal, r.tries)
  BY <1>1, <1>3 DEF TargetBy
<1> HIDE DEF normal
<1>6. \A n \in DOMAIN r.tries : LooksAtIts(Own(name, "TuningTarget"), r.tries[n].needs)
  BY <1>1, <1>3, LooksAtOwn
<1>7. GoodReader(name, located, normal, "TuningTarget", r)
  BY <1>3, <1>4, <1>5, <1>6 DEF GoodReader, LooksAt
<1>8. AllGood(name, located, normal, [TuningTarget |-> r])
  BY <1>7, OneReaderGood
<1> QED
  BY <1>8 DEF t, r, normal

LEMMA TwoSources ==
  ASSUME NEW f, f # "ScaledTuningTarget", NEW c, NEW d
  PROVE  LooksAtIts(Collects(f), {<<f, c>>, <<f, d>>}) /\ LooksAtIts(Collects(f), {<<f, c>>})
BY OwnFieldCollected DEF LooksAtIts

LEMMA LuxMinerReads ==
  ASSUME NEW located
  PROVE  /\ AllGood("LuxMiner", located, TRUE,
                    LuxMinerIdentity ++ LuxMinerHashrates ++ LuxMinerReadings ++ LuxMinerDetails
                      ++ LuxMinerMessages ++ LuxMinerFluid ++ LuxMinerPools ++ LuxMinerPoolsConfig)
         /\ OwnParts("Hashboards", LuxMinerBoards.parts)
         /\ AllOwnRows(LuxMinerFans)
<1>0. "no" \in Instead("LuxMiner", "IsMining")
  BY InsteadOfMining
<1>1. /\ AllOwn("no", LuxMinerIdentity) /\ AllOwn("no", LuxMinerHashrates) /\ AllOwn("no", LuxMinerMessages)
      /\ AllOwn("no", LuxMinerFluid) /\ AllOwn("no", LuxMinerPools)
  BY PlainOwn, ListsOwn, JoinedOwn
     DEF LuxMinerIdentity, LuxMinerHashrates, LuxMinerMessages, LuxMinerFluid, LuxMinerPools
<1>2. AllOwn("no", LuxMinerReadings)
  BY PlainOwn, TellsOwn, OneReaderOwn, JoinedOwn DEF LuxMinerReadings
<1>3. AllGood("LuxMiner", located, TRUE, LuxMinerDetails)
  BY <1>0, PlainOwn, TwoSources, PowerGood, OwnIsGood, JoinedGood DEF LuxMinerDetails
<1>4. AllOwn("no", LuxMinerPoolsConfig)
  BY TwoSources, OneTryOwn, OneReaderOwn, Blanks DEF LuxMinerPoolsConfig, Says
<1>5. OwnParts("Hashboards", LuxMinerBoards.parts)
  <2>1. \A needs \in {{<<"Hashboards", "stats">>}, {<<"Hashboards", "temps">>}} :
          LooksAtIts(Collects("Hashboards"), needs)
    BY TwoSources
  <2> QED
    BY <2>1, PartsOwn, SourcesOfRows, RowsAre, JoinedParts DEF LuxMinerBoards
<1>6. AllOwnRows(LuxMinerFans)
  BY SourcesOfRows, RowsAre, OwnRows DEF LuxMinerFans
<1> QED
  BY <1>0, <1>1, <1>2, <1>3, <1>4, <1>5, <1>6, OwnIsGood, JoinedGood

LEMMA BlankPartsOf ==
  ASSUME NEW names, NEW alternatives, NEW key
  PROVE  BlankParts(PartsOf(names, alternatives, key))
BY PartsOwn

LEMMA JoinedBlank ==
  ASSUME NEW p, NEW q, BlankParts(p), BlankParts(q)
  PROVE  BlankParts(p ++ q)
BY JoinedParts

LEMMA BlankRows ==
  ASSUME NEW slots, NEW parts, BlankParts(parts)
  PROVE  BlankParts(Rows(slots, parts).parts)
BY DEF Rows

PartsWithin(own, parts) ==
  \A p \in DOMAIN parts : \A needs \in parts[p].needs : LooksAtIts(own, needs)

LEMMA VnishReads ==
  /\ AllOwn("no", VnishIdentity ++ VnishReadings ++ VnishPools)
  /\ BlankParts(VnishBoards.parts)
  /\ PartsLookAt(Own("Vnish", "Hashboards"), VnishBoards)
  /\ AllOwnRows(VnishFans)
<1>0. /\ "SerialNumber" \in Collects("SerialNumber")
      /\ "ExpectedHashrate" \in Collects("ExpectedHashrate")
  BY OwnFieldCollected
<1>1. AllOwn("no", VnishIdentity)
  BY <1>0, PlainOwn, GivenOwn, OneOrTwoCommands, OneReaderOwn, JoinedOwn DEF VnishIdentity
<1>2. AllOwn("no", VnishReadings)
  BY <1>0, PlainOwn, GivenOwn, OneOrTwoCommands, TellsOwn, OneReaderOwn, JoinedOwn
     DEF VnishReadings
<1>3. AllOwn("no", VnishPools)
  BY OneSourceOwn, OneReaderOwn, Blanks DEF VnishPools
<1>4. BlankParts(VnishBoards.parts)
  BY BlankPartsOf, BlankRows, JoinedBlank DEF VnishBoards
<1>5. AllOwnRows(VnishFans)
  BY SourcesOfRows, RowsAre, OwnRows DEF VnishFans
<1>6. PartsLookAt(Own("Vnish", "Hashboards"), VnishBoards)
  <2> DEFINE own == Own("Vnish", "Hashboards")
             Chains == {<<"Hashboards", c>> : c \in {"summary", "chains"}}
             Also(sources) == {{chain, source} : chain \in Chains, source \in sources}
             serials == {<<"SerialNumber", c>> : c \in {"info", "factory_info"}}
             tuned == {<<"IsMining", "status">>}
             chips == {<<"Chips", "chains">>}
             parts == PartsOf({"hashrate", "expected_hashrate", "board_temperature",
                               "chip_temperature", "intake_temperature", "outlet_temperature",
                               "working_chips", "voltage", "frequency"},
                              {{chain} : chain \in Chains}, "id")
                      ++ PartsOf({"serial_number"},
                                 {{chain} : chain \in Chains} \union Also(serials), "id")
                      ++ PartsOf({"tuned"}, Also(tuned), "id")
                      ++ PartsOf({"chips"}, Also(chips), "id")
  <2>1. VnishBoards.parts = parts
    BY DEF VnishBoards, Rows
  <2>2. {"Hashboards", "Chips", "IsMining", "SerialNumber"} \subseteq own
    BY DEF Own, Collects, AlsoNeeds
  <2>3. \A s \in Chains \union serials \union tuned \union chips : s[1] \in own
    BY <2>2
  <2> HIDE DEF own, Chains, serials, tuned, chips
  <2>4. \A sources \in {serials, tuned, chips} : \A needs \in Also(sources) :
          LooksAtIts(own, needs)
    BY <2>3 DEF LooksAtIts
  <2>5. \A needs \in {{chain} : chain \in Chains} : LooksAtIts(own, needs)
    BY <2>3 DEF LooksAtIts
  <2> HIDE DEF Also
  <2>6. \A names, x :
          (\A needs \in x : LooksAtIts(own, needs)) => PartsWithin(own, PartsOf(names, x, "id"))
    BY DEF PartsWithin, PartsOf
  <2>7. \A p, q : PartsWithin(own, p) /\ PartsWithin(own, q) => PartsWithin(own, p ++ q)
    BY DEF PartsWithin, ++
  <2>8. \A needs \in {{chain} : chain \in Chains} \union Also(serials) : LooksAtIts(own, needs)
    BY <2>4, <2>5
  <2>9. \A names : /\ PartsWithin(own, PartsOf(names, {{chain} : chain \in Chains}, "id"))
                   /\ PartsWithin(own, PartsOf(names, {{chain} : chain \in Chains}
                                                        \union Also(serials), "id"))
                   /\ PartsWithin(own, PartsOf(names, Also(tuned), "id"))
                   /\ PartsWithin(own, PartsOf(names, Also(chips), "id"))
    BY <2>4, <2>5, <2>6, <2>8
  <2>10. PartsWithin(own, parts)
    BY <2>7, <2>9
  <2>11. PartsLookAt(own, VnishBoards)
    BY <2>1, <2>10 DEF PartsLookAt, PartsWithin
  <2> QED
    BY <2>11 DEF own
<1> QED
  BY <1>1, <1>2, <1>3, <1>4, <1>5, <1>6, JoinedOwn

LEMMA WithPartsOwn ==
  ASSUME NEW f, NEW slots, NEW parts, NEW more, OwnParts(f, parts), OwnParts(f, more)
  PROVE  OwnParts(f, WithParts(Rows(slots, parts), more).parts)
<1>1. WithParts(Rows(slots, parts), more).parts = parts ++ more
  BY DEF WithParts, Rows
<1> QED
  BY <1>1, JoinedParts

LEMMA BoardSource ==
  ASSUME NEW c, NEW d, NEW e
  PROVE  /\ LooksAtIts(Collects("Hashboards"), {<<"Hashboards", c>>})
         /\ LooksAtIts(Collects("Hashboards"), {<<"Hashboards", c>>, <<"Hashboards", d>>})
         /\ LooksAtIts(Collects("Hashboards"),
                       {<<"Hashboards", c>>, <<"Hashboards", d>>, <<"Hashboards", e>>})
         /\ LooksAtIts(Collects("Hashboards"), {<<"Hashboards", c>>, <<"Chips", d>>})
BY DEF LooksAtIts, Collects

(* Parts that are in one set of sources, or in either of two.              *)
LEMMA PartsOfOwn ==
  ASSUME NEW names, NEW key, NEW needs, NEW others, LooksAtIts(Collects("Hashboards"), needs),
         LooksAtIts(Collects("Hashboards"), others)
  PROVE  /\ OwnParts("Hashboards", PartsOf(names, {needs}, key))
         /\ OwnParts("Hashboards", PartsOf(names, {needs, others}, key))
<1>1. \A x \in {needs} : LooksAtIts(Collects("Hashboards"), x)
  OBVIOUS
<1>2. \A x \in {needs, others} : LooksAtIts(Collects("Hashboards"), x)
  OBVIOUS
<1> QED
  BY <1>1, <1>2, PartsOwn

LEMMA EpicReads ==
  ASSUME NEW located, NEW normal
  PROVE  /\ AllGood("Epic", located, normal,
                    EpicIdentity ++ EpicHashrates ++ EpicTuning ++ EpicReadings ++ EpicPools
                      ++ EpicPoolsConfig ++ EpicTuningConfig)
         /\ OwnParts("Hashboards", WithParts(EpicBoards, EpicChips).parts)
         /\ AllOwnRows(EpicFans)
<1>0. /\ "no" \in Instead("Epic", "IsMining")
      /\ "ApiVersion" \in Collects("ApiVersion")
      /\ "TuningTarget" \in Collects("TuningTarget")
      /\ "TuningTarget" \in Collects("ScaledTuningTarget")
  BY OwnFieldCollected, InsteadOfMining
<1>1. AllOwn("no", EpicIdentity)
  BY <1>0, PlainOwn, GivenOwn, OneOrTwoCommands, OneReaderOwn, JoinedOwn DEF EpicIdentity
<1>2. AllGood("Epic", located, normal, EpicHashrates)
  <2> DEFINE needs == {<<"Hashrate", "summary">>}
             r == Reader(<<Says(needs, "given")>>, "zero")
  <2>1. LooksAtIts(Own("Epic", "Hashrate"), needs)
    BY OwnFieldCollected DEF LooksAtIts, Own
  <2>2. "zero" \in Blank \union Instead("Epic", "Hashrate")
    BY DEF Instead
  <2>3. EpicHashrates = [Hashrate |-> r] ++ Plain("capabilities", {"ExpectedHashrate"})
    BY DEF EpicHashrates
  <2>4. r = Reader(<<When("always", needs, "given")>>, "zero")
    BY DEF Says
  <2> HIDE DEF needs
  <2>5. GoodReader("Epic", located, normal, "Hashrate", r)
    BY <2>1, <2>2, <2>4, OneTryGood
  <2> HIDE DEF r
  <2>6. AllGood("Epic", located, normal, [Hashrate |-> r])
    BY <2>5, OneReaderGood
  <2>7. AllGood("Epic", located, normal, Plain("capabilities", {"ExpectedHashrate"}))
    BY <1>0, PlainOwn, OwnIsGood
  <2> QED
    BY <2>3, <2>6, <2>7, JoinedGood
<1>3. AllOwn("no", EpicTuning)
  <2>1. /\ OwnReader("no", "TuningTarget", Given("TuningTarget", <<"summary">>))
        /\ OwnReader("no", "ScaledTuningTarget", Given("TuningTarget", <<"summary">>))
    BY <1>0, GivenOwn, OneOrTwoCommands
  <2> QED
    BY <2>1 DEF AllOwn, EpicTuning
<1>4. AllOwn("no", EpicReadings)
  BY PlainOwn, ListsOwn, TellsOwn, OneReaderOwn, JoinedOwn DEF EpicReadings
<1>5. AllOwn("no", EpicPools)
  BY OneSourceOwn, OneReaderOwn, Blanks DEF EpicPools
<1>6. AllGood("Epic", located, normal, EpicPoolsConfig)
  <2> DEFINE split == <<"PoolsConfig", "hashratesplit_config">>
             summary == <<"PoolsConfig", "summary">>
             t1 == Says({split, summary}, "given")
             t2 == Says({summary}, "group_of_summary")
             t3 == When("split", {split}, "given")
             t4 == Says({split}, "group_without_pools")
             r == Reader(<<t1, t2, t3, t4>>, "empty")
  <2>1. /\ t1.needs = {split, summary} /\ t1.when = "always" /\ t1.says = "given"
        /\ t2.needs = {summary} /\ t2.says = "group_of_summary"
        /\ t3.needs = {split} /\ t3.says = "given"
        /\ t4.needs = {split} /\ t4.says = "group_without_pools"
    BY DEF Says, When
  <2>2. /\ r.tries = <<t1, t2, t3, t4>> /\ r.otherwise = "empty"
        /\ EpicPoolsConfig = [PoolsConfig |-> r]
    BY DEF Reader, EpicPoolsConfig
  <2>3. /\ LooksAtIts(Own("Epic", "PoolsConfig"), {split, summary})
        /\ LooksAtIts(Own("Epic", "PoolsConfig"), {summary})
        /\ LooksAtIts(Own("Epic", "PoolsConfig"), {split})
    BY TwoSources, LooksAtOwn
  <2> HIDE DEF t1, t2, t3, t4, r, split, summary
  <2>4. /\ DOMAIN r.tries = {1, 2, 3, 4}
        /\ r.tries[1] = t1 /\ r.tries[2] = t2 /\ r.tries[3] = t3 /\ r.tries[4] = t4
    BY <2>2
  <2>5. Instead("Epic", "PoolsConfig") = {"group_of_summary"}
    BY DEF Instead
  <2>6. SaysTheSame({"group_of_summary"}, r)
    <3>1. TriedBefore(r.tries, 2, 3)
      BY <2>1, <2>4 DEF TriedBefore
    <3> QED
      BY <2>1, <2>2, <2>4, <3>1, Blanks DEF SaysTheSame
  <2>7. \A n \in DOMAIN r.tries : LooksAtIts(Own("Epic", "PoolsConfig"), r.tries[n].needs)
    BY <2>1, <2>3, <2>4
  <2>8. GoodReader("Epic", located, normal, "PoolsConfig", r)
    BY <2>4, <2>5, <2>6, <2>7 DEF GoodReader, LooksAt
  <2> QED
    BY <2>2, <2>8, OneReaderGood
<1>7. AllOwn("no", EpicTuningConfig)
  <2>1. \A f \in {"FanConfig", "ScalingConfig", "TuningConfig"} :
          OwnReader("no", f, Reader(<<Says({<<f, "summary">>}, "given")>>, "error"))
    BY OneSourceOwn, Blanks
  <2> QED
    BY <2>1 DEF AllOwn, EpicTuningConfig
<1>8. OwnParts("Hashboards", EpicChips)
  <2> DEFINE board == <<"Hashboards", "summary">>
             chips == [p \in {"chip_temperature", "chip_voltage", "chip_frequency",
                              "chip_hashrate"} |->
                        [needs |-> {{board,
                                     <<"Chips", CASE p = "chip_temperature" -> "chip_temps"
                                                  [] p = "chip_voltage" -> "voltages"
                                                  [] p = "chip_frequency" -> "clocks"
                                                  [] p = "chip_hashrate" -> "hashrate">>}},
                         key |-> "id", otherwise |-> "nothing"]]
  <2>1. \A c : LooksAtIts(Collects("Hashboards"), {board, <<"Chips", c>>})
    BY BoardSource
  <2>2. OwnParts("Hashboards", chips)
    BY <2>1, Blanks DEF OwnParts
  <2>3. OwnParts("Hashboards",
                 PartsOf({"working_chips"}, {{board, <<"Chips", "hashrate">>}, {board}}, "id"))
    BY BoardSource, PartsOfOwn
  <2>4. EpicChips =
          chips ++ PartsOf({"working_chips"}, {{board, <<"Chips", "hashrate">>}, {board}}, "id")
    BY DEF EpicChips
  <2> HIDE DEF chips, board
  <2> QED
    BY <2>2, <2>3, <2>4, JoinedParts
<1>9. OwnParts("Hashboards", WithParts(EpicBoards, EpicChips).parts)
  BY <1>8, SourcesOfRows, BoardSource, PartsOfOwn, JoinedParts, WithPartsOwn DEF EpicBoards
<1>10. AllOwnRows(EpicFans)
  BY SourcesOfRows, RowsAre, OwnRows DEF EpicFans
<1> QED
  BY <1>0, <1>1, <1>2, <1>3, <1>4, <1>5, <1>6, <1>7, <1>9, <1>10, OwnIsGood, JoinedGood

LEMMA MarathonReads ==
  ASSUME NEW located, NEW normal,
         \A s, u \in located : s[1] = "TuningTarget" /\ u[1] = "TuningTarget" => s[2] = u[2]
  PROVE  /\ AllGood("Marathon", located, normal,
                    MarathonIdentity ++ MarathonHashrates ++ MarathonReadings ++ MarathonPools
                      ++ MarathonPoolsConfig)
         /\ OwnParts("Hashboards", WithParts(MarathonBoards, MarathonChips).parts)
         /\ AllOwnRows(MarathonFans)
<1>0. "no" \in Instead("Marathon", "IsMining")
  BY InsteadOfMining
<1>1. AllOwn("no", MarathonIdentity) /\ AllOwn("no", MarathonHashrates)
  BY PlainOwn, JoinedOwn DEF MarathonIdentity, MarathonHashrates
<1>2. AllGood("Marathon", located, normal, MarathonReadings)
  <2> DEFINE s == <<"TuningTarget", "miner_config">>
             t == Says({s}, "power")
             r == Reader(<<t>>, "none")
  <2>1. t.needs = {s} /\ t.says = "power" /\ r.tries = <<t>> /\ r.otherwise = "none"
    BY DEF Says, When, Reader
  <2>2. LooksAtIts(Collects("TuningTarget"), {s})
    BY TwoSources
  <2>3. MarathonReadings =
          Plain("brief", {"Wattage", "Uptime"}) ++ [TuningTarget |-> r]
            ++ Plain("locate_miner", {"LightFlashing"}) ++ Lists("event_chart", {"Messages"})
            ++ [IsMining |-> Reader(Tells(<<"IsMining", "brief">>), "no")]
    BY DEF MarathonReadings
  <2> HIDE DEF t, r, s
  <2>4. DOMAIN r.tries = {1} /\ r.tries[1] = t
    BY <2>1
  <2>5. SaysTheSame(Instead("Marathon", "TuningTarget"), r)
    BY <2>1, <2>4, Blanks DEF SaysTheSame
  <2>6. TargetBy("Marathon", located, normal, r.tries)
    <3>1. r.tries[1].needs # {} /\ r.tries[1].says # "mode"
      BY <2>1, <2>4
    <3> QED
      BY <2>4, <3>1 DEF TargetBy
  <2>7. LooksAtIts(Own("Marathon", "TuningTarget"), {s})
    BY <2>2, LooksAtOwn
  <2>8. GoodReader("Marathon", located, normal, "TuningTarget", r)
    BY <2>1, <2>4, <2>5, <2>6, <2>7 DEF GoodReader, LooksAt
  <2> QED
    BY <1>0, <2>3, <2>8, PlainOwn, ListsOwn, TellsOwn, OneReaderOwn, OneReaderGood, OwnIsGood, JoinedGood
<1>3. AllOwn("no", MarathonPools) /\ AllOwn("no", MarathonPoolsConfig)
  BY OneSourceOwn, OneReaderOwn, Blanks DEF MarathonPools, MarathonPoolsConfig
<1>4. OwnParts("Hashboards", MarathonChips)
  BY BoardSource, PartsOfOwn DEF MarathonChips
<1>5. OwnParts("Hashboards", WithParts(MarathonBoards, MarathonChips).parts)
  BY <1>4, SourcesOfRows, BoardSource, PartsOfOwn, JoinedParts, WithPartsOwn DEF MarathonBoards
<1>6. AllOwnRows(MarathonFans)
  BY SourcesOfRows, RowsAre, OwnRows DEF MarathonFans
<1> QED
  BY <1>0, <1>1, <1>2, <1>3, <1>5, <1>6, OwnIsGood, JoinedGood

LEMMA AuradineReads ==
  ASSUME NEW located, NEW normal, <<"IsMining", "mode">> \in located
  PROVE  /\ AllGood("Auradine", located, normal,
                    AuradineIdentity ++ AuradineHashrates ++ AuradineReadings ++ AuradineStatus
                      ++ AuradinePools ++ AuradinePoolsConfig)
         /\ OwnParts("Hashboards", WithParts(AuradineBoards, AuradineChips).parts)
         /\ AllOwnRows(AuradineFans)
<1>0. /\ \A f, c, d : f # "ScaledTuningTarget" => OwnReader("no", f, Given(f, <<c, d>>))
      /\ "no" \in Instead("Auradine", "IsMining")
  BY OwnFieldCollected, GivenOwn, OneOrTwoCommands, InsteadOfMining
<1>1. AllOwn("no", AuradineIdentity) /\ AllOwn("no", AuradineHashrates)
  BY <1>0, PlainOwn, OneReaderOwn, JoinedOwn DEF AuradineIdentity, AuradineHashrates
<1>2. AllGood("Auradine", located, normal, AuradineReadings)
  <2> DEFINE s == <<"TuningTarget", "mode">>
             u == <<"TuningTarget", "summary">>
             t1 == When("mode", {s}, "mode")
             t2 == Says({s}, "power")
             t3 == Says({u}, "hashrate")
             r == Reader(ModeOrPower(s) \o <<t3>>, "none")
  <2>1. /\ t1.needs = {s} /\ t1.says = "mode" /\ t1.when = "mode"
        /\ t2.needs = {s} /\ t2.says = "power" /\ t3.needs = {u} /\ t3.says = "hashrate"
    BY DEF Says, When
  <2>2. r.tries = <<t1, t2>> \o <<t3>> /\ r.otherwise = "none"
    BY DEF Reader, ModeOrPower
  <2>3. /\ LooksAtIts(Own("Auradine", "TuningTarget"), {s})
        /\ LooksAtIts(Own("Auradine", "TuningTarget"), {u})
    BY TwoSources, LooksAtOwn
  <2>4. AuradineReadings =
          [Wattage |-> Given("Wattage", <<"psu", "summary">>)] ++ [TuningTarget |-> r]
            ++ Plain("led", {"LightFlashing"}) ++ Lists("led", {"Messages"})
            ++ Plain("summary", {"Uptime"})
    BY DEF AuradineReadings
  <2> HIDE DEF t1, t2, t3, r, s, u
  <2>5. /\ DOMAIN r.tries = {1, 2, 3}
        /\ r.tries[1] = t1 /\ r.tries[2] = t2 /\ r.tries[3] = t3
    BY <2>2
  <2>6. SaysTheSame(Instead("Auradine", "TuningTarget"), r)
    <3>1. Instead("Auradine", "TuningTarget") = {"hashrate"}
      BY DEF Instead
    <3>2. SaysTheSame({"hashrate"}, r)
      BY <2>1, <2>2, <2>5, Blanks DEF SaysTheSame
    <3> QED
      BY <3>1, <3>2
  <2>7. \A n \in DOMAIN r.tries : r.tries[n].needs # {}
    BY <2>1, <2>5
  <2>8. TargetBy("Auradine", located, normal, r.tries)
    <3>1. 1 < 2 /\ s \in t2.needs
      BY <2>1
    <3>2. InOrder(r.tries)
      BY <2>1, <2>5, <3>1 DEF InOrder
    <3> QED
      BY <2>7, <3>2 DEF TargetBy, InOrder
  <2>9. \A n \in DOMAIN r.tries : LooksAtIts(Own("Auradine", "TuningTarget"), r.tries[n].needs)
    BY <2>1, <2>3, <2>5
  <2>10. GoodReader("Auradine", located, normal, "TuningTarget", r)
    BY <2>5, <2>6, <2>8, <2>9 DEF GoodReader, LooksAt
  <2>11. AllOwn("no", [Wattage |-> Given("Wattage", <<"psu", "summary">>)])
    BY <1>0, OneReaderOwn
  <2> QED
    BY <1>0, <2>4, <2>10, <2>11, PlainOwn, ListsOwn, OneReaderGood, OwnIsGood, JoinedGood
<1>3. AllGood("Auradine", located, normal, AuradineStatus)
  <2> DEFINE own == <<"IsMining", "mode">>
             second == <<"IsMining", "summary">>
             third == <<"Hashrate", "summary">>
             t1 == When("mining", {own}, "yes")
             t2 == Says({own}, "no")
             t3 == When("mining", {second}, "yes")
             t4 == Says({second}, "no")
             t5 == When("mining", {third}, "yes")
             t6 == Says({third}, "no")
             r == Reader(Tells(own) \o Tells(second) \o Tells(third), "no")
  <2>1. /\ t1.needs = {own} /\ t1.when = "mining" /\ t1.says = "yes"
        /\ t2.needs = {own} /\ t2.when = "always" /\ t2.says = "no"
        /\ t3.needs = {second} /\ t3.when = "mining" /\ t3.says = "yes"
        /\ t4.needs = {second} /\ t4.says = "no"
        /\ t5.needs = {third} /\ t5.when = "mining" /\ t5.says = "yes"
        /\ t6.needs = {third} /\ t6.says = "no"
    BY DEF Says, When
  <2>2. /\ r.tries = <<t1, t2>> \o <<t3, t4>> \o <<t5, t6>> /\ r.otherwise = "no"
        /\ AuradineStatus = [IsMining |-> r]
    BY DEF Reader, Tells, AuradineStatus
  <2>3. LooksAtIts(Own("Auradine", "IsMining"), {own}) /\ own \in located
    BY TwoSources, LooksAtOwn
  <2> HIDE DEF t1, t2, t3, t4, t5, t6, r, own, second, third
  <2>4. /\ DOMAIN r.tries = 1..6
        /\ r.tries[1] = t1 /\ r.tries[2] = t2 /\ r.tries[3] = t3
        /\ r.tries[4] = t4 /\ r.tries[5] = t5 /\ r.tries[6] = t6
    BY <2>2
  <2> DEFINE mine == Own("Auradine", "IsMining")
             instead == Instead("Auradine", "IsMining")
  <2>5. LooksAtIts(mine, {own}) /\ "no" \in Blank \union instead
    BY <1>0, <2>3
  <2> HIDE DEF mine, instead
  <2>6. LooksAt(located, mine, r)
    <3>1. \A n \in 1..6 : n = 1 \/ n = 2 \/ 2 < n
      OBVIOUS
    <3>2. 2 \in DOMAIN r.tries /\ t2.needs \subseteq located
      BY <2>1, <2>3, <2>4
    <3> QED
      BY <2>1, <2>4, <2>5, <3>1, <3>2 DEF LooksAt
  <2>7. SaysTheSame(instead, r)
    <3>1. /\ \A n \in {1, 3, 5} : r.tries[n].says = "yes" /\ r.tries[n].when = "mining"
                                 /\ r.tries[n].needs # {}
          /\ \A n \in {2, 4, 6} : r.tries[n].says = "no"
          /\ r.tries[1].needs = r.tries[2].needs /\ r.tries[3].needs = r.tries[4].needs
      BY <2>1, <2>4
    <3>2. \A n \in {3, 5} : TriedBefore(r.tries, 2, n)
      <4>1. 1 \in DOMAIN r.tries /\ 1 < 2
        BY <2>4
      <4> QED
        BY <3>1, <4>1 DEF TriedBefore
    <3>3. TriedBefore(r.tries, 4, 5)
      <4>1. 3 \in DOMAIN r.tries /\ 3 < 4
        BY <2>4
      <4> QED
        BY <3>1, <4>1 DEF TriedBefore
    <3>4. \A m, n \in DOMAIN r.tries :
            \/ n < m \/ n \in {2, 4, 6} \/ (m \in {1, 3, 5} /\ n \in {1, 3, 5})
            \/ (m = 2 /\ n \in {3, 5}) \/ (m = 4 /\ n = 5)
      BY <2>4
    <3>5. \A m, n \in DOMAIN r.tries :
            \/ r.tries[m].says = r.tries[n].says \/ n < m
            \/ r.tries[n].says \in Blank \union instead \/ TriedBefore(r.tries, m, n)
      BY <2>5, <3>1, <3>2, <3>3, <3>4
    <3> QED
      BY <2>2, <2>5, <3>5 DEF SaysTheSame
  <2>8. DOMAIN r.tries \subseteq Nat
    BY <2>4
  <2>9. GoodReader("Auradine", located, normal, "IsMining", r)
    BY <2>6, <2>7, <2>8 DEF GoodReader, mine, instead
  <2> QED
    BY <2>2, <2>9, OneReaderGood
<1>4. AllOwn("no", AuradinePools) /\ AllOwn("no", AuradinePoolsConfig)
  BY ListsOwn, OneSourceOwn, OneReaderOwn, Blanks DEF AuradinePools, AuradinePoolsConfig
<1>5. OwnParts("Hashboards", AuradineChips)
  <2> DEFINE Of(command) == <<"Chips", command>>
             boards == {<<"Hashboards", c>> : c \in AuradineBoardCommands}
             Also(chips) == {{b, c} : b \in boards, c \in chips}
             t == {Of("temperature")}
             v == {Of("voltage")}
             q == {Of("frequency")}
             w == {Of("temperature"), Of("voltage"), Of("frequency")}
             devs == {<<"Hashboards", "devs">>}
  <2>1. AuradineChips = PartsOf({"chip_temperature"}, Also(t), "id")
                          ++ PartsOf({"chip_voltage"}, Also(v), "id")
                          ++ PartsOf({"chip_frequency"}, Also(q), "id")
                          ++ PartsOf({"working_chips"}, Also(w) \union {devs}, "id")
    BY DEF AuradineChips
  <2>2. \A c \in t \union v \union q \union w : \E x : c = <<"Chips", x>>
    OBVIOUS
  <2>3. \A b \in boards : \E x : b = <<"Hashboards", x>>
    OBVIOUS
  <2>4. LooksAtIts(Collects("Hashboards"), devs)
    BY BoardSource
  <2> HIDE DEF t, v, q, w, boards, devs
  <2>5. \A b \in boards, c \in t \union v \union q \union w : LooksAtIts(Collects("Hashboards"), {b, c})
    BY <2>2, <2>3, BoardSource
  <2>6. /\ \A needs \in Also(t) : LooksAtIts(Collects("Hashboards"), needs)
        /\ \A needs \in Also(v) : LooksAtIts(Collects("Hashboards"), needs)
        /\ \A needs \in Also(q) : LooksAtIts(Collects("Hashboards"), needs)
        /\ \A needs \in Also(w) : LooksAtIts(Collects("Hashboards"), needs)
    <3>1. ASSUME NEW chips, \A b \in boards, c \in chips : LooksAtIts(Collects("Hashboards"), {b, c})
          PROVE  \A needs \in Also(chips) : LooksAtIts(Collects("Hashboards"), needs)
      BY <3>1
    <3>2. \A chips \in {t, v, q, w} :
            \A b \in boards, c \in chips : LooksAtIts(Collects("Hashboards"), {b, c})
      BY <2>5
    <3> HIDE DEF Also
    <3> QED
      BY <3>1, <3>2
  <2> HIDE DEF Also
  <2>7. \A needs \in Also(w) \union {devs} : LooksAtIts(Collects("Hashboards"), needs)
    BY <2>4, <2>6
  <2>8. \A names : /\ OwnParts("Hashboards", PartsOf(names, Also(t), "id"))
                   /\ OwnParts("Hashboards", PartsOf(names, Also(v), "id"))
                   /\ OwnParts("Hashboards", PartsOf(names, Also(q), "id"))
                   /\ OwnParts("Hashboards", PartsOf(names, Also(w) \union {devs}, "id"))
    BY <2>6, <2>7, PartsOwn
  <2> QED
    BY <2>1, <2>8, JoinedParts
<1>6. OwnParts("Hashboards", WithParts(AuradineBoards, AuradineChips).parts)
  BY <1>5, SourcesOfRows, BoardSource, PartsOfOwn, JoinedParts, WithPartsOwn DEF AuradineBoards
<1>7. AllOwnRows(AuradineFans)
  BY SourcesOfRows, RowsAre, OwnRows DEF AuradineFans
<1> QED
  BY <1>0, <1>1, <1>2, <1>3, <1>4, <1>6, <1>7, OwnIsGood, JoinedGood

LEMMA ProtoReads ==
  ASSUME NEW located
  PROVE  /\ AllGood("Proto", located, TRUE,
                    ProtoIdentity ++ ProtoHashrates ++ ProtoReadings ++ ProtoPools
                      ++ ProtoSettings)
         /\ OwnParts("Hashboards", ProtoBoards.parts)
         /\ AllOwnRows(ProtoFans)
<1>0. "no" \in Instead("Proto", "IsMining")
  BY InsteadOfMining
<1>1. AllOwn("no", ProtoIdentity) /\ AllOwn("no", ProtoHashrates) /\ AllOwn("no", ProtoPools)
  BY PlainOwn, ListsOwn, JoinedOwn DEF ProtoIdentity, ProtoHashrates, ProtoPools
<1>2. AllGood("Proto", located, TRUE, ProtoReadings)
  BY <1>0, PlainOwn, ListsOwn, TellsOwn, NeverOwn, Blanks, TwoSources, PowerGood, OneReaderOwn,
     OwnIsGood, JoinedGood
     DEF ProtoReadings
<1>3. AllOwn("no", ProtoSettings)
  <2>1. /\ OwnReader("no", "PoolsConfig",
                     Reader(<<Says({<<"PoolsConfig", "pools">>}, "given")>>, "empty"))
        /\ OwnReader("no", "TuningConfig",
                     Reader(<<Says({<<"TuningConfig", "mining_target">>}, "power")>>, "error"))
        /\ OwnReader("no", "FanConfig", Reader(<<Says({<<"FanConfig", "cooling">>}, "given")>>, "error"))
    BY OneSourceOwn, Blanks
  <2> QED
    BY <2>1 DEF AllOwn, ProtoSettings
<1>4. OwnParts("Hashboards", ProtoBoards.parts)
  BY SourcesOfRows, BoardSource, PartsOfOwn, RowsAre, JoinedParts DEF ProtoBoards
<1>5. AllOwnRows(ProtoFans)
  BY SourcesOfRows, RowsAre, OwnRows DEF ProtoFans
<1> QED
  BY <1>0, <1>1, <1>2, <1>3, <1>4, <1>5, OwnIsGood, JoinedGood

LEMMA SealMinerReads ==
  ASSUME NEW located
  PROVE  /\ AllGood("SealMiner", located, TRUE,
                    SealMinerIdentity ++ SealMinerHashrates ++ SealMinerReadings ++ SealMinerPools
                      ++ SealMinerTuningConfig)
         /\ OwnParts("Hashboards", SealMinerBoards.parts)
         /\ AllOwnRows(SealMinerFans)
<1>0. /\ \A f, c, d : f # "ScaledTuningTarget" => OwnReader("no", f, Given(f, <<c, d>>))
      /\ "no" \in Instead("SealMiner", "IsMining")
  BY OwnFieldCollected, GivenOwn, OneOrTwoCommands, InsteadOfMining
<1>1. AllOwn("no", SealMinerIdentity)
  <2> DEFINE g == [f \in {"Mac", "FirmwareVersion", "ControlBoardVersion"} |->
                     Given(f, <<"get_system_info", "stats">>)]
  <2>1. AllOwn("no", g)
    BY <1>0 DEF AllOwn
  <2>2. SealMinerIdentity =
          Plain("stats", {"SerialNumber"}) ++ Plain("version", {"ApiVersion"}) ++ g
    BY DEF SealMinerIdentity
  <2> HIDE DEF g
  <2> QED
    BY <2>1, <2>2, PlainOwn, JoinedOwn
<1>2. AllOwn("no", SealMinerHashrates) /\ AllOwn("no", SealMinerPools)
  BY PlainOwn, ListsOwn, JoinedOwn DEF SealMinerHashrates, SealMinerPools
<1>3. AllGood("SealMiner", located, TRUE, SealMinerReadings)
  <2>1. AllOwn("no", [Wattage |-> Given("Wattage", <<"psu_status", "stats">>)])
    BY <1>0, OneReaderOwn
  <2>2. <<"Hashrate", "summary">>[1] \in Own("SealMiner", "IsMining")
    BY DEF Own, AlsoNeeds
  <2>3. GoodReader("SealMiner", located, TRUE, "IsMining",
                   Reader(Tells(<<"Hashrate", "summary">>), "no"))
    BY <1>0, <2>2, TellsOfOthers
  <2> QED
    BY <1>0, <2>1, <2>3, PlainOwn, ListsOwn, TwoSources, PowerGood, OneReaderGood,
       OwnIsGood, JoinedGood
       DEF SealMinerReadings
<1>4. AllOwn("no", SealMinerTuningConfig)
  BY OneSourceOwn, OneReaderOwn, Blanks DEF SealMinerTuningConfig
<1>5. OwnParts("Hashboards", SealMinerBoards.parts)
  BY SourcesOfRows, RowsAre DEF SealMinerBoards
<1>6. AllOwnRows(SealMinerFans)
  BY SourcesOfRows, RowsAre, OwnRows DEF SealMinerFans
<1> QED
  BY <1>0, <1>1, <1>2, <1>3, <1>4, <1>5, <1>6, OwnIsGood, JoinedGood

(* No request of the operations is about the mode.                         *)
NoMode(s) == "mode" \notin s.cells \union s.kept
AvoidsMode(f) == \A op \in DOMAIN f : \A n \in DOMAIN f[op] : NoMode(f[op][n])

LEMMA AvoidsIsNormal ==
  ASSUME NEW b, AvoidsMode(Operations(b))
  PROVE  KeepsNormal(b)
BY DEF AvoidsMode, NoMode, KeepsNormal, Used

LEMMA JoinedAvoid ==
  ASSUME NEW f, NEW g, AvoidsMode(f), AvoidsMode(g)
  PROVE  AvoidsMode(f ++ g)
BY DEF AvoidsMode, ++

LEMMA StepsAvoid ==
  ASSUME NEW x, x # "mode", NEW fail
  PROVE  /\ NoMode(Send({x}, fail)) /\ NoMode(Read({x}, fail)) /\ NoMode(DoneIf(x))
         /\ NoMode(Erase({x}, fail)) /\ NoMode(Add({x}, fail)) /\ NoMode(Fill({x}, fail))
BY DEF NoMode, Send, Read, DoneIf, Erase, Add, Fill, Step

LEMMA SequencesAvoid ==
  /\ \A s : NoMode(s) => \A n \in DOMAIN <<s>> : NoMode(<<s>>[n])
  /\ \A s, t : NoMode(s) /\ NoMode(t) => \A n \in DOMAIN <<s, t>> : NoMode(<<s, t>>[n])
  /\ \A s, t, u : NoMode(s) /\ NoMode(t) /\ NoMode(u)
                    => \A n \in DOMAIN <<s, t, u>> : NoMode(<<s, t, u>>[n])
<1>1. \A s : DOMAIN <<s>> = {1} /\ <<s>>[1] = s
  OBVIOUS
<1>2. \A s, t : DOMAIN <<s, t>> = {1, 2} /\ <<s, t>>[1] = s /\ <<s, t>>[2] = t
  OBVIOUS
<1>3. \A s, t, u : /\ DOMAIN <<s, t, u>> = {1, 2, 3} /\ <<s, t, u>>[1] = s
                   /\ <<s, t, u>>[2] = t /\ <<s, t, u>>[3] = u
  OBVIOUS
<1>4. ASSUME NEW s, NoMode(s), NEW n \in DOMAIN <<s>> PROVE NoMode(<<s>>[n])
  BY <1>1, <1>4
<1>5. ASSUME NEW s, NEW t, NoMode(s), NoMode(t), NEW n \in DOMAIN <<s, t>>
      PROVE  NoMode(<<s, t>>[n])
  BY <1>2, <1>5
<1>6. ASSUME NEW s, NEW t, NEW u, NoMode(s), NoMode(t), NoMode(u), NEW n \in DOMAIN <<s, t, u>>
      PROVE  NoMode(<<s, t, u>>[n])
  BY <1>3, <1>6
<1> QED
  BY <1>4, <1>5, <1>6

LEMMA EachAvoids ==
  ASSUME NEW names, NEW x, x # "mode", NEW fail
  PROVE  AvoidsMode(Each(names, {x}, fail))
BY StepsAvoid, SequencesAvoid DEF AvoidsMode, Each

LEMMA LuxMinerAvoids == AvoidsMode(LuxMinerControl)
<1>1. \A n \in DOMAIN LuxMinerSetPools : NoMode(LuxMinerSetPools[n])
  <2> DEFINE t1 == Read({"pools"}, Ignored)
             t2 == Erase({"pools"}, Must)
             t3 == Add({"pools"}, Must)
             t4 == Fill({"pools"}, Must)
  <2>1. LuxMinerSetPools = <<t1, t2, t2, t3, t3, t4, t4>>
    BY DEF LuxMinerSetPools
  <2>2. NoMode(t1) /\ NoMode(t2) /\ NoMode(t3) /\ NoMode(t4)
    BY StepsAvoid
  <2>3. DOMAIN <<t1, t2, t2, t3, t3, t4, t4>> = {1, 2, 3, 4, 5, 6, 7}
    OBVIOUS
  <2> HIDE DEF t1, t2, t3, t4
  <2> QED
    BY <2>1, <2>2, <2>3
<1>2. AvoidsMode([set_pools |-> LuxMinerSetPools])
  BY <1>1 DEF AvoidsMode
<1> QED
  BY <1>2, EachAvoids, JoinedAvoid DEF LuxMinerControl

LEMMA ProtoAvoids == AvoidsMode(ProtoControl ++ ProtoConfiguration)
<1>1. AvoidsMode([light_off |-> << >>])
  <2>1. DOMAIN << >> = {}
    OBVIOUS
  <2> QED
    BY <2>1 DEF AvoidsMode
<1> QED
  BY <1>1, EachAvoids, JoinedAvoid DEF ProtoControl, ProtoConfiguration

LEMMA SealMinerAvoids == AvoidsMode(SealMinerControl ++ SealMinerSetPools)
<1> DEFINE d == [o \in {"set_power_limit", "tune_power"} |->
                   <<Send({"target"}, IsOk), SealMinerReboot>>]
           r == [resume |-> <<Read({"running"}, Ignored), DoneIf("running"),
                              Send({"running"}, IsOk)>>]
<1>1. NoMode(SealMinerReboot)
  BY StepsAvoid DEF SealMinerReboot
<1>2. AvoidsMode(d)
  <2>1. NoMode(Send({"target"}, IsOk))
    BY StepsAvoid
  <2>2. \A n \in DOMAIN <<Send({"target"}, IsOk), SealMinerReboot>> :
          NoMode(<<Send({"target"}, IsOk), SealMinerReboot>>[n])
    BY <1>1, <2>1, SequencesAvoid
  <2> QED
    BY <2>2 DEF AvoidsMode
<1>3. AvoidsMode(r)
  <2> DEFINE q == <<Read({"running"}, Ignored), DoneIf("running"), Send({"running"}, IsOk)>>
  <2>1. \A n \in DOMAIN q : NoMode(q[n])
    BY StepsAvoid, SequencesAvoid
  <2> HIDE DEF q
  <2>2. AvoidsMode([resume |-> q])
    BY <2>1 DEF AvoidsMode
  <2> QED
    BY <2>2 DEF q
<1>4. AvoidsMode(SealMinerSetPools)
  <2> DEFINE q == <<Send({"pools"}, IsOk), SealMinerReboot>>
  <2>1. NoMode(Send({"pools"}, IsOk))
    BY StepsAvoid
  <2>2. \A n \in DOMAIN q : NoMode(q[n])
    BY <1>1, <2>1, SequencesAvoid
  <2> HIDE DEF q
  <2>3. AvoidsMode([set_pools |-> q])
    BY <2>2 DEF AvoidsMode
  <2> QED
    BY <2>3 DEF q, SealMinerSetPools
<1>5. SealMinerControl = Each({"light_on", "light_off"}, {"light"}, IsOk) ++ d
                           ++ Each({"restart"}, {"boots"}, IsOk)
                           ++ Each({"pause"}, {"running"}, IsOk) ++ r
  BY DEF SealMinerControl
<1> HIDE DEF d, r
<1> QED
  BY <1>2, <1>3, <1>4, <1>5, EachAvoids, JoinedAvoid

-----------------------------------------------------------------------------
(* From the readers and rows of a backend to what is wanted of it.         *)
LEMMA GoodBackend ==
  ASSUME NEW name, NEW commands, NEW located, NEW readers, NEW boards, NEW fans, NEW operations,
         \A normal : AllGood(name, located, normal, readers),
         OwnParts("Hashboards", boards.parts), AllOwnRows(fans)
  PROVE  ReadSoundly(Backend(name, commands, located, readers, boards, fans, operations))
<1> DEFINE b == Backend(name, commands, located, readers, boards, fans, operations)
<1>1. /\ b.name = name /\ b.located = located /\ b.readers = readers
      /\ b.rows = [Hashboards |-> boards] ++ fans
  BY BackendIs
<1> HIDE DEF b
<1>2. ReadSoundly(b)
  BY <1>1, JoinedRows, GoodIsSound
<1> QED
  BY <1>2 DEF b

LEMMA NormalBackend ==
  ASSUME NEW name, NEW commands, NEW located, NEW readers, NEW boards, NEW fans, NEW operations,
         AllGood(name, located, TRUE, readers), AvoidsMode(operations),
         OwnParts("Hashboards", boards.parts), AllOwnRows(fans)
  PROVE  ReadSoundly(Backend(name, commands, located, readers, boards, fans, operations))
<1> DEFINE b == Backend(name, commands, located, readers, boards, fans, operations)
<1>1. /\ b.name = name /\ b.located = located /\ b.readers = readers
      /\ b.rows = [Hashboards |-> boards] ++ fans /\ b.operations = operations
  BY BackendIs
<1> HIDE DEF b
<1>2. KeepsNormal(b)
  BY <1>1, AvoidsIsNormal DEF Operations
<1>3. AllGood(b.name, b.located, KeepsNormal(b), b.readers)
  <2>1. \A tries : TargetBy(name, located, TRUE, tries)
                   => TargetBy(b.name, b.located, KeepsNormal(b), tries)
    BY <1>1, <1>2 DEF TargetBy
  <2> QED
    BY <1>1, <2>1 DEF AllGood, GoodReader
<1>4. ReadSoundly(b)
  BY <1>1, <1>3, JoinedRows, GoodIsSound
<1> QED
  BY <1>4 DEF b

LEMMA VnishIsSound ==
  ASSUME NEW commands, NEW located, NEW readers, NEW boards, NEW fans, NEW operations,
         AllOwn("no", readers), BlankParts(boards.parts),
         PartsLookAt(Own("Vnish", "Hashboards"), boards), AllOwnRows(fans)
  PROVE  ReadSoundly(Backend("Vnish", commands, located, readers, boards, fans, operations))
<1> DEFINE b == Backend("Vnish", commands, located, readers, boards, fans, operations)
           h == [Hashboards |-> boards]
<1>1. b.name = "Vnish" /\ b.readers = readers /\ b.rows = h ++ fans
  BY BackendIs
<1>2. DOMAIN h = {"Hashboards"} /\ h["Hashboards"] = boards
  OBVIOUS
<1> HIDE DEF b, h
<1>3. \A f \in DOMAIN (h ++ fans) :
        \/ f = "Hashboards" /\ (h ++ fans)[f] = boards
        \/ f \in DOMAIN fans /\ (h ++ fans)[f] = fans[f]
  BY <1>2 DEF ++
<1>4. AllRows("Vnish", h ++ fans)
  BY <1>3, OwnPartsLook DEF AllRows, AllOwnRows
<1>5. "no" \in Instead("Vnish", "IsMining")
  BY InsteadOfMining
<1>6. ReadSoundly(b)
  BY <1>1, <1>4, <1>5, OwnIsGood, GoodIsSound
<1> QED
  BY <1>6 DEF b

LEMMA LocationsOfFields ==
  /\ <<"IsMining", "get_miner_conf">> \in AntMinerV2020Locations
  /\ <<"IsMining", "mode">> \in AuradineLocations
  /\ <<"TuningTarget", "device_info">> \in WhatsMinerV3Locations
BY DEF AntMinerV2020Locations, AuradineLocations, WhatsMinerV3Locations, Locate

(* Marathon asks one command for the target.                               *)
LEMMA MarathonTarget ==
  \A s, u \in MarathonLocations \union MarathonConfigLocations :
    s[1] = "TuningTarget" /\ u[1] = "TuningTarget" => s[2] = u[2]
<1>1. \A s \in MarathonLocations \union MarathonConfigLocations :
        s[1] = "TuningTarget" => s[2] = "miner_config"
  BY DEF MarathonLocations, MarathonConfigLocations, Locate
<1> QED
  BY <1>1

(* The telemetry of all backends is as the theorems about reads want it.   *)
THEOREM ReadersAreSound == \A b \in Backends : ReadSoundly(b)
<1>1. ASSUME NEW b \in WhatsMiner PROVE ReadSoundly(b)
  <2>1. /\ "yes" \in Instead("WhatsMinerV1", "IsMining")
        /\ "yes" \in Instead("WhatsMinerV2", "IsMining")
        /\ <<"TuningTarget", "device_info">>
             \in WhatsMinerV3Locations \union WhatsMinerV3ConfigLocations
    BY InsteadOfMining, LocationsOfFields
  <2> QED
    BY <2>1, WhatsMinerV1Reads, WhatsMinerV2Reads, WhatsMinerV3Reads, OwnBackend, GoodBackend
       DEF WhatsMiner
<1>2. ASSUME NEW b \in AntMiner PROVE ReadSoundly(b)
  <2>1. <<"IsMining", "get_miner_conf">>
          \in AntMinerV2020Locations \union AntMinerV2020ConfigLocations
    BY LocationsOfFields
  <2>2. /\ "no" \in Instead("AntMinerV2020", "IsMining")
        /\ "no" \in Instead("AntMinerV2023", "IsMining")
    BY InsteadOfMining
  <2> QED
    BY <2>1, <2>2, AntMinerReads, GoodBackend
       DEF AntMiner, AntMinerV2023Locations, AntMinerV2023ConfigLocations, AntMinerV2023Identity,
           AntMinerV2023Boards, AntMinerV2023Fans, AntMinerV2023Status, AntMinerV2023Pools,
           AntMinerV2023Readings, AntMinerV2023PoolsConfig, AntMinerV2023TuningConfig
<1>3. ASSUME NEW b \in BraiinsBOSminer PROVE ReadSoundly(b)
  <2>0. /\ "no" \in Instead("BraiinsV2109", "IsMining")
        /\ "no" \in Instead("BraiinsV2503", "IsMining")
        /\ "no" \in Instead("BraiinsV2505", "IsMining")
    BY InsteadOfMining
  <2> QED
    BY <2>0, BraiinsReads, OwnBackend
       DEF BraiinsBOSminer, BraiinsV2503Identity, BraiinsV2503Readings, BraiinsV2503Pools,
           BraiinsV2503Fans, BraiinsV2505Identity, BraiinsV2505Boards, BraiinsV2505Readings,
           BraiinsV2505Pools, BraiinsV2505Fans
<1>4. ASSUME NEW b \in BraiinsWeb PROVE ReadSoundly(b)
  <2>0. /\ "no" \in Instead("BraiinsV2507", "IsMining")
        /\ "no" \in Instead("BraiinsV2604", "IsMining")
    BY InsteadOfMining
  <2> QED
    BY <2>0, BraiinsReads, OwnBackend
       DEF BraiinsWeb, BraiinsV2604Identity, BraiinsV2604Boards, BraiinsV2604Readings,
           BraiinsV2604Details, BraiinsV2604Pools, BraiinsV2604Fans
<1>5. ASSUME NEW b \in Axe PROVE ReadSoundly(b)
  <2>0. /\ "no" \in Instead("BitaxeV2", "IsMining")
        /\ "no" \in Instead("BitaxeV29", "IsMining")
        /\ "no" \in Instead("NerdAxe", "IsMining")
    BY InsteadOfMining
  <2>1. \A located, normal :
          /\ AllGood("BitaxeV2", located, normal, BitaxeV2Identity ++ BitaxeV2Hashrates
                                                    ++ BitaxeV2Readings ++ BitaxeV2Pools)
          /\ AllGood("BitaxeV29", located, normal, BitaxeV2Identity ++ BitaxeV29Hashrates
                                                     ++ BitaxeV2Readings ++ BitaxeV2Pools)
          /\ AllGood("NerdAxe", located, normal, BitaxeV2Identity ++ BitaxeV2Hashrates
                                                   ++ BitaxeV2Readings ++ BitaxeV2Pools)
    BY <2>0, AxeReads, OwnIsGood, JoinedGood
  <2> QED
    BY <2>1, AxeReads, GoodBackend
       DEF Axe, BitaxeV29Identity, BitaxeV29Fans, BitaxeV29Readings, BitaxeV29Pools,
           NerdAxeIdentity, NerdAxeHashrates, NerdAxeFans, NerdAxeReadings, NerdAxePools
<1>6. ASSUME NEW b \in Avalon PROVE ReadSoundly(b)
  <2>0. /\ "no" \in Instead("AvalonA", "IsMining")
        /\ "no" \in Instead("AvalonQ", "IsMining")
    BY InsteadOfMining
  <2> QED
    BY <2>0, AvalonReads, OwnBackend DEF Avalon
<1>7. ASSUME NEW b \in ThirdParty PROVE ReadSoundly(b)
  <2>1. ReadSoundly(
         Backend("LuxMiner", LuxMinerCommands,
                 LuxMinerLocations \union LuxMinerConfigLocations,
                 LuxMinerIdentity ++ LuxMinerHashrates ++ LuxMinerReadings ++ LuxMinerDetails
                 ++ LuxMinerMessages ++ LuxMinerFluid ++ LuxMinerPools ++ LuxMinerPoolsConfig,
                 LuxMinerBoards, LuxMinerFans, LuxMinerControl))
    BY LuxMinerReads, LuxMinerAvoids, NormalBackend
  <2>2. ReadSoundly(
         Backend("Vnish", VnishCommands,
                 VnishLocations, VnishIdentity ++ VnishReadings ++ VnishPools,
                 VnishBoards, VnishFans, VnishLight ++ VnishPower ++ VnishControl))
    BY VnishReads, VnishIsSound
  <2>3. ReadSoundly(
         Backend("Epic", EpicCommands,
                 EpicLocations \union EpicConfigLocations,
                 EpicIdentity ++ EpicHashrates ++ EpicTuning ++ EpicReadings ++ EpicPools
                 ++ EpicPoolsConfig ++ EpicTuningConfig,
                 WithParts(EpicBoards, EpicChips), EpicFans, EpicControl))
    BY EpicReads, GoodBackend
  <2>4. ReadSoundly(
         Backend("Marathon", MarathonCommands,
                 MarathonLocations \union MarathonConfigLocations,
                 MarathonIdentity ++ MarathonHashrates ++ MarathonReadings ++ MarathonPools
                 ++ MarathonPoolsConfig,
                 WithParts(MarathonBoards, MarathonChips), MarathonFans,
                 MarathonSetPools ++ MarathonPause))
    BY MarathonReads, MarathonTarget, GoodBackend
  <2> QED
    BY <2>1, <2>2, <2>3, <2>4 DEF ThirdParty
<1>8. ASSUME NEW b \in Vendors PROVE ReadSoundly(b)
  <2>1. <<"IsMining", "mode">> \in AuradineLocations \union AuradineConfigLocations
    BY LocationsOfFields
  <2>2. ReadSoundly(
         Backend("Auradine", AuradineCommands,
                 AuradineLocations \union AuradineConfigLocations,
                 AuradineIdentity ++ AuradineHashrates ++ AuradineReadings ++ AuradineStatus
                 ++ AuradinePools ++ AuradinePoolsConfig,
                 WithParts(AuradineBoards, AuradineChips), AuradineFans, AuradineControl))
    BY <2>1, AuradineReads, GoodBackend
  <2>3. ReadSoundly(
         Backend("Proto", ProtoCommands,
                 ProtoLocations \union ProtoConfigLocations,
                 ProtoIdentity ++ ProtoHashrates ++ ProtoReadings ++ ProtoPools ++ ProtoSettings,
                 ProtoBoards, ProtoFans, ProtoControl ++ ProtoConfiguration))
    BY ProtoReads, ProtoAvoids, NormalBackend
  <2>4. ReadSoundly(
         Backend("SealMiner", SealMinerCommands,
                 SealMinerLocations \union SealMinerConfigLocations,
                 SealMinerIdentity ++ SealMinerHashrates ++ SealMinerReadings ++ SealMinerPools
                 ++ SealMinerTuningConfig,
                 SealMinerBoards, SealMinerFans, SealMinerControl ++ SealMinerSetPools))
    BY SealMinerReads, SealMinerAvoids, NormalBackend
  <2> QED
    BY <2>2, <2>3, <2>4 DEF Vendors
<1> QED
  BY <1>1, <1>2, <1>3, <1>4, <1>5, <1>6, <1>7, <1>8 DEF Backends

(* A getter, get_data_filtered and get_data say the same of a field, for   *)
(* every backend, once they collect what AlsoNeeds names besides.          *)
COROLLARY BackendsFieldsStandAlone ==
  ASSUME Table \subseteq Backends
  PROVE  Spec => []FieldsStandAlone
BY ReadersAreSound, FieldsAlwaysStandAlone DEF ReadSoundly

(* With any of the answers lost a read says of a field what it would have  *)
(* said, or that nothing is known, or what Instead names, for every backend*)
(* and every field.                                                        *)
COROLLARY BackendsOnlyLose ==
  ASSUME Table \subseteq Backends
  PROVE  Spec => []LossOnlyRemoves
BY ReadersAreSound, LossAlwaysOnlyRemoves DEF ReadSoundly

(* The tuning target that is reported while others tune the miner was in   *)
(* force at some moment of the read, for every backend; for WhatsMinerV3   *)
(* unless a mode came or went between its two answers, and for Marathon    *)
(* unless the device was in a mode all the while.                          *)
COROLLARY BackendsTellTheTarget ==
  ASSUME Table \subseteq Backends
  PROVE  Spec => []ReadingIsOfOneMoment
BY TablesAreSound, ReadersAreSound, ReadingAlwaysOfOneMoment DEF Sound, ReadSoundly

-----------------------------------------------------------------------------
(* How the rows of the backends find the boards.                           *)
InOrderOfLists(parts) == \A p \in DOMAIN parts : parts[p].key = "position"
ByTheirName(parts) == \A p \in DOMAIN parts : parts[p].key \in {"id", "number", "serial"}
Keyed(parts) == \A p \in DOMAIN parts : parts[p].key \in BoardKeys

LEMMA FoundByKey ==
  ASSUME NEW names, NEW alternatives, NEW source, NEW key
  PROVE  /\ key = "position" => InOrderOfLists(Parts(names, source, key))
         /\ key \in {"id", "number", "serial"} =>
              /\ ByTheirName(Parts(names, source, key))
              /\ ByTheirName(PartsOf(names, alternatives, key))
         /\ key \in BoardKeys =>
              /\ Keyed(Parts(names, source, key)) /\ Keyed(Assumed(names, source, key))
              /\ Keyed(PartsOf(names, alternatives, key))
BY DEF InOrderOfLists, ByTheirName, Keyed, Parts, PartsOf, Assumed

LEMMA JoinedRowsFind ==
  ASSUME NEW p, NEW q
  PROVE  /\ InOrderOfLists(p) /\ InOrderOfLists(q) => InOrderOfLists(p ++ q)
         /\ ByTheirName(p) /\ ByTheirName(q) => ByTheirName(p ++ q)
         /\ Keyed(p) /\ Keyed(q) => Keyed(p ++ q)
BY DEF InOrderOfLists, ByTheirName, Keyed, ++

LEMMA BoardsAre ==
  ASSUME NEW name, NEW commands, NEW located, NEW readers, NEW boards, NEW fans, NEW operations,
         IF name \in MixesBoards THEN Keyed(boards.parts)
         ELSE InOrderOfLists(boards.parts) \/ ByTheirName(boards.parts)
  PROVE  FindsBoards(Backend(name, commands, located, readers, boards, fans, operations))
<1> DEFINE b == Backend(name, commands, located, readers, boards, fans, operations)
           h == [Hashboards |-> boards]
<1>1. b.name = name /\ b.rows = h ++ fans
  BY BackendIs
<1>2. DOMAIN h = {"Hashboards"} /\ h["Hashboards"] = boards
  OBVIOUS
<1> HIDE DEF b, h
<1>3. (h ++ fans)["Hashboards"] = boards
  BY <1>2 DEF ++
<1>4. FindsBoards(b)
  BY <1>1, <1>3 DEF FindsBoards, InOrderOfLists, ByTheirName, Keyed
<1> QED
  BY <1>4 DEF b

(* Rows whose parts are found in different ways.                           *)
LEMMA KeyedRows ==
  /\ Keyed(WhatsMinerV3Boards.parts) /\ Keyed(AvalonABoards.parts) /\ Keyed(AvalonQBoards.parts)
  /\ Keyed(LuxMinerBoards.parts) /\ Keyed(WithParts(EpicBoards, EpicChips).parts)
  /\ Keyed(WithParts(MarathonBoards, MarathonChips).parts)
  /\ Keyed(WithParts(AuradineBoards, AuradineChips).parts)
<1>0. /\ \A slots, parts : Rows(slots, parts).parts = parts
      /\ \A slots, parts, more :
           WithParts(Rows(slots, parts), more).parts = parts ++ more
  BY DEF Rows, WithParts
<1>1. \A names, source : /\ Keyed(Parts(names, source, "position"))
                         /\ Keyed(Parts(names, source, "number"))
                         /\ Keyed(Parts(names, source, "id"))
                         /\ Keyed(Assumed(names, source, "number"))
  BY FoundByKey DEF BoardKeys
<1>2. \A names, alternatives : /\ Keyed(PartsOf(names, alternatives, "position"))
                               /\ Keyed(PartsOf(names, alternatives, "id"))
                               /\ Keyed(PartsOf(names, alternatives, "active"))
  BY FoundByKey DEF BoardKeys
<1>3. Keyed(WhatsMinerV3Boards.parts)
  BY <1>0, <1>1, JoinedRowsFind DEF WhatsMinerV3Boards
<1>4. Keyed(AvalonABoards.parts) /\ Keyed(AvalonQBoards.parts)
  BY <1>0, <1>1, JoinedRowsFind DEF AvalonABoards, AvalonQBoards
<1>5. Keyed(LuxMinerBoards.parts)
  BY <1>0, <1>1, <1>2, JoinedRowsFind DEF LuxMinerBoards
<1>6. Keyed(EpicChips)
  <2> DEFINE of == {"chip_temperature", "chip_voltage", "chip_frequency", "chip_hashrate"}
             board == <<"Hashboards", "summary">>
             from(p) == CASE p = "chip_temperature" -> "chip_temps"
                          [] p = "chip_voltage" -> "voltages"
                          [] p = "chip_frequency" -> "clocks"
                          [] p = "chip_hashrate" -> "hashrate"
             chips == [p \in of |-> [needs |-> {{board, <<"Chips", from(p)>>}}, key |-> "id",
                                     otherwise |-> "nothing"]]
  <2>1. EpicChips = chips ++ PartsOf({"working_chips"},
                                     {{board, <<"Chips", "hashrate">>}, {board}}, "id")
    BY DEF EpicChips
  <2> HIDE DEF from
  <2>2. Keyed(chips)
    BY DEF Keyed, BoardKeys
  <2> HIDE DEF chips
  <2> QED
    BY <1>2, <2>1, <2>2, JoinedRowsFind
<1>7. Keyed(WithParts(EpicBoards, EpicChips).parts)
  BY <1>0, <1>1, <1>2, <1>6, JoinedRowsFind DEF EpicBoards
<1>8. Keyed(WithParts(MarathonBoards, MarathonChips).parts)
  BY <1>0, <1>1, <1>2, JoinedRowsFind DEF MarathonBoards, MarathonChips
<1>9. Keyed(AuradineChips)
  BY <1>2, JoinedRowsFind DEF AuradineChips
<1>10. Keyed(WithParts(AuradineBoards, AuradineChips).parts)
  BY <1>0, <1>1, <1>2, <1>9, JoinedRowsFind DEF AuradineBoards
<1> QED
  BY <1>3, <1>4, <1>5, <1>7, <1>8, <1>10

LEMMA RowsFind ==
  /\ InOrderOfLists(WhatsMinerV1Boards.parts) /\ ByTheirName(AntMinerV2020Boards.parts)
  /\ InOrderOfLists(BraiinsV2109Boards.parts) /\ InOrderOfLists(BraiinsV2503Boards.parts)
  /\ ByTheirName(BraiinsV2507Boards.parts)
  /\ ByTheirName(BitaxeV2Boards.parts) /\ ByTheirName(BitaxeV29Boards.parts)
  /\ ByTheirName(NerdAxeBoards.parts) /\ ByTheirName(VnishBoards.parts)
  /\ ByTheirName(ProtoBoards.parts) /\ ByTheirName(SealMinerBoards.parts)
<1>0. \A slots, parts : Rows(slots, parts).parts = parts
  BY DEF Rows
<1>1. InOrderOfLists(WhatsMinerV1Boards.parts)
  BY <1>0, FoundByKey DEF WhatsMinerV1Boards
<1>2. ByTheirName(AntMinerV2020Boards.parts)
  BY <1>0, FoundByKey DEF AntMinerV2020Boards
<1>3. InOrderOfLists(BraiinsV2109Boards.parts)
  BY <1>0, FoundByKey DEF BraiinsV2109Boards
<1>4. InOrderOfLists(BraiinsV2503Boards.parts)
  BY <1>0, <1>3, FoundByKey, JoinedRowsFind DEF BraiinsV2503Boards
<1>5. ByTheirName(BraiinsV2507Boards.parts)
  BY <1>0, FoundByKey DEF BraiinsV2507Boards
<1>6. ByTheirName(BitaxeV2Boards.parts)
  BY <1>0, FoundByKey, JoinedRowsFind DEF BitaxeV2Boards
<1>7. ByTheirName(BitaxeV29Boards.parts)
  BY <1>0, FoundByKey, JoinedRowsFind DEF BitaxeV29Boards
<1>8. ByTheirName(NerdAxeBoards.parts)
  BY <1>0, <1>6, FoundByKey, JoinedRowsFind DEF NerdAxeBoards
<1>9. ByTheirName(VnishBoards.parts)
  <2>1. \A names, alternatives : ByTheirName(PartsOf(names, alternatives, "id"))
    BY FoundByKey
  <2> QED
    BY <1>0, <2>1, JoinedRowsFind DEF VnishBoards
<1>10. ByTheirName(ProtoBoards.parts)
  BY <1>0, FoundByKey, JoinedRowsFind DEF ProtoBoards
<1>11. ByTheirName(SealMinerBoards.parts)
  BY <1>0, FoundByKey DEF SealMinerBoards
<1> QED
  BY <1>1, <1>2, <1>3, <1>4, <1>5, <1>6, <1>7, <1>8, <1>9, <1>10, <1>11

(* The rows of all backends but those of MixesBoards find a board by its   *)
(* number in the name or entry, or all by the place in the lists.          *)
LEMMA RowsAreSound == \A b \in Backends : FindsBoards(b)
<1>1. ASSUME NEW b \in WhatsMiner \union AntMiner PROVE FindsBoards(b)
  BY RowsFind, KeyedRows, BoardsAre
     DEF WhatsMiner, AntMiner, MixesBoards, WhatsMinerV2Boards, AntMinerV2023Boards
<1>2. ASSUME NEW b \in BraiinsBOSminer \union BraiinsWeb PROVE FindsBoards(b)
  BY RowsFind, BoardsAre
     DEF BraiinsBOSminer, BraiinsWeb, BraiinsV2505Boards, BraiinsV2604Boards, MixesBoards
<1>3. ASSUME NEW b \in Axe \union Avalon PROVE FindsBoards(b)
  BY RowsFind, KeyedRows, BoardsAre DEF Axe, Avalon, MixesBoards
<1>4. ASSUME NEW b \in ThirdParty PROVE FindsBoards(b)
  BY RowsFind, KeyedRows, BoardsAre DEF ThirdParty, MixesBoards
<1>5. ASSUME NEW b \in Vendors PROVE FindsBoards(b)
  BY RowsFind, KeyedRows, BoardsAre DEF Vendors, MixesBoards
<1> QED
  BY <1>1, <1>2, <1>3, <1>4, <1>5 DEF Backends

(* The rows are boards for every backend, for those of MixesBoards as far  *)
(* as all boards before are there and on.                                  *)
COROLLARY BackendsRowsAreBoards ==
  ASSUME Table \subseteq Backends
  PROVE  Spec => []RowsAreBoards
BY RowsAreSound, RowsAlwaysBoards

-----------------------------------------------------------------------------
(* How the tables of the backends pause and resume.                        *)
ReturnsBy(sleeps, f) ==
  \A op \in {"pause", "resume"} \intersect DOMAIN f : \A x \in Meant(sleeps, op) :
    PauseSteps(f[op], x) /\ (op = "resume" => ResumeSteps(f[op], x))

LEMMA SleepsAsFit ==
  ASSUME NEW b, NEW sleeps \in BOOLEAN, AllFit(b.name, sleeps, Operations(b)),
         sleeps => "pause" \in DOMAIN Operations(b)
  PROVE  SleepsInMode(b) = sleeps
BY DEF SleepsInMode, AllFit, Fits

LEMMA ReturnsFit ==
  ASSUME NEW b, NEW sleeps \in BOOLEAN, AllFit(b.name, sleeps, Operations(b)),
         sleeps => "pause" \in DOMAIN Operations(b),
         IF b.name \in ForgetsItsMode THEN sleeps ELSE ReturnsBy(sleeps, Operations(b))
  PROVE  PausesWell(b)
<1>1. SleepsInMode(b) = sleeps
  BY SleepsAsFit
<1>2. \A op : Means(b, op) = Meant(sleeps, op)
  BY <1>1 DEF Means
<1> QED
  BY <1>1, <1>2 DEF PausesWell, ReturnsToMode, ReturnsBy

LEMMA JoinedReturn ==
  ASSUME NEW sleeps, NEW f, NEW g, ReturnsBy(sleeps, f), ReturnsBy(sleeps, g)
  PROVE  ReturnsBy(sleeps, f ++ g)
BY DEF ReturnsBy, ++

LEMMA NothingReturns ==
  ASSUME NEW sleeps, NEW f, {"pause", "resume"} \intersect DOMAIN f = {}
  PROVE  ReturnsBy(sleeps, f)
BY DEF ReturnsBy

LEMMA OthersReturn ==
  ASSUME NEW ops, {"pause", "resume"} \intersect ops = {}, NEW cells, NEW fail
  PROVE  ReturnsBy(FALSE, Each(ops, cells, fail))
<1>1. DOMAIN Each(ops, cells, fail) = ops
  BY DEF Each
<1> QED
  BY <1>1, NothingReturns

LEMMA OneSendReturns ==
  ASSUME NEW ops, NEW fail
  PROVE  ReturnsBy(FALSE, Each(ops, {"running"}, fail))
<1> DEFINE s == Send({"running"}, fail)
<1>1. s.does = "write" /\ s.cells = {"running"} /\ s.then = "next"
  BY DEF Send, Step
<1> HIDE DEF s
<1>2. DOMAIN <<s>> = {1} /\ <<s>>[1] = s
  OBVIOUS
<1>3. PauseSteps(<<s>>, "running") /\ ResumeSteps(<<s>>, "running")
  BY <1>1, <1>2 DEF PauseSteps, ResumeSteps, Changes
<1>4. \A op \in {"pause", "resume"} : Meant(FALSE, op) = {"running"}
  BY DEF Meant
<1>5. \A op \in ops : Each(ops, {"running"}, fail)[op] = <<s>>
  BY DEF Each, s
<1>6. DOMAIN Each(ops, {"running"}, fail) = ops
  BY DEF Each
<1> QED
  BY <1>3, <1>4, <1>5, <1>6 DEF ReturnsBy

(* SealMiner looks whether it is mining first. *)
LEMMA SealMinerReturns == ReturnsBy(FALSE, SealMinerControl ++ SealMinerSetPools)
<1> DEFINE q == <<Read({"running"}, Ignored), DoneIf("running"), Send({"running"}, IsOk)>>
           d == [o \in {"set_power_limit", "tune_power"} |->
                  <<Send({"target"}, IsOk), SealMinerReboot>>]
           r == [resume |-> q]
<1>1. /\ DOMAIN q = {1, 2, 3} /\ q[1] = Read({"running"}, Ignored)
      /\ q[2] = DoneIf("running") /\ q[3] = Send({"running"}, IsOk)
  OBVIOUS
<1>2. SealMinerControl = Each({"light_on", "light_off"}, {"light"}, IsOk) ++ d
                           ++ Each({"restart"}, {"boots"}, IsOk)
                           ++ Each({"pause"}, {"running"}, IsOk) ++ r
  BY DEF SealMinerControl
<1>3. DOMAIN d = {"set_power_limit", "tune_power"} /\ DOMAIN SealMinerSetPools = {"set_pools"}
  BY DEF SealMinerSetPools
<1> HIDE DEF q, d
<1>4. /\ q[1].does = "read" /\ q[1].cells = {"running"} /\ q[1].then = "next"
      /\ q[2].does = "done_if" /\ q[2].cells = {"running"} /\ q[2].then = "next"
      /\ q[3].does = "write" /\ q[3].cells = {"running"} /\ q[3].then = "next"
  BY <1>1 DEF Read, DoneIf, Send, Step
<1>5. Looked(q, 2, "running")
  BY <1>4 DEF Looked
<1>6. PauseSteps(q, "running") /\ ResumeSteps(q, "running")
  BY <1>1, <1>4, <1>5 DEF PauseSteps, ResumeSteps, Changes
<1>7. DOMAIN r = {"resume"} /\ r["resume"] = q /\ Meant(FALSE, "resume") = {"running"}
  BY DEF Meant
<1> HIDE DEF r
<1>8. ReturnsBy(FALSE, r)
  BY <1>6, <1>7 DEF ReturnsBy
<1> QED
  BY <1>2, <1>3, <1>8, OthersReturn, OneSendReturns, NothingReturns, JoinedReturn

(* Marathon finds the mode in its history. *)
LEMMA MarathonReturns == ReturnsBy(TRUE, MarathonSetPools ++ MarathonPause)
<1> DEFINE s1 == Read({"mode"}, Must)
           s2 == DoneIf("mode")
           s4 == Read(MarathonConf, Must)
           s5 == Rewrite({"mode"}, MarathonConf \ {"mode"}, Must)
<1>1. /\ "mode" \in Cells /\ "pools" \in Cells /\ "history" \in Cells /\ "error" \in Failures
      /\ MarathonConf \in SUBSET Cells
  BY DEF Cells, Settings, Facts, Failures, MarathonConf
<1>2. /\ StepFields(s1, "read", {"mode"}, {}, Must, "next")
      /\ StepFields(s2, "done_if", {"mode"}, {}, Must, "next")
      /\ StepFields(s4, "read", MarathonConf, {}, Must, "next")
      /\ StepFields(s5, "write", {"mode"}, MarathonConf \ {"mode"}, Must, "next")
      /\ StepFields(Read({"history"}, Must), "read", {"history"}, {}, Must, "next")
  BY <1>1, FailuresTyped, StepIs DEF Read, DoneIf, Rewrite
<1>3. StepFields(Needs("mode", "error"), "needs", {"mode"}, {},
                 [Must EXCEPT !.refused = "error"], "next")
  BY <1>1, NeedsIs
<1> HIDE DEF s1, s2, s4, s5
<1>4. ASSUME NEW s3 \in Requests, s3.does \in {"needs", "read"}, s3.then = "next"
      PROVE  /\ PauseSteps(<<s1, s2, s3>> \o <<s4, s5>>, "mode")
             /\ s3.does = "read" /\ s3.cells = {"history"} =>
                  ResumeSteps(<<s1, s2, s3>> \o <<s4, s5>>, "mode")
  <2> DEFINE q == <<s1, s2, s3, s4, s5>>
  <2>1. <<s1, s2, s3>> \o <<s4, s5>> = q
    BY <1>2, <1>4, ThreeAndTwo DEF StepFields
  <2>2. /\ DOMAIN q = {1, 2, 3, 4, 5}
        /\ q[1] = s1 /\ q[2] = s2 /\ q[3] = s3 /\ q[4] = s4 /\ q[5] = s5
    BY <1>2, <1>4, FiveSteps DEF StepFields
  <2> HIDE DEF q
  <2>3. /\ \A n \in {1, 2, 3, 4} : ~Changes(q[n])
        /\ Changes(q[5]) /\ q[5].does = "write" /\ q[5].cells = {"mode"}
    BY <1>2, <1>4, <2>2 DEF StepFields, Changes
  <2>4. PauseSteps(q, "mode")
    BY <2>2, <2>3 DEF PauseSteps
  <2>5. ASSUME s3.does = "read", s3.cells = {"history"}
        PROVE  ResumeSteps(q, "mode")
    <3>1. /\ \A n \in {1, 2, 3, 4, 5} : q[n].then = "next" /\ q[n].does # "verify"
          /\ \A n \in {1, 3, 4, 5} : q[n].does # "done_if"
          /\ q[2].does = "done_if" /\ q[2].cells = {"mode"}
      BY <1>2, <1>4, <2>2, <2>5 DEF StepFields
    <3>2. Looked(q, 2, "mode")
      BY <1>2, <2>2 DEF StepFields, Looked
    <3>3. LooksBack(q, 5)
      <4>1. \A m \in 1..(5 - 1) : ~Changes(q[m])
        BY <2>3
      <4>2. q[3].does = "read" /\ "history" \in q[3].cells
        BY <2>2, <2>5
      <4> QED
        BY <3>1, <4>1, <4>2 DEF LooksBack
    <3> QED
      BY <2>2, <2>3, <3>1, <3>2, <3>3 DEF ResumeSteps
  <2> QED
    BY <2>1, <2>4, <2>5
<1>5. PauseSteps(<<s1, s2, Needs("mode", "error")>> \o <<s4, s5>>, "mode")
  BY <1>3, <1>4 DEF StepFields
<1>6. /\ PauseSteps(<<s1, s2, Read({"history"}, Must)>> \o <<s4, s5>>, "mode")
      /\ ResumeSteps(<<s1, s2, Read({"history"}, Must)>> \o <<s4, s5>>, "mode")
  BY <1>2, <1>4 DEF StepFields
<1>7. /\ DOMAIN MarathonPause = {"pause", "resume"}
      /\ MarathonPause["pause"] = <<s1, s2, Needs("mode", "error")>> \o <<s4, s5>>
      /\ MarathonPause["resume"] = <<s1, s2, Read({"history"}, Must)>> \o <<s4, s5>>
  BY DEF MarathonPause, MarathonSetConf, s1, s2, s4, s5
<1>8. \A op \in {"pause", "resume"} : Meant(TRUE, op) = {"mode"}
  BY DEF Meant
<1>9. ReturnsBy(TRUE, MarathonPause)
  BY <1>5, <1>6, <1>7, <1>8 DEF ReturnsBy
<1>10. DOMAIN MarathonSetPools = {"set_pools"}
  BY DEF MarathonSetPools
<1> QED
  BY <1>9, <1>10, NothingReturns, JoinedReturn

LEMMA OneSendTables ==
  /\ ReturnsBy(FALSE, WhatsMinerV2Control ++ WhatsMinerV2Tuning)
  /\ ReturnsBy(FALSE, WhatsMinerV3Control ++ WhatsMinerV3Tuning)
  /\ ReturnsBy(FALSE, BraiinsV2109Control ++ BraiinsV2109Pooling)
  /\ ReturnsBy(FALSE, BraiinsV2507Control) /\ ReturnsBy(FALSE, BraiinsV2604Control)
  /\ ReturnsBy(FALSE, LuxMinerControl)
  /\ ReturnsBy(FALSE, VnishLight ++ VnishPower ++ VnishControl)
  /\ ReturnsBy(FALSE, EpicControl)
  /\ ReturnsBy(FALSE, AuradineControl)
  /\ ReturnsBy(FALSE, ProtoControl ++ ProtoConfiguration)
  /\ ReturnsBy(FALSE, << >>)
<1>1. ReturnsBy(FALSE, WhatsMinerV2Control ++ WhatsMinerV2Tuning)
  <2>1. {"pause", "resume"} \intersect DOMAIN WhatsMinerV2Tuning = {}
    BY DEF WhatsMinerV2Tuning
  <2> QED
    BY <2>1, OthersReturn, OneSendReturns, NothingReturns, JoinedReturn DEF WhatsMinerV2Control
<1>2. ReturnsBy(FALSE, WhatsMinerV3Control ++ WhatsMinerV3Tuning)
  <2>1. {"pause", "resume"} \intersect DOMAIN WhatsMinerV3Tuning = {}
    BY DEF WhatsMinerV3Tuning
  <2> QED
    BY <2>1, OthersReturn, OneSendReturns, NothingReturns, JoinedReturn DEF WhatsMinerV3Control
<1>3. ReturnsBy(FALSE, BraiinsV2109Control ++ BraiinsV2109Pooling)
  <2>1. {"pause", "resume"} \intersect DOMAIN BraiinsV2109Pooling = {}
    BY DEF BraiinsV2109Pooling
  <2> QED
    BY <2>1, OthersReturn, OneSendReturns, NothingReturns, JoinedReturn DEF BraiinsV2109Control
<1>4. ReturnsBy(FALSE, BraiinsV2507Control)
  BY OthersReturn, OneSendReturns, JoinedReturn DEF BraiinsV2507Control
<1>5. ReturnsBy(FALSE, BraiinsV2604Control)
  BY <1>4, OthersReturn, JoinedReturn DEF BraiinsV2604Control
<1>6. \A q : ReturnsBy(FALSE, [set_pools |-> q]) /\ ReturnsBy(FALSE, [light_off |-> q])
  <2>1. ASSUME NEW q
        PROVE  /\ {"pause", "resume"} \intersect DOMAIN [set_pools |-> q] = {}
               /\ {"pause", "resume"} \intersect DOMAIN [light_off |-> q] = {}
    OBVIOUS
  <2> QED
    BY <2>1, NothingReturns
<1>7. ReturnsBy(FALSE, LuxMinerControl)
  BY <1>6, OthersReturn, OneSendReturns, JoinedReturn DEF LuxMinerControl
<1>8. ReturnsBy(FALSE, VnishLight ++ VnishPower ++ VnishControl)
  <2>1. /\ {"pause", "resume"} \intersect DOMAIN VnishLight = {}
        /\ {"pause", "resume"} \intersect DOMAIN VnishPower = {}
    BY DEF VnishLight, VnishPower
  <2> QED
    BY <2>1, OthersReturn, OneSendReturns, NothingReturns, JoinedReturn DEF VnishControl
<1>9. ReturnsBy(FALSE, EpicControl)
  BY <1>6, OthersReturn, OneSendReturns, JoinedReturn DEF EpicControl
<1>10. ReturnsBy(FALSE, AuradineControl)
  BY OthersReturn, OneSendReturns, JoinedReturn DEF AuradineControl
<1>11. ReturnsBy(FALSE, ProtoControl ++ ProtoConfiguration)
  BY <1>6, OthersReturn, OneSendReturns, JoinedReturn DEF ProtoControl, ProtoConfiguration
<1>12. ReturnsBy(FALSE, << >>)
  <2>1. DOMAIN << >> = {}
    OBVIOUS
  <2> QED
    BY <2>1, NothingReturns
<1> QED
  BY <1>1, <1>2, <1>3, <1>4, <1>5, <1>7, <1>8, <1>9, <1>10, <1>11, <1>12

LEMMA AvalonReturns ==
  /\ ReturnsBy(FALSE, AvalonAPower ++ AvalonASettings)
  /\ ReturnsBy(FALSE, AvalonQPower ++ AvalonQSettings)
<1>1. ReturnsBy(FALSE, AvalonASettings)
  BY OthersReturn, JoinedReturn DEF AvalonASettings
<1>2. ReturnsBy(FALSE, AvalonAPower)
  BY OthersReturn, OneSendReturns, JoinedReturn DEF AvalonAPower
<1>3. ReturnsBy(FALSE, AvalonQPower)
  <2>1. {"pause", "resume"} \subseteq DOMAIN AvalonAPower
    BY DEF AvalonAPower, ++, Each
  <2> QED
    BY <1>2, <2>1 DEF ReturnsBy, AvalonQPower
<1> QED
  BY <1>1, <1>2, <1>3, JoinedReturn DEF AvalonQSettings

(* The backends find their way back from a pause, those that do not keep   *)
(* the mode sleep in it.                                                   *)
LEMMA PausesAreSound == \A b \in Backends : PausesWell(b)
<1>1. ASSUME NEW b, AllFit(b.name, FALSE, Operations(b)), ReturnsBy(FALSE, Operations(b)),
             b.name \notin ForgetsItsMode
      PROVE  PausesWell(b)
  BY <1>1, ReturnsFit
<1>2. ASSUME NEW b \in WhatsMiner PROVE PausesWell(b)
  BY <1>1, WhatsMinerV2Fits, WhatsMinerV3Fits, NothingFits, OneSendTables
     DEF WhatsMiner, Backend, Operations, WhatsMinerV1Control, ForgetsItsMode
<1>3. ASSUME NEW b \in AntMiner PROVE PausesWell(b)
  <2>1. \/ /\ b.name = "AntMinerV2020"
           /\ Operations(b) = AntMinerV2020Mining ++ AntMinerV2020Device ++ AntMinerV2020Fan
        \/ /\ b.name = "AntMinerV2023"
           /\ Operations(b) = AntMinerV2023Mining ++ AntMinerV2023Device ++ AntMinerV2023Fan
    BY DEF AntMiner, Backend, Operations
  <2>2. b.name \in ForgetsItsMode /\ AllFit(b.name, TRUE, Operations(b))
    BY <2>1, AntMinerV2020Fits, AntMinerV2023Fits DEF ForgetsItsMode
  <2>3. /\ "pause" \in DOMAIN (AntMinerV2020Mining ++ AntMinerV2020Device ++ AntMinerV2020Fan)
        /\ "pause" \in DOMAIN (AntMinerV2023Mining ++ AntMinerV2023Device ++ AntMinerV2023Fan)
    BY DEF ++, AntMinerV2020Mining, AntMinerV2023Mining
  <2> QED
    BY <2>1, <2>2, <2>3, ReturnsFit
<1>4. ASSUME NEW b \in BraiinsBOSminer \union BraiinsWeb PROVE PausesWell(b)
  BY <1>1, BraiinsFits, OneSendTables
     DEF BraiinsBOSminer, BraiinsWeb, Backend, Operations, BraiinsV2503Control, BraiinsV2503Pooling,
         BraiinsV2505Control, BraiinsV2505Pooling, ForgetsItsMode
<1>5. ASSUME NEW b \in Axe PROVE PausesWell(b)
  BY <1>1, NothingFits, OneSendTables DEF Axe, Backend, Operations, ForgetsItsMode
<1>6. ASSUME NEW b \in Avalon PROVE PausesWell(b)
  BY <1>1, AvalonFits, AvalonReturns DEF Avalon, Backend, Operations, ForgetsItsMode
<1>7. ASSUME NEW b \in ThirdParty PROVE PausesWell(b)
  <2>1. "pause" \in DOMAIN (MarathonSetPools ++ MarathonPause)
    BY DEF ++, MarathonPause
  <2>2. \/ b.name = "LuxMiner" /\ Operations(b) = LuxMinerControl
        \/ b.name = "Vnish" /\ Operations(b) = VnishLight ++ VnishPower ++ VnishControl
        \/ b.name = "Epic" /\ Operations(b) = EpicControl
        \/ b.name = "Marathon" /\ Operations(b) = MarathonSetPools ++ MarathonPause
    BY DEF ThirdParty, Backend, Operations
  <2>3. b.name \notin ForgetsItsMode
    BY <2>2 DEF ForgetsItsMode
  <2>4. CASE b.name = "Marathon"
    BY <2>1, <2>2, <2>3, <2>4, MarathonFits, MarathonReturns, ReturnsFit
  <2>5. CASE b.name # "Marathon"
    BY <1>1, <2>2, <2>3, <2>5, LuxMinerFits, VnishFits, EpicFits, OneSendTables
  <2> QED
    BY <2>4, <2>5
<1>8. ASSUME NEW b \in Vendors PROVE PausesWell(b)
  BY <1>1, AuradineFits, ProtoFits, SealMinerFits, OneSendTables, SealMinerReturns
     DEF Vendors, Backend, Operations, ForgetsItsMode
<1> QED
  BY <1>2, <1>3, <1>4, <1>5, <1>6, <1>7, <1>8 DEF Backends

(* A pause and a resume leave a miner of any backend as it was, but for    *)
(* the mode of those named in ForgetsItsMode.                              *)
COROLLARY BackendsKeepTuning ==
  ASSUME Table \subseteq Backends
  PROVE  Spec => []PauseResumeKeepsTuning
BY TablesAreSound, PausesAreSound, PauseAlwaysKeepsTuning DEF Sound

-----------------------------------------------------------------------------
(* How the tables of the backends find the tuning target.                  *)
TargetFound(located, modes, awake, f) ==
  "TuningTarget" \in DOMAIN f => FindsBy(located, modes, awake, f["TuningTarget"])

LEMMA JoinedFound ==
  ASSUME NEW located, NEW modes, NEW awake, NEW f, NEW g,
         TargetFound(located, modes, awake, f), TargetFound(located, modes, awake, g)
  PROVE  TargetFound(located, modes, awake, f ++ g)
BY DEF TargetFound, ++

(* Readers of other fields.                                                *)
LEMMA OthersFound ==
  ASSUME NEW located, NEW modes, NEW awake
  PROVE  /\ \A command, fields : "TuningTarget" \notin fields
              => /\ TargetFound(located, modes, awake, Plain(command, fields))
                 /\ TargetFound(located, modes, awake, Lists(command, fields))
         /\ \A f : "TuningTarget" \notin DOMAIN f => TargetFound(located, modes, awake, f)
BY DEF TargetFound, Plain, Lists

LEMMA OneReaderFound ==
  ASSUME NEW located, NEW modes, NEW awake, NEW r
  PROVE  /\ TargetFound(located, modes, awake, [IsMining |-> r])
         /\ TargetFound(located, modes, awake, [Pools |-> r])
         /\ TargetFound(located, modes, awake, [PoolsConfig |-> r])
         /\ TargetFound(located, modes, awake, [TuningConfig |-> r])
         /\ TargetFound(located, modes, awake, [ScaledTuningTarget |-> r])
         /\ TargetFound(located, modes, awake, [ExpectedHashrate |-> r])
         /\ TargetFound(located, modes, awake, [Hashrate |-> r])
         /\ TargetFound(located, modes, awake, [Wattage |-> r])
         /\ TargetFound(located, modes, awake, [FluidTemperature |-> r])
         /\ TargetFound(located, modes, awake, [LightFlashing |-> r])
         /\ TargetFound(located, modes, awake, [ApiVersion |-> r])
         /\ TargetFound(located, modes, awake, [FirmwareVersion |-> r])
         /\ TargetFound(located, modes, awake, [ControlBoardVersion |-> r])
         /\ FindsBy(located, modes, awake, r)
              => TargetFound(located, modes, awake, [TuningTarget |-> r])
BY DEF TargetFound

LEMMA OneTryFinds ==
  ASSUME NEW c, NEW located, <<"TuningTarget", c>> \in located, NEW modes, NEW awake, NEW when,
         when = "always" \/ (when = "mining" /\ awake),
         NEW says, says # "mode", says = "power" => ~modes, NEW o
  PROVE  FindsBy(located, modes, awake, Reader(<<When(when, {<<"TuningTarget", c>>}, says)>>, o))
<1> DEFINE s == <<"TuningTarget", c>>
           t == When(when, {s}, says)
           r == Reader(<<t>>, o)
<1>1. t.when = when /\ t.needs = {s} /\ t.says = says /\ s[1] = "TuningTarget"
  BY DEF When
<1>2. r.tries = <<t>>
  BY DEF Reader
<1> HIDE DEF s, t, r
<1>3. DOMAIN r.tries = {1} /\ r.tries[1] = t
  BY <1>2
<1>4. FindsBy(located, modes, awake, r)
  BY <1>1, <1>3 DEF FindsBy, s
<1> QED
  BY <1>4 DEF r, t, s

LEMMA GivenFinds ==
  ASSUME NEW c, NEW located, <<"TuningTarget", c>> \in located, NEW modes, NEW awake
  PROVE  /\ FindsBy(located, modes, awake, Given("TuningTarget", <<c>>))
         /\ \A fields : TargetFound(located, modes, awake, Plain(c, fields))
<1> DEFINE s == Says({<<"TuningTarget", c>>}, "given")
<1>1. [n \in DOMAIN <<c>> |-> Says({<<"TuningTarget", <<c>>[n]>>}, "given")] = <<s>>
  OBVIOUS
<1>2. FindsBy(located, modes, awake, Reader(<<s>>, "none"))
  BY OneTryFinds DEF Says
<1>3. FindsBy(located, modes, awake, Given("TuningTarget", <<c>>))
  BY <1>1, <1>2 DEF Given
<1> QED
  BY <1>3 DEF Plain, TargetFound

LEMMA PowerFinds ==
  ASSUME NEW c, NEW located, <<"TuningTarget", c>> \in located, NEW modes, ~modes, NEW awake, NEW o
  PROVE  FindsBy(located, modes, awake, Reader(<<Says({<<"TuningTarget", c>>}, "power")>>, o))
BY OneTryFinds DEF Says

(* The mode first, then the limit; what is tried after makes no difference.*)
LEMMA ModeFirstFinds ==
  ASSUME NEW c, NEW d, NEW located, <<"TuningTarget", c>> \in located,
         <<"TuningTarget", d>> \in located, NEW modes, NEW awake, NEW o
  PROVE  LET t1 == When("mode", {<<"TuningTarget", c>>}, "mode")
             t2 == Says({<<"TuningTarget", d>>}, "power")
         IN  /\ FindsBy(located, modes, awake, Reader(<<t1, t2>>, o))
             /\ \A x : FindsBy(located, modes, awake,
                               Reader(<<t1, t2>> \o <<Says({x}, "hashrate")>>, o))
<1> DEFINE s1 == <<"TuningTarget", c>>
           s2 == <<"TuningTarget", d>>
           t1 == When("mode", {s1}, "mode")
           t2 == Says({s2}, "power")
<1>1. /\ t1.when = "mode" /\ t1.needs = {s1} /\ t1.says = "mode"
      /\ t2.when = "always" /\ t2.needs = {s2} /\ t2.says = "power"
      /\ s1[1] = "TuningTarget" /\ s2[1] = "TuningTarget"
  BY DEF When, Says
<1>2. s1 \in located /\ s2 \in located
  OBVIOUS
<1>3. \A r : Reader(r, o).tries = r
  BY DEF Reader
<1> HIDE DEF s1, s2, t1, t2
<1>4. FindsBy(located, modes, awake, Reader(<<t1, t2>>, o))
  <2> DEFINE r == Reader(<<t1, t2>>, o)
  <2>1. r.tries = <<t1, t2>>
    BY <1>3
  <2> HIDE DEF r
  <2>2. DOMAIN r.tries = {1, 2} /\ r.tries[1] = t1 /\ r.tries[2] = t2
    BY <2>1
  <2>3. FindsBy(located, modes, awake, r)
    BY <1>1, <1>2, <2>2 DEF FindsBy
  <2> QED
    BY <2>3 DEF r
<1>5. ASSUME NEW x
      PROVE  FindsBy(located, modes, awake, Reader(<<t1, t2>> \o <<Says({x}, "hashrate")>>, o))
  <2> DEFINE t3 == Says({x}, "hashrate")
             r == Reader(<<t1, t2>> \o <<t3>>, o)
  <2>1. r.tries = <<t1, t2>> \o <<t3>>
    BY <1>3
  <2>2. t3.needs = {x} /\ t3.says = "hashrate"
    BY DEF Says, When
  <2> HIDE DEF r, t3
  <2>3. DOMAIN r.tries = {1, 2, 3} /\ r.tries[1] = t1 /\ r.tries[2] = t2 /\ r.tries[3] = t3
    BY <2>1
  <2>4. FindsBy(located, modes, awake, r)
    BY <1>1, <1>2, <2>2, <2>3 DEF FindsBy
  <2> QED
    BY <2>4 DEF r, t3
<1> QED
  BY <1>4, <1>5 DEF t1, t2, s1, s2

LEMMA TargetLocations ==
  /\ <<"TuningTarget", "summary">>
       \in WhatsMinerV2Locations \union WhatsMinerV2ConfigLocations
  /\ {<<"TuningTarget", "device_info">>, <<"TuningTarget", "status_summary">>}
       \subseteq WhatsMinerV3Locations \union WhatsMinerV3ConfigLocations
  /\ <<"TuningTarget", "get_miner_conf">>
       \in AntMinerV2020Locations \union AntMinerV2020ConfigLocations
  /\ <<"TuningTarget", "tuning">> \in BraiinsV2109Locations
  /\ <<"TuningTarget", "configuration">> \in BraiinsV2507Locations
  /\ <<"TuningTarget", "stats">> \in AvalonALocations
  /\ <<"TuningTarget", "stats">> \in AvalonQLocations
  /\ <<"TuningTarget", "summary">> \in EpicLocations \union EpicConfigLocations
  /\ <<"TuningTarget", "mode">> \in AuradineLocations \union AuradineConfigLocations
  /\ <<"TuningTarget", "mining">> \in ProtoLocations \union ProtoConfigLocations
  /\ <<"TuningTarget", "stats">> \in SealMinerLocations \union SealMinerConfigLocations
<1>1. <<"TuningTarget", "summary">> \in WhatsMinerV2Locations
  BY DEF WhatsMinerV2Locations, Locate
<1>2. {<<"TuningTarget", "device_info">>, <<"TuningTarget", "status_summary">>}
        \subseteq WhatsMinerV3Locations
  BY DEF WhatsMinerV3Locations, Locate
<1>3. <<"TuningTarget", "get_miner_conf">> \in AntMinerV2020Locations
  BY DEF AntMinerV2020Locations, Locate
<1>4. /\ <<"TuningTarget", "tuning">> \in BraiinsV2109Locations
      /\ <<"TuningTarget", "configuration">> \in BraiinsV2507Locations
  BY DEF BraiinsV2109Locations, BraiinsV2507Locations, Locate
<1>5. /\ <<"TuningTarget", "stats">> \in AvalonALocations
      /\ <<"TuningTarget", "stats">> \in AvalonQLocations
  BY DEF AvalonALocations, AvalonQLocations, Locate
<1>6. <<"TuningTarget", "summary">> \in EpicLocations
  BY DEF EpicLocations, Locate
<1>7. <<"TuningTarget", "mode">> \in AuradineLocations
  BY DEF AuradineLocations, Locate
<1>8. /\ <<"TuningTarget", "mining">> \in ProtoLocations
      /\ <<"TuningTarget", "stats">> \in SealMinerLocations
  BY DEF ProtoLocations, SealMinerLocations, Locate
<1> QED
  BY <1>1, <1>2, <1>3, <1>4, <1>5, <1>6, <1>7, <1>8

LEMMA WhatsMinerFinds ==
  ASSUME NEW modes, NEW awake
  PROVE  /\ TargetFound(WhatsMinerV2Locations \union WhatsMinerV2ConfigLocations, modes, awake,
                        WhatsMinerV2Identity ++ WhatsMinerV2Readings ++ WhatsMinerV2Pools
                          ++ WhatsMinerV2TuningConfig)
         /\ TargetFound(WhatsMinerV3Locations \union WhatsMinerV3ConfigLocations, modes, awake,
                        WhatsMinerV3Identity ++ WhatsMinerV3Readings ++ WhatsMinerV3Pools
                          ++ WhatsMinerV3TuningConfig)
<1> DEFINE l2 == WhatsMinerV2Locations \union WhatsMinerV2ConfigLocations
           l3 == WhatsMinerV3Locations \union WhatsMinerV3ConfigLocations
<1>1. FindsBy(l2, modes, awake, Reader(ModeOrPower(<<"TuningTarget", "summary">>), "none"))
  BY TargetLocations, ModeFirstFinds DEF ModeOrPower
<1>2. FindsBy(l3, modes, awake, Reader(WhatsMinerV3Target("TuningTarget"), "none"))
  BY TargetLocations, ModeFirstFinds DEF WhatsMinerV3Target
<1> HIDE DEF l2, l3
<1>3. TargetFound(l2, modes, awake, WhatsMinerV2Identity ++ WhatsMinerV2Readings
                                      ++ WhatsMinerV2Pools ++ WhatsMinerV2TuningConfig)
  BY <1>1, OneReaderFound, OthersFound, JoinedFound
     DEF WhatsMinerV2Identity, WhatsMinerV2Readings, WhatsMinerV2Pools, WhatsMinerV1Pools,
         WhatsMinerV2TuningConfig
<1>4. TargetFound(l3, modes, awake, WhatsMinerV3Identity ++ WhatsMinerV3Readings
                                      ++ WhatsMinerV3Pools ++ WhatsMinerV3TuningConfig)
  BY <1>2, OneReaderFound, OthersFound, JoinedFound
     DEF WhatsMinerV3Identity, WhatsMinerV3Readings, WhatsMinerV3Pools, WhatsMinerV3TuningConfig
<1> QED
  BY <1>3, <1>4 DEF l2, l3

(* An AntMiner tells its mode while it is mining. *)
LEMMA AntMinerFinds ==
  ASSUME NEW modes
  PROVE  TargetFound(AntMinerV2020Locations \union AntMinerV2020ConfigLocations, modes, TRUE,
                     AntMinerV2020Identity ++ AntMinerV2020Status ++ AntMinerV2020Readings
                       ++ AntMinerV2020Pools ++ AntMinerV2020PoolsConfig
                       ++ AntMinerV2020TuningConfig)
<1> DEFINE located == AntMinerV2020Locations \union AntMinerV2020ConfigLocations
           d == [o \in {"TuningTarget", "ScaledTuningTarget"} |->
                   Reader(<<AntMinerV2020Mode("TuningTarget")>>, "none")]
<1>1. FindsBy(located, modes, TRUE, Reader(<<AntMinerV2020Mode("TuningTarget")>>, "none"))
  BY TargetLocations, OneTryFinds DEF AntMinerV2020Mode
<1>2. TargetFound(located, modes, TRUE, d)
  BY <1>1 DEF TargetFound
<1>3. AntMinerV2020Readings =
        Plain("get_system_info", {"SerialNumber"})
        ++ Plain("miner_type", {"ControlBoardVersion"}) ++ Plain("stats", {"Wattage"})
        ++ d ++ [FluidTemperature |-> Never("none")] ++ Lists("summary", {"Messages"})
  BY DEF AntMinerV2020Readings
<1>4. \A r, s : "TuningTarget" \notin DOMAIN [TuningConfig |-> r, FanConfig |-> s]
  OBVIOUS
<1> HIDE DEF located, d
<1>5. TargetFound(located, modes, TRUE, AntMinerV2020Readings)
  BY <1>2, <1>3, OneReaderFound, OthersFound, JoinedFound
<1>6. TargetFound(located, modes, TRUE, AntMinerV2020TuningConfig)
  BY <1>4, OthersFound DEF AntMinerV2020TuningConfig
<1>7. /\ TargetFound(located, modes, TRUE, AntMinerV2020Identity)
      /\ TargetFound(located, modes, TRUE, AntMinerV2020Status)
      /\ TargetFound(located, modes, TRUE, AntMinerV2020Pools)
      /\ TargetFound(located, modes, TRUE, AntMinerV2020PoolsConfig)
  BY OneReaderFound, OthersFound, JoinedFound
     DEF AntMinerV2020Identity, AntMinerV2020Status, AntMinerV2020Pools, AntMinerV2020PoolsConfig
<1> QED
  BY <1>5, <1>6, <1>7, JoinedFound DEF located

LEMMA BraiinsFinds ==
  ASSUME NEW modes, NEW awake
  PROVE  /\ TargetFound(BraiinsV2109Locations, modes, awake,
                        BraiinsV2109Identity ++ BraiinsV2109Readings ++ BraiinsV2109Pools)
         /\ TargetFound(BraiinsV2507Locations, modes, awake,
                        BraiinsV2507Identity ++ BraiinsV2507Readings ++ BraiinsV2507Details
                          ++ BraiinsV2507Pools)
<1>1. /\ FindsBy(BraiinsV2109Locations, modes, awake, Given("TuningTarget", <<"tuning">>))
      /\ FindsBy(BraiinsV2507Locations, modes, awake, Given("TuningTarget", <<"configuration">>))
  BY TargetLocations, GivenFinds
<1>2. TargetFound(BraiinsV2109Locations, modes, awake,
                  BraiinsV2109Identity ++ BraiinsV2109Readings ++ BraiinsV2109Pools)
  BY <1>1, OneReaderFound, OthersFound, JoinedFound
     DEF BraiinsV2109Identity, BraiinsV2109Readings, BraiinsV2109Pools
<1>3. TargetFound(BraiinsV2507Locations, modes, awake,
                  BraiinsV2507Identity ++ BraiinsV2507Readings ++ BraiinsV2507Details
                    ++ BraiinsV2507Pools)
  BY <1>1, OneReaderFound, OthersFound, JoinedFound
     DEF BraiinsV2507Identity, BraiinsV2507Readings, BraiinsV2507Details, BraiinsV2507Pools
<1> QED
  BY <1>2, <1>3

LEMMA AvalonFinds ==
  ASSUME NEW modes, NEW awake
  PROVE  /\ TargetFound(AvalonALocations, modes, awake,
                        AvalonAIdentity ++ AvalonAHashrates ++ AvalonAReadings ++ AvalonAPools)
         /\ TargetFound(AvalonQLocations, modes, awake,
                        AvalonQIdentity ++ AvalonQHashrates ++ AvalonQReadings ++ AvalonQPools)
<1>1. \A located : <<"TuningTarget", "stats">> \in located =>
        /\ TargetFound(located, modes, awake, AvalonAReadings)
        /\ TargetFound(located, modes, awake, AvalonAHashrates)
        /\ TargetFound(located, modes, awake, AvalonAPools)
        /\ TargetFound(located, modes, awake, AvalonAIdentity)
        /\ TargetFound(located, modes, awake, AvalonQIdentity)
  BY GivenFinds, OneReaderFound, OthersFound, JoinedFound
     DEF AvalonAReadings, AvalonAHashrates, AvalonAPools, AvalonAIdentity, AvalonQIdentity
<1> QED
  BY <1>1, TargetLocations, JoinedFound DEF AvalonQHashrates, AvalonQReadings, AvalonQPools

LEMMA EpicFinds ==
  ASSUME NEW modes, NEW awake
  PROVE  TargetFound(EpicLocations \union EpicConfigLocations, modes, awake,
                     EpicIdentity ++ EpicHashrates ++ EpicTuning ++ EpicReadings ++ EpicPools
                       ++ EpicPoolsConfig ++ EpicTuningConfig)
<1> DEFINE located == EpicLocations \union EpicConfigLocations
<1>1. FindsBy(located, modes, awake, Given("TuningTarget", <<"summary">>))
  BY TargetLocations, GivenFinds
<1> HIDE DEF located
<1>2. TargetFound(located, modes, awake, EpicTuning)
  BY <1>1 DEF EpicTuning, TargetFound
<1>3. /\ TargetFound(located, modes, awake, EpicIdentity)
      /\ TargetFound(located, modes, awake, EpicHashrates)
      /\ TargetFound(located, modes, awake, EpicReadings)
      /\ TargetFound(located, modes, awake, EpicPools)
      /\ TargetFound(located, modes, awake, EpicPoolsConfig)
  BY OneReaderFound, OthersFound, JoinedFound
     DEF EpicIdentity, EpicHashrates, EpicReadings, EpicPools, EpicPoolsConfig
<1>4. TargetFound(located, modes, awake, EpicTuningConfig)
  BY DEF TargetFound, EpicTuningConfig
<1> QED
  BY <1>2, <1>3, <1>4, JoinedFound DEF located

LEMMA VendorsFind ==
  ASSUME NEW awake
  PROVE  /\ TargetFound(AuradineLocations \union AuradineConfigLocations, FALSE, awake,
                        AuradineIdentity ++ AuradineHashrates ++ AuradineReadings
                          ++ AuradineStatus ++ AuradinePools ++ AuradinePoolsConfig)
         /\ TargetFound(ProtoLocations \union ProtoConfigLocations, FALSE, awake,
                        ProtoIdentity ++ ProtoHashrates ++ ProtoReadings ++ ProtoPools
                          ++ ProtoSettings)
         /\ TargetFound(SealMinerLocations \union SealMinerConfigLocations, FALSE, awake,
                        SealMinerIdentity ++ SealMinerHashrates ++ SealMinerReadings
                          ++ SealMinerPools ++ SealMinerTuningConfig)
<1> DEFINE l1 == AuradineLocations \union AuradineConfigLocations
           l2 == ProtoLocations \union ProtoConfigLocations
           l3 == SealMinerLocations \union SealMinerConfigLocations
<1>1. FindsBy(l1, FALSE, awake,
              Reader(ModeOrPower(<<"TuningTarget", "mode">>)
                       \o <<Says({<<"TuningTarget", "summary">>}, "hashrate")>>, "none"))
  BY TargetLocations, ModeFirstFinds DEF ModeOrPower
<1>2. /\ FindsBy(l2, FALSE, awake,
                 Reader(<<Says({<<"TuningTarget", "mining">>}, "power")>>, "none"))
      /\ FindsBy(l3, FALSE, awake,
                 Reader(<<Says({<<"TuningTarget", "stats">>}, "power")>>, "none"))
  BY TargetLocations, PowerFinds
<1> HIDE DEF l1, l2, l3
<1>3. TargetFound(l1, FALSE, awake, AuradineIdentity ++ AuradineHashrates ++ AuradineReadings
                                      ++ AuradineStatus ++ AuradinePools ++ AuradinePoolsConfig)
  BY <1>1, OneReaderFound, OthersFound, JoinedFound
     DEF AuradineIdentity, AuradineHashrates, AuradineReadings, AuradineStatus, AuradinePools,
         AuradinePoolsConfig
<1>4. TargetFound(l2, FALSE, awake, ProtoSettings)
  <2>1. \A r, s, t : "TuningTarget" \notin DOMAIN [PoolsConfig |-> r, TuningConfig |-> s,
                                                  FanConfig |-> t]
    OBVIOUS
  <2> QED
    BY <2>1, OthersFound DEF ProtoSettings
<1>5. TargetFound(l2, FALSE, awake, ProtoIdentity ++ ProtoHashrates ++ ProtoReadings ++ ProtoPools
                                      ++ ProtoSettings)
  BY <1>2, <1>4, OneReaderFound, OthersFound, JoinedFound
     DEF ProtoIdentity, ProtoHashrates, ProtoReadings, ProtoPools
<1>6. TargetFound(l3, FALSE, awake, SealMinerIdentity)
  <2> DEFINE g == [f \in {"Mac", "FirmwareVersion", "ControlBoardVersion"} |->
                     Given(f, <<"get_system_info", "stats">>)]
  <2>1. "TuningTarget" \notin DOMAIN g
    OBVIOUS
  <2>2. SealMinerIdentity =
          Plain("stats", {"SerialNumber"}) ++ Plain("version", {"ApiVersion"}) ++ g
    BY DEF SealMinerIdentity
  <2> HIDE DEF g
  <2> QED
    BY <2>1, <2>2, OthersFound, JoinedFound
<1>7. TargetFound(l3, FALSE, awake, SealMinerIdentity ++ SealMinerHashrates ++ SealMinerReadings
                                      ++ SealMinerPools ++ SealMinerTuningConfig)
  BY <1>2, <1>6, OneReaderFound, OthersFound, JoinedFound
     DEF SealMinerHashrates, SealMinerReadings, SealMinerPools, SealMinerTuningConfig
<1> QED
  BY <1>3, <1>5, <1>7 DEF l1, l2, l3

-----------------------------------------------------------------------------
(* How the tables of the backends tune.                                    *)
SetsLimitOnly == {"WhatsMinerV2", "WhatsMinerV3"}

TunesBy(name, normal, f) ==
  \A op \in TuneOps \intersect DOMAIN f :
    /\ OnlyWrites(f[op]) /\ Reaches(f[op], Tuned(op))
    /\ \/ op = "tune_mode" \/ normal \/ Reaches(f[op], "mode")
       \/ /\ op = "set_power_limit" /\ name \in SetsLimitOnly
          /\ \A n \in DOMAIN f[op] : ~Writes(f[op][n], "mode")

LEMMA TunedAsFit ==
  ASSUME NEW b, TunesBy(b.name, KeepsNormal(b), Operations(b)),
         TargetFound(b.located, "tune_mode" \in DOMAIN Operations(b), TunesAwake(b), b.readers)
  PROVE  ReadsItBack(b)
BY DEF ReadsItBack, TunesAsFit, LeavesNoMode, TunesBy, SetsLimitOnly, TargetFound, FindsTarget

(* A backend that leaves the mode alone has no mode to tune either.        *)
LEMMA NormalTunes ==
  ASSUME NEW b, AvoidsMode(Operations(b)), TunesBy(b.name, TRUE, Operations(b)),
         \A awake : TargetFound(b.located, FALSE, awake, b.readers)
  PROVE  ReadsItBack(b)
<1>1. KeepsNormal(b)
  BY AvoidsIsNormal
<1>2. "tune_mode" \notin DOMAIN Operations(b)
  BY DEF AvoidsMode, NoMode, TunesBy, TuneOps, Reaches, Tuned, Writes
<1>3. TunesBy(b.name, KeepsNormal(b), Operations(b))
  BY <1>1 DEF TunesBy
<1>4. TargetFound(b.located, "tune_mode" \in DOMAIN Operations(b), TunesAwake(b), b.readers)
  <2>1. ("tune_mode" \in DOMAIN Operations(b)) = FALSE
    BY <1>2
  <2> QED
    BY <2>1
<1> QED
  BY <1>3, <1>4, TunedAsFit

LEMMA JoinedTune ==
  ASSUME NEW name, NEW normal, NEW f, NEW g, TunesBy(name, normal, f), TunesBy(name, normal, g)
  PROVE  TunesBy(name, normal, f ++ g)
BY DEF TunesBy, ++

LEMMA OthersTune ==
  ASSUME NEW name, NEW normal
  PROVE  /\ \A f : TuneOps \intersect DOMAIN f = {} => TunesBy(name, normal, f)
         /\ \A ops, cells, fail : TuneOps \intersect ops = {}
              => TunesBy(name, normal, Each(ops, cells, fail))
<1>1. \A f : TuneOps \intersect DOMAIN f = {} => TunesBy(name, normal, f)
  BY DEF TunesBy
<1>2. \A ops, cells, fail : DOMAIN Each(ops, cells, fail) = ops
  BY DEF Each
<1> QED
  BY <1>1, <1>2

LEMMA OneSendTunes ==
  ASSUME NEW x, NEW fail
  PROVE  LET q == <<Send({x}, fail)>>
         IN  /\ OnlyWrites(q) /\ Reaches(q, x)
             /\ \A y : y # x => \A n \in DOMAIN q : ~Writes(q[n], y)
<1> DEFINE s == Send({x}, fail)
           q == <<s>>
<1>1. s.does = "write" /\ s.cells = {x} /\ s.kept = {} /\ s.then = "next"
  BY DEF Send, Step
<1> HIDE DEF s
<1>2. DOMAIN q = {1} /\ q[1] = s
  OBVIOUS
<1> HIDE DEF q
<1>3. OnlyWrites(q) /\ \A y : y # x => \A n \in DOMAIN q : ~Writes(q[n], y)
  BY <1>1, <1>2 DEF OnlyWrites, Writes
<1>4. Reaches(q, x)
  BY <1>1, <1>2 DEF Reaches, Writes
<1> QED
  BY <1>3, <1>4 DEF q, s

LEMMA LimitTunes ==
  ASSUME NEW name, NEW normal, NEW ops, "tune_mode" \notin ops, NEW fail,
         normal \/ (ops = {"set_power_limit"} /\ name \in SetsLimitOnly)
  PROVE  TunesBy(name, normal, Each(ops, {"target"}, fail))
<1> DEFINE q == <<Send({"target"}, fail)>>
<1>1. OnlyWrites(q) /\ Reaches(q, "target") /\ \A n \in DOMAIN q : ~Writes(q[n], "mode")
  BY OneSendTunes
<1>2. DOMAIN Each(ops, {"target"}, fail) = ops
  BY DEF Each
<1>3. \A op \in ops : Each(ops, {"target"}, fail)[op] = q
  BY DEF Each
<1> HIDE DEF q
<1> QED
  BY <1>1, <1>2, <1>3 DEF TunesBy, Tuned

(* The requests that only look, before the one that writes.                *)
LEMMA LookThenWriteTunes ==
  ASSUME NEW s1, NEW s2, NEW s3, NEW x,
         s1.does \in {"read", "needs"}, s1.then = "next",
         s2.does \in {"read", "needs"}, s2.then = "next",
         s3.does = "write", s3.then = "next", s3.cells = {x},
         s3.kept \intersect {"mode", "target"} = {}
  PROVE  OnlyWrites(<<s1, s2, s3>>) /\ Reaches(<<s1, s2, s3>>, x)
<1> DEFINE q == <<s1, s2, s3>>
<1>1. DOMAIN q = {1, 2, 3} /\ q[1] = s1 /\ q[2] = s2 /\ q[3] = s3
  OBVIOUS
<1> HIDE DEF q
<1>2. OnlyWrites(q) /\ Reaches(q, x)
  BY <1>1 DEF OnlyWrites, Reaches, Writes, Changes
<1> QED
  BY <1>2 DEF q

LEMMA AntMinerTunes ==
  ASSUME NEW name, NEW normal
  PROVE  /\ TunesBy(name, normal, AntMinerV2020Mining ++ AntMinerV2020Device ++ AntMinerV2020Fan)
         /\ TunesBy(name, normal, AntMinerV2023Mining ++ AntMinerV2023Device ++ AntMinerV2023Fan)
<1> DEFINE u == <<Read({"model"}, Must), Send({"firmware"}, Must)>>
           q20 == <<Read(AntMinerV2020Conf, Must), Needs("mode", "error"),
                    AntMinerV2020SetConf("mode", Must)>>
           q23 == <<Read({"mode"}, Must), Needs("mode", "error"), Send({"mode"}, Must)>>
           d20 == [upgrade_firmware |-> u, tune_mode |-> q20]
           d23 == [upgrade_firmware |-> u, tune_mode |-> q23]
<1>1. /\ OnlyWrites(q20) /\ Reaches(q20, "mode")
      /\ OnlyWrites(q23) /\ Reaches(q23, "mode")
  <2> DEFINE s2 == Needs("mode", "error")
             w20 == AntMinerV2020SetConf("mode", Must)
             w23 == Send({"mode"}, Must)
  <2>1. \A cells : Read(cells, Must).does = "read" /\ Read(cells, Must).then = "next"
    BY DEF Read, Step
  <2>2. s2.does = "needs" /\ s2.then = "next"
    BY DEF Needs, Step
  <2>3. /\ w20.does = "write" /\ w20.then = "next" /\ w20.cells = {"mode"}
        /\ w20.kept \intersect {"mode", "target"} = {}
    BY DEF AntMinerV2020SetConf, AntMinerV2020Conf, Rewrite, Step
  <2>4. /\ w23.does = "write" /\ w23.then = "next" /\ w23.cells = {"mode"}
        /\ w23.kept \intersect {"mode", "target"} = {}
    BY DEF Send, Step
  <2> HIDE DEF s2, w20, w23
  <2>5. \A cells : /\ OnlyWrites(<<Read(cells, Must), s2, w20>>)
                   /\ Reaches(<<Read(cells, Must), s2, w20>>, "mode")
                   /\ OnlyWrites(<<Read(cells, Must), s2, w23>>)
                   /\ Reaches(<<Read(cells, Must), s2, w23>>, "mode")
    BY <2>1, <2>2, <2>3, <2>4, LookThenWriteTunes
  <2> QED
    BY <2>5 DEF s2, w20, w23
<1>2. /\ AntMinerV2020Device = Each({"factory_reset"}, {"reset"}, Must) ++ d20
      /\ AntMinerV2023Device = Each({"factory_reset"}, {"reset"}, Must) ++ d23
  BY DEF AntMinerV2020Device, AntMinerV2023Device
<1> HIDE DEF u, q20, q23
<1>3. /\ DOMAIN d20 = {"upgrade_firmware", "tune_mode"} /\ d20["tune_mode"] = q20
      /\ DOMAIN d23 = {"upgrade_firmware", "tune_mode"} /\ d23["tune_mode"] = q23
  OBVIOUS
<1> HIDE DEF d20, d23
<1>4. TunesBy(name, normal, d20) /\ TunesBy(name, normal, d23)
  BY <1>1, <1>3 DEF TunesBy, TuneOps, Tuned
<1>5. TuneOps \intersect {"factory_reset"} = {}
  BY DEF TuneOps
<1>6. TunesBy(name, normal, AntMinerV2020Device) /\ TunesBy(name, normal, AntMinerV2023Device)
  BY <1>2, <1>4, <1>5, OthersTune, JoinedTune
<1>7. /\ TuneOps \intersect DOMAIN AntMinerV2020Mining = {}
      /\ TuneOps \intersect DOMAIN AntMinerV2020Fan = {}
      /\ TuneOps \intersect DOMAIN AntMinerV2023Mining = {}
      /\ TuneOps \intersect DOMAIN AntMinerV2023Fan = {}
  BY DEF TuneOps, ++, Each, AntMinerV2020Mining, AntMinerV2020Fan, AntMinerV2023Mining,
         AntMinerV2023Fan
<1> QED
  BY <1>6, <1>7, OthersTune, JoinedTune

(* Asleep in a mode, an AntMiner is not paused in another way.             *)
NoRunning(s) == "running" \notin s.cells \union s.kept
NeverRuns(f) == \A op \in DOMAIN f : \A n \in DOMAIN f[op] : NoRunning(f[op][n])

LEMMA NeverRunsJoined ==
  /\ \A f, g : NeverRuns(f) /\ NeverRuns(g) => NeverRuns(f ++ g)
  /\ \A ops, x, fail : x # "running" => NeverRuns(Each(ops, {x}, fail))
<1>1. ASSUME NEW f, NEW g, NeverRuns(f), NeverRuns(g) PROVE NeverRuns(f ++ g)
  BY <1>1 DEF NeverRuns, ++
<1>2. ASSUME NEW ops, NEW x, NEW fail, x # "running" PROVE NeverRuns(Each(ops, {x}, fail))
  <2> DEFINE s == Send({x}, fail)
  <2>1. NoRunning(s)
    BY <1>2 DEF NoRunning, Send, Step
  <2>2. \A n \in DOMAIN <<s>> : <<s>>[n] = s
    OBVIOUS
  <2>3. \A op \in DOMAIN Each(ops, {x}, fail) : Each(ops, {x}, fail)[op] = <<s>>
    BY DEF Each
  <2> QED
    BY <2>1, <2>2, <2>3 DEF NeverRuns
<1> QED
  BY <1>1, <1>2

LEMMA AntMinerNeverRuns ==
  /\ NeverRuns(AntMinerV2020Mining ++ AntMinerV2020Device ++ AntMinerV2020Fan)
  /\ NeverRuns(AntMinerV2023Mining ++ AntMinerV2023Device ++ AntMinerV2023Fan)
<1> DEFINE Calm == {s \in Requests : NoRunning(s)}
           conf == Read(AntMinerV2020Conf, Must)
           mode == Read({"mode"}, Must)
           u == <<Read({"model"}, Must), Send({"firmware"}, Must)>>
           pools20 == <<conf, AntMinerV2020SetConf("pools", IsOk)>>
           fan20 == <<conf, AntMinerV2020SetConf("fan", Must)>>
           sleep20 == <<conf, Needs("mode", "false"), AntMinerV2020SetConf("mode", Must),
                        mode, Verify("mode")>>
           tune20 == <<conf, Needs("mode", "error"), AntMinerV2020SetConf("mode", Must)>>
           sleep23 == <<mode, Needs("mode", "false"), Send({"mode"}, IsOk)>>
           tune23 == <<mode, Needs("mode", "error"), Send({"mode"}, Must)>>
<1>1. /\ \A x \in {"mode", "pools", "fan", "model", "firmware"} : x \in Cells /\ x # "running"
      /\ AntMinerV2020Conf \subseteq Cells \ {"running"}
      /\ {"false", "error"} \subseteq Failures
      /\ Must \in FailPairs /\ IsOk \in FailPairs
  BY FailuresTyped DEF Cells, Settings, Facts, AntMinerV2020Conf, Failures
<1>2. \A cells \in SUBSET (Cells \ {"running"}) : \A kept \in SUBSET (Cells \ {"running"}) :
        cells \intersect kept = {} =>
          \A does \in {"write", "read", "verify"} : \A fail \in FailPairs :
            Step(does, cells, kept, fail, "next") \in Calm
  <2> SUFFICES ASSUME NEW cells \in SUBSET (Cells \ {"running"}),
                      NEW kept \in SUBSET (Cells \ {"running"}), cells \intersect kept = {},
                      NEW does \in {"write", "read", "verify"}, NEW fail \in FailPairs
               PROVE  Step(does, cells, kept, fail, "next") \in Calm
    OBVIOUS
  <2>1. StepFields(Step(does, cells, kept, fail, "next"), does, cells, kept, fail, "next")
    BY StepIs
  <2> QED
    BY <2>1 DEF StepFields, NoRunning
<1>3. /\ conf \in Calm /\ mode \in Calm /\ Read({"model"}, Must) \in Calm
      /\ Send({"firmware"}, Must) \in Calm /\ Send({"mode"}, Must) \in Calm
      /\ Send({"mode"}, IsOk) \in Calm /\ Verify("mode") \in Calm
  BY <1>1, <1>2 DEF Read, Send, Verify
<1>4. /\ AntMinerV2020SetConf("pools", IsOk) \in Calm
      /\ AntMinerV2020SetConf("fan", Must) \in Calm
      /\ AntMinerV2020SetConf("mode", Must) \in Calm
  BY <1>1, <1>2 DEF AntMinerV2020SetConf, Rewrite
<1>5. \A otherwise \in {"false", "error"} : Needs("mode", otherwise) \in Calm
  <2> SUFFICES ASSUME NEW otherwise \in {"false", "error"} PROVE Needs("mode", otherwise) \in Calm
    OBVIOUS
  <2>1. "mode" \in Cells /\ otherwise \in Failures
    BY <1>1
  <2>2. StepFields(Needs("mode", otherwise), "needs", {"mode"}, {},
                   [Must EXCEPT !.refused = otherwise], "next")
    BY <2>1, NeedsIs
  <2> QED
    BY <2>2 DEF StepFields, NoRunning
<1>6. \A q \in Seq(Calm) : \A n \in DOMAIN q : NoRunning(q[n])
  OBVIOUS
<1> HIDE DEF Calm, conf, mode
<1>7. {u, pools20, fan20, sleep20, tune20, sleep23, tune23} \subseteq Seq(Calm)
  BY <1>3, <1>4, <1>5
<1> HIDE DEF u, pools20, fan20, sleep20, tune20, sleep23, tune23
<1>8. /\ \A q \in Seq(Calm) : NeverRuns([set_pools |-> q])
      /\ \A q \in Seq(Calm) : NeverRuns([set_fan |-> q])
      /\ \A q \in Seq(Calm) : NeverRuns([o \in {"pause", "resume"} |-> q])
      /\ \A q \in Seq(Calm), r \in Seq(Calm) :
           NeverRuns([upgrade_firmware |-> q, tune_mode |-> r])
  BY <1>6 DEF NeverRuns
<1>9. /\ NeverRuns([set_pools |-> pools20])
      /\ NeverRuns([set_fan |-> fan20])
      /\ NeverRuns([o \in {"pause", "resume"} |-> sleep20])
      /\ NeverRuns([o \in {"pause", "resume"} |-> sleep23])
      /\ NeverRuns([upgrade_firmware |-> u, tune_mode |-> tune20])
      /\ NeverRuns([upgrade_firmware |-> u, tune_mode |-> tune23])
  BY <1>7, <1>8
<1>10. /\ NeverRuns(AntMinerV2020Mining) /\ NeverRuns(AntMinerV2020Device)
       /\ NeverRuns(AntMinerV2020Fan)
  BY <1>9, NeverRunsJoined
     DEF AntMinerV2020Mining, AntMinerV2020Device, AntMinerV2020Fan, conf, mode, u, pools20, fan20,
         sleep20, tune20
<1>11. /\ NeverRuns(AntMinerV2023Mining) /\ NeverRuns(AntMinerV2023Device)
       /\ NeverRuns(AntMinerV2023Fan)
  BY <1>9, NeverRunsJoined
     DEF AntMinerV2023Mining, AntMinerV2023Device, AntMinerV2023Fan, mode, u, sleep23, tune23
<1> QED
  BY <1>10, <1>11, NeverRunsJoined

LEMMA WhatsMinerTunes ==
  /\ TunesBy("WhatsMinerV2", FALSE, WhatsMinerV2Control ++ WhatsMinerV2Tuning)
  /\ TunesBy("WhatsMinerV3", FALSE, WhatsMinerV3Control ++ WhatsMinerV3Tuning)
<1> DEFINE t == Send({"target"}, Must)
           m1 == Send({"mode"}, MayNotAnswer)
           m2 == Send({"mode"}, Ignored)
           m3 == SendOr({"mode"}, Ignored)
<1>1. /\ t.does = "write" /\ t.cells = {"target"} /\ t.kept = {} /\ t.then = "next"
      /\ m1.does = "write" /\ m1.cells = {"mode"} /\ m1.kept = {} /\ m1.then = "next"
      /\ m2.does = "write" /\ m2.cells = {"mode"} /\ m2.kept = {} /\ m2.then = "next"
      /\ m3.does = "write" /\ m3.cells = {"mode"} /\ m3.kept = {} /\ m3.then = "true"
  BY DEF Send, SendOr, Step
<1>2. /\ WhatsMinerV2Tuning = [tune_mode |-> <<m1>>, tune_power |-> <<t, m2>>]
      /\ WhatsMinerV3Tuning = [tune_mode |-> <<m3, m1>>, tune_power |-> <<t, m3, m2>>]
  BY DEF WhatsMinerV2Tuning, WhatsMinerV3Tuning
<1> HIDE DEF t, m1, m2, m3
<1>3. OnlyWrites(<<m1>>) /\ Reaches(<<m1>>, "mode")
  BY OneSendTunes DEF m1
<1>4. OnlyWrites(<<m3, m1>>) /\ Reaches(<<m3, m1>>, "mode")
  <2> DEFINE q == <<m3, m1>>
  <2>1. DOMAIN q = {1, 2} /\ q[1] = m3 /\ q[2] = m1
    OBVIOUS
  <2> HIDE DEF q
  <2>2. OnlyWrites(q) /\ Reaches(q, "mode")
    BY <1>1, <2>1 DEF OnlyWrites, Reaches, Writes
  <2> QED
    BY <2>2 DEF q
<1>5. OnlyWrites(<<t, m2>>) /\ Reaches(<<t, m2>>, "target") /\ Reaches(<<t, m2>>, "mode")
  <2> DEFINE q == <<t, m2>>
  <2>1. DOMAIN q = {1, 2} /\ q[1] = t /\ q[2] = m2
    OBVIOUS
  <2> HIDE DEF q
  <2>2. OnlyWrites(q) /\ Reaches(q, "target") /\ Reaches(q, "mode")
    BY <1>1, <2>1 DEF OnlyWrites, Reaches, Writes
  <2> QED
    BY <2>2 DEF q
<1>6. /\ OnlyWrites(<<t, m3, m2>>) /\ Reaches(<<t, m3, m2>>, "target")
      /\ Reaches(<<t, m3, m2>>, "mode")
  <2> DEFINE q == <<t, m3, m2>>
  <2>1. DOMAIN q = {1, 2, 3} /\ q[1] = t /\ q[2] = m3 /\ q[3] = m2
    OBVIOUS
  <2> HIDE DEF q
  <2>2. OnlyWrites(q)
    BY <1>1, <2>1 DEF OnlyWrites
  <2>3. Reaches(q, "target") /\ Reaches(q, "mode")
    BY <1>1, <2>1 DEF Reaches, Writes
  <2> QED
    BY <2>2, <2>3 DEF q
<1>7. /\ TunesBy("WhatsMinerV2", FALSE, WhatsMinerV2Tuning)
      /\ TunesBy("WhatsMinerV3", FALSE, WhatsMinerV3Tuning)
  BY <1>2, <1>3, <1>4, <1>5, <1>6 DEF TunesBy, TuneOps, Tuned
<1>8. /\ TuneOps \intersect {"light_on", "light_off"} = {} /\ TuneOps \intersect {"set_pools"} = {}
      /\ TuneOps \intersect {"restart"} = {} /\ TuneOps \intersect {"pause"} = {}
      /\ TuneOps \intersect {"resume"} = {} /\ TuneOps \intersect {"pause", "resume"} = {}
      /\ {"WhatsMinerV2", "WhatsMinerV3"} \subseteq SetsLimitOnly
  BY DEF TuneOps, SetsLimitOnly
<1>9. TunesBy("WhatsMinerV2", FALSE, WhatsMinerV2Control)
  BY <1>8, LimitTunes, OthersTune, JoinedTune DEF WhatsMinerV2Control
<1>10. TunesBy("WhatsMinerV3", FALSE, WhatsMinerV3Control)
  BY <1>8, LimitTunes, OthersTune, JoinedTune DEF WhatsMinerV3Control
<1> QED
  BY <1>7, <1>9, <1>10, JoinedTune

LEMMA SealMinerTunes == TunesBy("SealMiner", TRUE, SealMinerControl ++ SealMinerSetPools)
<1> DEFINE t == Send({"target"}, IsOk)
           q == <<t, SealMinerReboot>>
           d == [o \in {"set_power_limit", "tune_power"} |-> q]
           r == [resume |-> <<Read({"running"}, Ignored), DoneIf("running"),
                              Send({"running"}, IsOk)>>]
<1>1. /\ t.does = "write" /\ t.cells = {"target"} /\ t.kept = {} /\ t.then = "next"
      /\ SealMinerReboot.does = "write" /\ SealMinerReboot.cells = {"boots"}
      /\ SealMinerReboot.kept = {} /\ SealMinerReboot.then = "next"
  BY DEF SealMinerReboot, Send, Step
<1>2. SealMinerControl = Each({"light_on", "light_off"}, {"light"}, IsOk) ++ d
                           ++ Each({"restart"}, {"boots"}, IsOk)
                           ++ Each({"pause"}, {"running"}, IsOk) ++ r
  BY DEF SealMinerControl
<1>3. /\ TuneOps \intersect DOMAIN r = {} /\ TuneOps \intersect DOMAIN SealMinerSetPools = {}
      /\ TuneOps \intersect {"light_on", "light_off"} = {}
      /\ TuneOps \intersect {"restart"} = {} /\ TuneOps \intersect {"pause"} = {}
  BY DEF TuneOps, SealMinerSetPools
<1> HIDE DEF t, r
<1>4. DOMAIN q = {1, 2} /\ q[1] = t /\ q[2] = SealMinerReboot
  OBVIOUS
<1> HIDE DEF q
<1>5. OnlyWrites(q) /\ Reaches(q, "target")
  BY <1>1, <1>4 DEF OnlyWrites, Reaches, Writes
<1>6. TunesBy("SealMiner", TRUE, d)
  BY <1>5 DEF TunesBy, Tuned
<1> HIDE DEF d
<1> QED
  BY <1>2, <1>3, <1>6, OthersTune, JoinedTune

(* One request sets the limit and no mode gets in its way.                 *)
LEMMA OneLimitTunes ==
  /\ TunesBy("AvalonA", TRUE, AvalonAPower ++ AvalonASettings)
  /\ TunesBy("AvalonQ", TRUE, AvalonQPower ++ AvalonQSettings)
  /\ \A name : TunesBy(name, TRUE, BraiinsV2109Control ++ BraiinsV2109Pooling)
  /\ \A name : TunesBy(name, TRUE, BraiinsV2507Control)
  /\ TunesBy("BraiinsV2604", TRUE, BraiinsV2604Control)
  /\ TunesBy("Epic", TRUE, EpicControl)
  /\ TunesBy("Auradine", TRUE, AuradineControl)
  /\ TunesBy("Proto", TRUE, ProtoControl ++ ProtoConfiguration)
<1>1. /\ TuneOps \intersect {"light_on", "light_off"} = {} /\ TuneOps \intersect {"light_on"} = {}
      /\ TuneOps \intersect {"restart"} = {} /\ TuneOps \intersect {"set_pools"} = {}
      /\ TuneOps \intersect {"pause", "resume"} = {} /\ TuneOps \intersect {"set_fan"} = {}
      /\ TuneOps \intersect {"factory_reset"} = {} /\ TuneOps \intersect {"upgrade_firmware"} = {}
      /\ TuneOps \intersect {"pause"} = {} /\ TuneOps \intersect {"resume"} = {}
      /\ "tune_mode" \notin {"set_power_limit", "tune_power"}
      /\ "tune_mode" \notin {"set_power_limit"} /\ "tune_mode" \notin {"tune_power"}
  BY DEF TuneOps
<1>2. ASSUME NEW name, NEW q
      PROVE  TunesBy(name, TRUE, [set_pools |-> q]) /\ TunesBy(name, TRUE, [light_off |-> q])
  <2>1. /\ TuneOps \intersect DOMAIN [set_pools |-> q] = {}
        /\ TuneOps \intersect DOMAIN [light_off |-> q] = {}
    BY DEF TuneOps
  <2> QED
    BY <2>1, OthersTune
<1>3. \A name : TunesBy(name, TRUE, AvalonAPower) /\ TunesBy(name, TRUE, AvalonASettings)
  BY <1>1, LimitTunes, OthersTune, JoinedTune DEF AvalonAPower, AvalonASettings
<1>4. TunesBy("AvalonQ", TRUE, AvalonQPower)
  <2>1. TuneOps \intersect DOMAIN AvalonQPower = {}
    BY DEF TuneOps, AvalonQPower
  <2> QED
    BY <2>1, OthersTune
<1>5. \A name : TunesBy(name, TRUE, BraiinsV2109Control ++ BraiinsV2109Pooling)
  BY <1>1, <1>2, LimitTunes, OthersTune, JoinedTune DEF BraiinsV2109Control, BraiinsV2109Pooling
<1>6. \A name : TunesBy(name, TRUE, BraiinsV2507Control)
  BY <1>1, LimitTunes, OthersTune, JoinedTune DEF BraiinsV2507Control
<1>7. TunesBy("BraiinsV2604", TRUE, BraiinsV2604Control)
  BY <1>1, <1>6, OthersTune, JoinedTune DEF BraiinsV2604Control
<1>8. TunesBy("Epic", TRUE, EpicControl)
  BY <1>1, <1>2, LimitTunes, OthersTune, JoinedTune DEF EpicControl
<1>9. TunesBy("Auradine", TRUE, AuradineControl)
  BY <1>1, LimitTunes, OthersTune, JoinedTune DEF AuradineControl
<1>10. TunesBy("Proto", TRUE, ProtoControl ++ ProtoConfiguration)
  BY <1>1, <1>2, LimitTunes, OthersTune, JoinedTune DEF ProtoControl, ProtoConfiguration
<1> QED
  BY <1>3, <1>4, <1>5, <1>6, <1>7, <1>8, <1>9, <1>10, JoinedTune DEF AvalonQSettings

(* No request of theirs is about the mode.                                 *)
LEMMA OneLimitAvoids ==
  /\ AvoidsMode(AvalonAPower ++ AvalonASettings) /\ AvoidsMode(AvalonQPower ++ AvalonQSettings)
  /\ AvoidsMode(BraiinsV2109Control ++ BraiinsV2109Pooling)
  /\ AvoidsMode(BraiinsV2507Control) /\ AvoidsMode(BraiinsV2604Control)
  /\ AvoidsMode(EpicControl) /\ AvoidsMode(AuradineControl)
<1>1. AvoidsMode(AvalonAPower) /\ AvoidsMode(AvalonASettings)
  BY EachAvoids, JoinedAvoid DEF AvalonAPower, AvalonASettings
<1>2. AvoidsMode(AvalonQPower)
  <2>1. {"pause", "resume"} \subseteq DOMAIN AvalonAPower
    BY DEF AvalonAPower, ++, Each
  <2> QED
    BY <1>1, <2>1 DEF AvoidsMode, AvalonQPower
<1>3. ASSUME NEW f, NEW g
      PROVE  AvoidsMode([set_pools |-> <<Send({"pools"}, f), Send({"active_pools"}, g)>>])
  <2> DEFINE q == <<Send({"pools"}, f), Send({"active_pools"}, g)>>
  <2>1. NoMode(Send({"pools"}, f)) /\ NoMode(Send({"active_pools"}, g))
    BY StepsAvoid
  <2>2. \A n \in DOMAIN q : NoMode(q[n])
    BY <2>1, SequencesAvoid
  <2> HIDE DEF q
  <2>3. AvoidsMode([set_pools |-> q])
    BY <2>2 DEF AvoidsMode
  <2> QED
    BY <2>3 DEF q
<1>4. AvoidsMode(BraiinsV2109Control ++ BraiinsV2109Pooling)
  BY <1>3, EachAvoids, JoinedAvoid DEF BraiinsV2109Control, BraiinsV2109Pooling
<1>5. AvoidsMode(BraiinsV2507Control)
  BY EachAvoids, JoinedAvoid DEF BraiinsV2507Control
<1>6. AvoidsMode(BraiinsV2604Control)
  BY <1>5, EachAvoids, JoinedAvoid DEF BraiinsV2604Control
<1>7. AvoidsMode(EpicControl)
  BY <1>3, EachAvoids, JoinedAvoid DEF EpicControl, EpicSetPools
<1>8. AvoidsMode(AuradineControl)
  BY EachAvoids, JoinedAvoid DEF AuradineControl
<1> QED
  BY <1>1, <1>2, <1>4, <1>5, <1>6, <1>7, <1>8, JoinedAvoid DEF AvalonQSettings

(* The others tune nothing or report no target. *)
LEMMA NothingToReadBack ==
  ASSUME NEW b, \/ TuneOps \intersect DOMAIN Operations(b) = {}
                \/ "TuningTarget" \notin DOMAIN b.readers
  PROVE  ReadsItBack(b)
BY DEF ReadsItBack

LEMMA NothingToTune ==
  /\ TuneOps \intersect DOMAIN << >> = {}
  /\ TuneOps \intersect DOMAIN LuxMinerControl = {}
  /\ TuneOps \intersect DOMAIN (MarathonSetPools ++ MarathonPause) = {}
  /\ "TuningTarget" \notin DOMAIN (VnishIdentity ++ VnishReadings ++ VnishPools)
<1>1. DOMAIN << >> = {}
  OBVIOUS
<1>2. TuneOps \intersect DOMAIN LuxMinerControl = {}
  BY DEF TuneOps, LuxMinerControl, ++, Each
<1>3. TuneOps \intersect DOMAIN (MarathonSetPools ++ MarathonPause) = {}
  BY DEF TuneOps, MarathonSetPools, MarathonPause, ++
<1>4. "TuningTarget" \notin DOMAIN (VnishIdentity ++ VnishReadings ++ VnishPools)
  BY DEF VnishIdentity, VnishReadings, VnishPools, ++, Plain
<1> QED
  BY <1>1, <1>2, <1>3, <1>4

(* Every backend that tunes and reports a target finds there what was set. *)
LEMMA TargetsAreSound == \A b \in Backends : ReadsItBack(b)
<1>1. ASSUME NEW b \in WhatsMiner PROVE ReadsItBack(b)
  <2>1. \/ Operations(b) = << >>
        \/ /\ b.name = "WhatsMinerV2" /\ Operations(b) = WhatsMinerV2Control ++ WhatsMinerV2Tuning
           /\ b.located = WhatsMinerV2Locations \union WhatsMinerV2ConfigLocations
           /\ b.readers = WhatsMinerV2Identity ++ WhatsMinerV2Readings ++ WhatsMinerV2Pools
                             ++ WhatsMinerV2TuningConfig
        \/ /\ b.name = "WhatsMinerV3" /\ Operations(b) = WhatsMinerV3Control ++ WhatsMinerV3Tuning
           /\ b.located = WhatsMinerV3Locations \union WhatsMinerV3ConfigLocations
           /\ b.readers = WhatsMinerV3Identity ++ WhatsMinerV3Readings ++ WhatsMinerV3Pools
                             ++ WhatsMinerV3TuningConfig
    BY DEF WhatsMiner, Backend, Operations, WhatsMinerV1Control
  <2>2. TunesBy(b.name, FALSE, Operations(b)) => TunesBy(b.name, KeepsNormal(b), Operations(b))
    BY DEF TunesBy
  <2> QED
    BY <2>1, <2>2, NothingToReadBack, NothingToTune, WhatsMinerTunes, WhatsMinerFinds, TunedAsFit
<1>2. ASSUME NEW b \in AntMiner PROVE ReadsItBack(b)
  <2>1. /\ \/ Operations(b) = AntMinerV2020Mining ++ AntMinerV2020Device ++ AntMinerV2020Fan
           \/ Operations(b) = AntMinerV2023Mining ++ AntMinerV2023Device ++ AntMinerV2023Fan
        /\ b.located = AntMinerV2020Locations \union AntMinerV2020ConfigLocations
        /\ b.readers = AntMinerV2020Identity ++ AntMinerV2020Status ++ AntMinerV2020Readings
                         ++ AntMinerV2020Pools ++ AntMinerV2020PoolsConfig
                         ++ AntMinerV2020TuningConfig
    BY DEF AntMiner, Backend, Operations, AntMinerV2023Locations, AntMinerV2023ConfigLocations,
           AntMinerV2023Identity, AntMinerV2023Status, AntMinerV2023Readings, AntMinerV2023Pools,
           AntMinerV2023PoolsConfig, AntMinerV2023TuningConfig
  <2>2. NeverRuns(Operations(b)) /\ TunesBy(b.name, KeepsNormal(b), Operations(b))
    BY <2>1, AntMinerNeverRuns, AntMinerTunes
  <2>3. TuneOps \intersect DOMAIN Operations(b) = {"tune_mode"}
    BY <2>1 DEF TuneOps, ++, Each, AntMinerV2020Mining, AntMinerV2020Device, AntMinerV2020Fan,
                AntMinerV2023Mining, AntMinerV2023Device, AntMinerV2023Fan
  <2>4. TunesAwake(b) = TRUE
    BY <2>2, <2>3 DEF TunesAwake, Used, NeverRuns, NoRunning
  <2> QED
    BY <2>1, <2>2, <2>4, AntMinerFinds, TunedAsFit
<1>3. ASSUME NEW b \in BraiinsBOSminer \union BraiinsWeb PROVE ReadsItBack(b)
  BY OneLimitTunes, OneLimitAvoids, BraiinsFinds, NormalTunes
     DEF BraiinsBOSminer, BraiinsWeb, Backend, Operations,
         BraiinsV2503Control, BraiinsV2503Pooling, BraiinsV2503Locations, BraiinsV2503Identity,
         BraiinsV2503Readings, BraiinsV2503Pools,
         BraiinsV2505Control, BraiinsV2505Pooling, BraiinsV2505Locations, BraiinsV2505Identity,
         BraiinsV2505Readings, BraiinsV2505Pools,
         BraiinsV2604Locations, BraiinsV2604Identity, BraiinsV2604Readings,
         BraiinsV2604Details, BraiinsV2604Pools
<1>4. ASSUME NEW b \in Axe PROVE ReadsItBack(b)
  BY NothingToReadBack, NothingToTune DEF Axe, Backend, Operations
<1>5. ASSUME NEW b \in Avalon PROVE ReadsItBack(b)
  BY OneLimitTunes, OneLimitAvoids, AvalonFinds, NormalTunes DEF Avalon, Backend, Operations
<1>6. ASSUME NEW b \in ThirdParty PROVE ReadsItBack(b)
  <2>1. \/ Operations(b) \in {LuxMinerControl, MarathonSetPools ++ MarathonPause}
        \/ b.readers = VnishIdentity ++ VnishReadings ++ VnishPools
        \/ /\ b.name = "Epic" /\ Operations(b) = EpicControl
           /\ b.located = EpicLocations \union EpicConfigLocations
           /\ b.readers = EpicIdentity ++ EpicHashrates ++ EpicTuning ++ EpicReadings ++ EpicPools
                            ++ EpicPoolsConfig ++ EpicTuningConfig
    BY DEF ThirdParty, Backend, Operations
  <2> QED
    BY <2>1, NothingToReadBack, NothingToTune, OneLimitTunes, OneLimitAvoids, EpicFinds, NormalTunes
<1>7. ASSUME NEW b \in Vendors PROVE ReadsItBack(b)
  BY OneLimitTunes, OneLimitAvoids, ProtoAvoids, SealMinerTunes, SealMinerAvoids, VendorsFind,
     NormalTunes
     DEF Vendors, Backend, Operations
<1> QED
  BY <1>1, <1>2, <1>3, <1>4, <1>5, <1>6, <1>7 DEF Backends

(* What a call has set get_tuning_target reports, for every backend that   *)
(* tunes and reports a target.                                             *)
COROLLARY BackendsReadBack ==
  ASSUME Table \subseteq Backends
  PROVE  Spec => []TargetReadsBack
BY TablesAreSound, TargetsAreSound, TargetAlwaysReadsBack DEF Sound
=============================================================================
