------------------------- MODULE MinerHandleProofs --------------------------
(***************************************************************************)
(* Theorems about MinerHandle for any number of awaitables, any number of  *)
(* password changes and both policies of the backends.                     *)
(***************************************************************************)
EXTENDS MinerHandle, TLAPS

(* The types, but for the queue, whose order only liveness needs. *)
StateOK ==
  /\ pc \in [Op -> States]
  /\ auth \in Password
  /\ original \in [Writer -> Password]
  /\ result \in [Writer -> {"none", "true", "not"}]
  /\ device \in Password
  /\ late \subseteq Writer \X Password
  /\ excused \in BOOLEAN
  /\ verifies \in BOOLEAN

(* Who changes the password holds the lock alone. *)
Exclusion ==
  /\ \A o \in Op : pc[o] \in {"asking", "probing"} => o \in Writer /\ Holding = {o}
  /\ \A w \in Writer : pc[w] # "reading"

(* A change under way: the handle has what it found, then what it has set. *)
Underway ==
  \A w \in Writer :
    /\ pc[w] = "asking" => original[w] = auth
    /\ pc[w] = "probing" => auth = w /\ (auth # device => excused \/ original[w] = device)

IInv ==
  /\ StateOK
  /\ Exclusion
  /\ Underway
  /\ KnowsThePassword

(* The steps of one writer that has the lock. *)
WriterStep(w) ==
  \/ Changed(w) \/ ChangedSilently(w) \/ Refused(w) \/ TimesOut(w)
  \/ ProbeAnswered(w) \/ ProbeFails(w)

LEMMA InitInv == Init => IInv
BY OpAssumption
   DEF Init, IInv, StateOK, Exclusion, Underway, KnowsThePassword, Op, Password, States

LEMMA StateStep == StateOK /\ Exclusion /\ [Next]_vars => StateOK'
<1> SUFFICES ASSUME StateOK, Exclusion, [Next]_vars PROVE StateOK'
  OBVIOUS
<1> USE OpAssumption DEF StateOK, Op, Password, States
<1>1. CASE UNCHANGED vars
  BY <1>1 DEF vars
<1>2. CASE Get \/ Got \/ SetAuth \/ LateChange
  BY <1>2 DEF Get, Got, SetAuth, LateChange
<1>3. ASSUME NEW o \in Op, Call(o) \/ Forget(o) \/ Enter(o) \/ ReadEnds(o)
      PROVE  StateOK'
  BY <1>3 DEF Call, Forget, Enter, ReadEnds
<1>4. ASSUME NEW o \in Op, Cancel(o)
      PROVE  StateOK'
  <2>1. late' \subseteq Writer \X Password
    BY <1>4 DEF Cancel, GivenUp, Exclusion
  <2> QED
    BY <1>4, <2>1 DEF Cancel
<1>5. ASSUME NEW w \in Writer, Changed(w) \/ ChangedSilently(w) \/ Refused(w) \/ TimesOut(w)
      PROVE  StateOK'
  <2>1. /\ auth' \in {auth, w} /\ device' \in {device, w}
        /\ pc' \in {[pc EXCEPT ![w] = "done"], [pc EXCEPT ![w] = "probing"]}
        /\ result' \in {result, [result EXCEPT ![w] = "true"], [result EXCEPT ![w] = "not"]}
        /\ late' \in {late, late \union {<<w, auth>>}}
    BY <1>5 DEF Changed, ChangedSilently, Refused, TimesOut, Take, Return
  <2>2. original' = original /\ verifies' = verifies /\ excused' \in BOOLEAN
    BY <1>5 DEF Changed, ChangedSilently, Refused, TimesOut
  <2> QED
    BY <2>1, <2>2
<1>6. ASSUME NEW w \in Writer, ProbeAnswered(w) \/ ProbeFails(w)
      PROVE  StateOK'
  BY <1>6 DEF ProbeAnswered, ProbeFails, Return
<1> QED
  BY <1>1, <1>2, <1>3, <1>4, <1>5, <1>6 DEF Next, Work

(* A writer comes in when nobody is inside, a reader when only readers are.*)
LEMMA ExclusionStep == StateOK /\ Exclusion /\ [Next]_vars => Exclusion'
<1> SUFFICES ASSUME StateOK, Exclusion, [Next]_vars PROVE Exclusion'
  OBVIOUS
<1> USE OpAssumption DEF StateOK, Op, Exclusion, Holding
<1>1. CASE UNCHANGED vars
  BY <1>1 DEF vars
<1>2. CASE Get \/ Got \/ SetAuth \/ LateChange
  BY <1>2 DEF Get, Got, SetAuth, LateChange
<1>3. ASSUME NEW o \in Op, NEW s \in {"queued", "unused", "done"}, pc' = [pc EXCEPT ![o] = s]
      PROVE  Exclusion'
  <2>1. Holding' = Holding \ {o}
    BY <1>3
  <2> QED
    BY <1>3, <2>1
<1>4. ASSUME NEW o \in Op, Call(o) \/ Forget(o) \/ Cancel(o) \/ ReadEnds(o)
      PROVE  Exclusion'
  BY <1>3, <1>4 DEF Call, Forget, Cancel, ReadEnds
<1>5. ASSUME NEW o \in Op, Enter(o)
      PROVE  Exclusion'
  <2>1. CASE o \in Writer
    <3>1. Holding = {} /\ pc' = [pc EXCEPT ![o] = "asking"]
      BY <1>5, <2>1 DEF Enter, Served
    <3> QED
      BY <2>1, <3>1
  <2>2. CASE o \notin Writer
    <3>1. pc' = [pc EXCEPT ![o] = "reading"] /\ \A p \in Op : pc[p] \notin {"asking", "probing"}
      BY <1>5, <2>2 DEF Enter, Served, MayRead
    <3> QED
      BY <2>2, <3>1
  <2> QED
    BY <2>1, <2>2
<1>6. ASSUME NEW w \in Writer, WriterStep(w)
      PROVE  Exclusion'
  <2>1. pc[w] \in {"asking", "probing"} /\ Holding = {w}
    BY <1>6 DEF WriterStep, Changed, ChangedSilently, Refused, TimesOut, ProbeAnswered, ProbeFails
  <2>2. pc' \in {[pc EXCEPT ![w] = "done"], [pc EXCEPT ![w] = "probing"]}
    BY <1>6 DEF WriterStep, Changed, ChangedSilently, Refused, TimesOut, ProbeAnswered, ProbeFails,
                Take, Return
  <2> QED
    BY <2>1, <2>2
<1> QED
  BY <1>1, <1>2, <1>4, <1>5, <1>6 DEF Next, Work, WriterStep

(* What one writer does, the others being outside. *)
LEMMA WriterAlone ==
  ASSUME StateOK, Exclusion, NEW w \in Writer, WriterStep(w)
  PROVE  /\ \A v \in Writer \ {w} : pc[v] \notin {"asking", "probing"} /\ pc'[v] = pc[v]
         /\ \A o \in Op : pc[o] # "reading" /\ pc'[o] # "reading"
         /\ original' = original /\ pc[w] \in {"asking", "probing"}
<1> USE OpAssumption DEF StateOK, Op
<1>1. pc[w] \in {"asking", "probing"} /\ Holding = {w}
  BY DEF Exclusion, WriterStep, Changed, ChangedSilently, Refused, TimesOut, ProbeAnswered,
         ProbeFails
<1>2. /\ pc' \in {[pc EXCEPT ![w] = "done"], [pc EXCEPT ![w] = "probing"]}
      /\ original' = original
  BY DEF WriterStep, Changed, ChangedSilently, Refused, TimesOut, ProbeAnswered, ProbeFails, Take,
         Return
<1> QED
  BY <1>1, <1>2 DEF Holding

LEMMA KnowledgeStep ==
  StateOK /\ Exclusion /\ Underway /\ KnowsThePassword /\ [Next]_vars
    => Underway' /\ KnowsThePassword'
<1> SUFFICES ASSUME StateOK, Exclusion, Underway, KnowsThePassword, [Next]_vars
             PROVE  Underway' /\ KnowsThePassword'
  OBVIOUS
<1> USE OpAssumption DEF StateOK, Op, Underway, KnowsThePassword
<1>1. CASE UNCHANGED vars
  BY <1>1 DEF vars
<1>2. CASE Get \/ Got
  BY <1>2 DEF Get, Got
<1>3. CASE SetAuth
  BY <1>3 DEF SetAuth, Alive
<1>4. CASE LateChange
  BY <1>4 DEF LateChange
<1>5. ASSUME NEW o \in Op, Call(o) \/ Forget(o) \/ Cancel(o) \/ ReadEnds(o)
      PROVE  Underway' /\ KnowsThePassword'
  BY <1>5 DEF Call, Forget, Cancel, ReadEnds
<1>6. ASSUME NEW o \in Op, Enter(o)
      PROVE  Underway' /\ KnowsThePassword'
  BY <1>6 DEF Enter
<1>7. ASSUME NEW w \in Writer, WriterStep(w)
      PROVE  Underway' /\ KnowsThePassword'
  <2>1. /\ \A v \in Writer \ {w} : pc[v] \notin {"asking", "probing"} /\ pc'[v] = pc[v]
        /\ original' = original
    BY <1>7, WriterAlone
  <2>2. CASE Changed(w) \/ ChangedSilently(w)
    BY <2>1, <2>2 DEF Changed, ChangedSilently, Take, Return
  <2>3. CASE Refused(w) \/ TimesOut(w)
    BY <2>1, <2>3 DEF Refused, TimesOut, Take, Return
  <2>4. CASE ProbeAnswered(w) \/ ProbeFails(w)
    BY <2>1, <2>4 DEF ProbeAnswered, ProbeFails, Return
  <2> QED
    BY <1>7, <2>2, <2>3, <2>4 DEF WriterStep
<1> QED
  BY <1>1, <1>2, <1>3, <1>4, <1>5, <1>6, <1>7 DEF Next, Work, WriterStep

LEMMA Invariance == Spec => []IInv
<1>1. IInv /\ [Next]_vars => IInv'
  BY StateStep, ExclusionStep, KnowledgeStep DEF IInv
<1> QED
  BY InitInv, <1>1, PTL DEF Spec

-----------------------------------------------------------------------------
(* The handle has the password of the device, unless an answer was lost, a *)
(* change was cancelled, or a request was executed after it was given up:  *)
(* the lock (miner.rs) lets no other call come between the request and     *)
(* what the backend makes of its answer.                                   *)
THEOREM PasswordKnown == Spec => []KnowsThePassword
<1>1. IInv => KnowsThePassword
  BY DEF IInv
<1> QED
  BY <1>1, Invariance, PTL

(* change_password that returns true has changed the password of the       *)
(* device, and the handle has it, for both policies.                       *)
THEOREM SuccessMeansChanged == Spec => SuccessIsReal
<1>1. ASSUME IInv, Next, NEW w \in Writer, result'[w] # result[w], result'[w] = "true"
      PROVE  device' = w /\ auth' = w
  <2> USE OpAssumption DEF StateOK, Op
  <2>1. StateOK
    BY <1>1 DEF IInv
  <2>2. PICK v \in Writer : WriterStep(v)
    BY <1>1 DEF Next, Work, WriterStep, Call, Forget, Cancel, Enter, ReadEnds, Get, Got, SetAuth,
                LateChange
  <2>3. v = w
    BY <1>1, <2>1, <2>2 DEF WriterStep, Changed, ChangedSilently, Refused, TimesOut, ProbeAnswered,
                            ProbeFails, Take, Return
  <2>4. Changed(w) \/ ProbeAnswered(w)
    BY <1>1, <2>1, <2>2, <2>3 DEF WriterStep, ChangedSilently, Refused, TimesOut, ProbeFails, Take,
                                  Return
  <2> QED
    BY <1>1, <2>1, <2>4 DEF IInv, Underway, Changed, ProbeAnswered, Take, Return
<1>2. IInv /\ [Next]_vars =>
        [\A w \in Writer : result'[w] # result[w] /\ result'[w] = "true" =>
           device' = w /\ auth' = w]_vars
  BY <1>1
<1> QED
  BY <1>2, Invariance, PTL DEF Spec, SuccessIsReal

(* While an awaitable reads the miner neither set_auth nor change_password *)
(* changes the credentials.                                                *)
THEOREM ReadersKeepTheirAuth == Spec => AuthStableForReaders
<1>1. ASSUME IInv, Next, auth' # auth, NEW o \in Reader
      PROVE  pc[o] # "reading" /\ pc'[o] # "reading"
  <2>1. StateOK /\ Exclusion /\ o \in Op
    BY <1>1 DEF IInv, Op
  <2>2. CASE SetAuth
    BY <2>1, <2>2 DEF SetAuth, Alive
  <2>3. CASE \E w \in Writer : WriterStep(w)
    BY <2>1, <2>3, WriterAlone
  <2> QED
    BY <1>1, <2>2, <2>3 DEF Next, Work, WriterStep, Call, Forget, Cancel, Enter, ReadEnds, Get, Got,
                            LateChange
<1>2. IInv /\ [Next]_vars =>
        [auth' # auth => \A o \in Reader : pc[o] # "reading" /\ pc'[o] # "reading"]_vars
  BY <1>1
<1> QED
  BY <1>2, Invariance, PTL DEF Spec, AuthStableForReaders
=============================================================================
