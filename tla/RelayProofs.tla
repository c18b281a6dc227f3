---------------------------- MODULE RelayProofs ----------------------------
(***************************************************************************)
(* Proofs about Relay, for every set of episodes, every max_deliver and    *)
(* every number of crashes.                                                *)
(***************************************************************************)
EXTENDS Relay, TLAPS

Busy == cur # None

\* What the handler knows of the episode at hand: this is its latest delivery, the
\* writes counted so far are in the store, a defect has not been passed, and the
\* message is not settled yet.
HandlerOK ==
  Busy => /\ num = delivered[cur] /\ num >= 1
          /\ unit <= Units[cur]
          /\ 1 .. unit \subseteq stored[cur]
          /\ Defect[cur] # None => unit <= DefectAt[cur]
          /\ js[cur] \in {"out", "ready", "exhausted"}

\* What each answer rests on before it is given.
AnswerOK ==
  /\ step = "ack" => Complete(cur) /\ Defect[cur] = None
  /\ step = "poison" => Defect[cur] # None
  /\ step = "transient" => raised \in Errors /\ ~IsPoison(raised)
  /\ step = "term" => Parked(cur) \/ cur \in escaped
  /\ step = "nak" => num < MaxDeliver \/ cur \in escaped

\* JetStream's side: a message waiting for delivery has a delivery left, one that ran
\* out has none.
StreamOK ==
  \A e \in Episodes :
    /\ js[e] = "absent" => delivered[e] = 0
    /\ js[e] = "ready" => delivered[e] < MaxDeliver
    /\ js[e] = "acked" => Complete(e) /\ Defect[e] = None
    /\ js[e] = "termed" => Parked(e) \/ e \in escaped
    /\ js[e] = "exhausted" => /\ e \in cut \/ e \in escaped
                              /\ ~(delivered[e] < MaxDeliver)

\* The dead letters: a poison one has a defect, an exhausted one had its last
\* delivery and is about to be rejected or settled already.
DlqOK ==
  \A m \in dlq :
    \/ m.reason = "poison" /\ Defect[m.ep] # None
    \/ /\ m.reason = "max_deliver_exhausted"
       /\ delivered[m.ep] = MaxDeliver
       /\ js[m.ep] # "acked"
       /\ cur = m.ep => step = "term"

NakOK == \A x \in naked : ~IsPoison(x)

RelayInv ==
  TypeOK /\ HandlerOK /\ AnswerOK /\ StreamOK /\ DlqOK /\ NakOK /\ MarkerProgressReal

-----------------------------------------------------------------------------
(***************************************************************************)
(* The except clauses.                                                     *)
(***************************************************************************)
LEMMA RecoverableIsTransient == \A x \in Recoverable : x \in Errors /\ ~IsPoison(x)
  BY DEF Recoverable, Errors, Bases, Clauses, Catches, IsPoison

LEMMA EnumeratedIsPoison == \A x \in Enumerated : IsPoison(x)
  BY DEF Enumerated, Bases, Clauses, Catches, IsPoison

-----------------------------------------------------------------------------
LEMMA InitInv == Init => RelayInv
  BY RelayAssumption
     DEF Init, Start, RelayInv, TypeOK, HandlerOK, AnswerOK, StreamOK, DlqOK, NakOK,
         MarkerProgressReal, Busy, Complete, Progress, Dispositions, Errors

\* The handler's own steps inside ingest.
LEMMA IngestStep ==
  ASSUME RelayInv, WriteUnit \/ IngestReturns \/ \E x \in Errors : IngestRaises(x)
  PROVE  RelayInv'
  <1> USE DEF RelayInv
  <1>0. cur \in Episodes /\ Busy /\ step = "ingest"
    BY RelayAssumption DEF WriteUnit, IngestReturns, Written, IngestRaises, TypeOK, Busy
  <1>1. CASE WriteUnit
    <2>0. /\ unit' = unit + 1 /\ unit \in Nat /\ unit < Units[cur] /\ Units[cur] \in Nat
          /\ Defect[cur] # None => DefectAt[cur] # unit
          /\ stored' = [stored EXCEPT ![cur] = @ \cup {unit + 1}]
          /\ UNCHANGED <<js, delivered, dlq, cur, num, step, raised, marker, file, crashes,
                         cut, escaped, naked>>
      BY <1>0, <1>1, RelayAssumption DEF WriteUnit, TypeOK, Failing, markerVars, historyVars
    <2>a. \A e \in Episodes : stored'[e] \in SUBSET Nat /\ stored'[e] \subseteq 1 .. Units[e]
      BY <1>0, <2>0 DEF TypeOK
    <2>1. TypeOK'
      BY <1>0, <2>0, <2>a DEF TypeOK
    <2>b. 1 .. unit' \subseteq stored'[cur]
      BY <1>0, <2>0 DEF TypeOK, HandlerOK
    <2>c. Defect[cur] # None => unit' <= DefectAt[cur]
      <3>1. DefectAt[cur] \in Nat
        BY <1>0, RelayAssumption
      <3>2. QED
        BY <1>0, <2>0, <3>1 DEF HandlerOK
    <2>2. HandlerOK'
      BY <1>0, <2>0, <2>b, <2>c DEF HandlerOK, Busy
    <2>3. \A e \in Episodes : Complete(e) => Complete(e)'
      BY <1>0, <1>1, <2>1 DEF WriteUnit, TypeOK, Complete
    <2>4. QED
      BY <1>0, <1>1, <2>1, <2>2, <2>3
         DEF WriteUnit, AnswerOK, StreamOK, DlqOK, NakOK, MarkerProgressReal, Parked,
             markerVars, historyVars
  <1>2. CASE IngestReturns
    <2>1. Complete(cur)
      BY <1>0, <1>2 DEF IngestReturns, Written, HandlerOK, TypeOK, Complete
    <2>2. Defect[cur] = None
      BY <1>0, <1>2, RelayAssumption DEF IngestReturns, Written, HandlerOK, TypeOK, Failing
    <2>3. HandlerOK'
      BY <1>0, <1>2 DEF IngestReturns, Written, HandlerOK, Busy, handlerVars
    <2>a. marker' \in Progress /\ file' \in Progress
      <3>1. [ingested |-> TRUE, last |-> "ack"] \in Progress
        BY DEF Progress, Dispositions
      <3>2. QED
        BY <1>2, <3>1 DEF IngestReturns, Written, RecordIngest, Note, TypeOK
    <2>b. TypeOK'
      BY <1>0, <1>2, <2>a DEF IngestReturns, Written, TypeOK, handlerVars, historyVars
    <2>4. MarkerProgressReal'
      BY <1>0, <1>2, <2>1 DEF IngestReturns, Written, MarkerProgressReal, Complete, HandlerOK, handlerVars
    <2>5. QED
      BY <1>0, <1>2, <2>1, <2>2, <2>3, <2>4, <2>b
         DEF IngestReturns, Written, AnswerOK, StreamOK, DlqOK, NakOK, Parked, Complete,
             handlerVars, historyVars
  <1>3. ASSUME NEW x \in Errors, IngestRaises(x) PROVE RelayInv'
    <2>1. IsPoison(x) => Defect[cur] # None
      BY <1>0, <1>3, RecoverableIsTransient, RelayAssumption DEF IngestRaises, Failing
    <2>2. TypeOK' /\ HandlerOK'
      BY <1>0, <1>3 DEF IngestRaises, Classify, TypeOK, HandlerOK, Busy, markerVars, historyVars
    <2>3. AnswerOK'
      BY <1>0, <1>3, <2>1 DEF IngestRaises, Classify, AnswerOK, Complete, Parked
    <2>4. DlqOK'
      BY <1>0, <1>3 DEF IngestRaises, DlqOK
    <2>5. QED
      BY <1>0, <1>3, <2>2, <2>3, <2>4
         DEF IngestRaises, StreamOK, NakOK, MarkerProgressReal, Complete, Parked,
             markerVars, historyVars
  <1>4. QED
    BY <1>1, <1>2, <1>3

\* The routing of a failure.
LEMMA RouteStep ==
  ASSUME RelayInv, RoutePoison \/ RouteTransient \/ PublishRaises
  PROVE  RelayInv'
  <1> USE DEF RelayInv
  <1>0. cur \in Episodes /\ Busy /\ step \in {"poison", "transient"}
    BY RelayAssumption DEF RoutePoison, RouteTransient, PublishRaises, TypeOK, Busy
  <1>1. ASSUME NEW reason \in {"poison", "max_deliver_exhausted"}, Park(reason),
               reason = "poison" => Defect[cur] # None,
               reason = "max_deliver_exhausted" => num >= MaxDeliver,
               UNCHANGED <<js, delivered, stored, handlerVars, crashes, cut, escaped, naked>>
        PROVE  RelayInv'
    <2> DEFINE m0 == [ep |-> cur, n |-> num, reason |-> reason]
    <2>0. dlq' = dlq \cup {m0} /\ step' = "term" /\ UNCHANGED <<js, delivered, stored, cur, num, unit, raised, crashes, cut, escaped, naked>>
      BY <1>1 DEF Park, handlerVars
    <2>1. m0 \in [ep : Episodes, n : 1 .. MaxDeliver,
                  reason : {"poison", "max_deliver_exhausted"}]
      BY <1>0, RelayAssumption DEF TypeOK, HandlerOK
    <2>2. TypeOK' 
      BY <1>0, <1>1, <2>0, <2>1 DEF Park, TypeOK, RecordMessage, Note, Progress, Dispositions
    <2>3. HandlerOK'
      BY <1>0, <2>0 DEF HandlerOK, Busy
    <2>a. Parked(cur)' /\ \A e \in Episodes : Parked(e) => Parked(e)'
      <3>1. m0 \in dlq' /\ m0.ep = cur' /\ dlq \subseteq dlq'
        BY <2>0
      <3>2. QED
        BY <3>1 DEF Parked
    <2>4. AnswerOK' /\ StreamOK' /\ NakOK'
      BY <1>0, <2>0, <2>a DEF AnswerOK, StreamOK, NakOK, Complete
    <2>5. m0.reason = "max_deliver_exhausted" => delivered[cur] = MaxDeliver /\ js[cur] # "acked"
      BY <1>0, <1>1, RelayAssumption DEF TypeOK, HandlerOK
    <2>6. DlqOK'
      BY <1>0, <1>1, <2>0, <2>5 DEF DlqOK
    <2>7. MarkerProgressReal'
      BY <1>1, <2>0 DEF Park, RecordMessage, Note, MarkerProgressReal, Complete, TypeOK, Progress
    <2>8. QED
      BY <2>2, <2>3, <2>4, <2>6, <2>7
  <1>2. CASE RoutePoison
    BY <1>1, <1>2 DEF RoutePoison, AnswerOK, historyVars
  <1>3. CASE RouteTransient /\ LastDelivery
    BY <1>1, <1>3 DEF RouteTransient, LastDelivery, historyVars
  <1>4. CASE RouteTransient /\ ~LastDelivery
    <2>0. /\ naked' = naked \cup {raised} /\ step = "transient" /\ step' = "nak"
          /\ RecordMessage("nak") /\ num < MaxDeliver
          /\ UNCHANGED <<js, delivered, stored, dlq, cur, num, unit, raised, crashes, cut, escaped>>
      BY <1>4, RelayAssumption DEF RouteTransient, LastDelivery, handlerVars, TypeOK
    <2>1. TypeOK' /\ HandlerOK'
      BY <1>0, <2>0 DEF TypeOK, HandlerOK, AnswerOK, Busy, RecordMessage, Note, Progress, Dispositions
    <2>2. AnswerOK' /\ StreamOK' /\ NakOK'
      BY <1>0, <2>0 DEF AnswerOK, StreamOK, NakOK, Parked, Complete
    <2>3. DlqOK'
      BY <1>0, <2>0 DEF DlqOK
    <2>4. MarkerProgressReal'
      BY <2>0 DEF RecordMessage, Note, MarkerProgressReal, Complete, TypeOK, Progress
    <2>5. QED
      BY <2>1, <2>2, <2>3, <2>4
  <1>5. CASE PublishRaises
    <2>0. /\ step' \in {"term", "nak"} /\ escaped' = escaped \cup {cur}
          /\ step = "poison" \/ (step = "transient" /\ num >= MaxDeliver)
          /\ UNCHANGED <<js, delivered, stored, dlq, cur, num, unit, raised, marker, file,
                         crashes, cut, naked>>
      BY <1>5, RelayAssumption DEF PublishRaises, LastDelivery, handlerVars, markerVars
    <2>1. TypeOK' /\ HandlerOK'
      BY <1>0, <2>0 DEF TypeOK, HandlerOK, Busy
    <2>2. AnswerOK' /\ StreamOK' /\ NakOK' /\ MarkerProgressReal'
      BY <1>0, <2>0 DEF AnswerOK, StreamOK, NakOK, Parked, Complete, MarkerProgressReal
    <2>3. DlqOK'
      BY <1>0, <2>0 DEF DlqOK
    <2>4. QED
      BY <2>1, <2>2, <2>3
  <1>6. QED
    BY <1>2, <1>3, <1>4, <1>5

\* The answers, and the death of the process: the handler comes to rest.
LEMMA RestStep ==
  ASSUME RelayInv, Ack \/ Term \/ Nak \/ Crash
  PROVE  RelayInv'
  <1> USE DEF RelayInv
  <1>0. Rest /\ UNCHANGED <<delivered, stored, dlq, cut, escaped, naked>> /\ crashes' \in Nat
    BY DEF Ack, Term, Nak, Crash, Answer, historyVars, TypeOK
  <1>1. HandlerOK' /\ AnswerOK' /\ NakOK'
    BY <1>0 DEF Rest, HandlerOK, AnswerOK, NakOK, Busy
  <1>2. CASE Crash
    <2>1. js' = js /\ marker' = file /\ file' = file
      BY <1>2 DEF Crash, Note
    <2>2. TypeOK'
      BY <1>0, <2>1, RelayAssumption DEF TypeOK, Rest
    <2>3. StreamOK' /\ MarkerProgressReal'
      BY <1>0, <2>1 DEF StreamOK, MarkerProgressReal, Complete, Parked
    <2>4. DlqOK'
      BY <1>0, <2>1, RelayAssumption DEF DlqOK, Rest, TypeOK
    <2>5. QED
      BY <1>1, <2>2, <2>3, <2>4
  <1>3. ASSUME NEW outcome, Answer(outcome), cur \in Episodes,
               outcome \in {"acked", "termed", "ready", "exhausted"},
               outcome = "acked" => step = "ack",
               outcome = "termed" => step = "term",
               outcome = "ready" => delivered[cur] < MaxDeliver,
               outcome = "exhausted" => cur \in escaped /\ ~(delivered[cur] < MaxDeliver)
        PROVE  RelayInv'
    <2>0. Busy /\ UNCHANGED <<marker, file, crashes>> /\ js' \in {js, [js EXCEPT ![cur] = outcome]}
      BY <1>3, RelayAssumption DEF Answer, Busy, markerVars, historyVars
    <2>1. TypeOK'
      BY <1>0, <1>3, <2>0, RelayAssumption DEF TypeOK, Rest
    <2>2. StreamOK'
      BY <1>0, <1>3, <2>0 DEF StreamOK, Complete, Parked, AnswerOK, TypeOK
    <2>3. DlqOK'
      BY <1>0, <1>3, <2>0, RelayAssumption DEF DlqOK, Rest, TypeOK, AnswerOK
    <2>4. MarkerProgressReal'
      BY <1>0, <1>3, <2>0 DEF MarkerProgressReal, Complete, TypeOK
    <2>5. QED
      BY <1>1, <2>1, <2>2, <2>3, <2>4
  <1>4. Ack \/ Term \/ Nak => cur \in Episodes /\ Busy
    BY RelayAssumption DEF Ack, Term, Nak, TypeOK, Busy
  <1>5. CASE Ack
    BY <1>3, <1>4, <1>5 DEF Ack
  <1>6. CASE Term
    BY <1>3, <1>4, <1>6 DEF Term
  <1>7. CASE Nak
    <2>1. Answer(Returned(cur)) /\ step = "nak" /\ num = delivered[cur]
      BY <1>4, <1>7 DEF Nak, HandlerOK
    <2>2. CASE delivered[cur] < MaxDeliver
      BY <1>3, <1>4, <1>7, <2>1, <2>2 DEF Returned
    <2>3. CASE ~(delivered[cur] < MaxDeliver)
      BY <1>3, <1>4, <1>7, <2>1, <2>3 DEF Returned, AnswerOK
    <2>4. QED
      BY <2>2, <2>3
  <1>8. QED
    BY <1>2, <1>5, <1>6, <1>7

\* JetStream's steps.
LEMMA StreamStep ==
  ASSUME RelayInv, NEW e \in Episodes, Publish(e) \/ Deliver(e) \/ AckWaitExpires(e)
  PROVE  RelayInv'
  <1> USE DEF RelayInv
  <1>1. CASE Publish(e)
    <2>0. js[e] = "absent" /\ js' = [js EXCEPT ![e] = "ready"]
          /\ UNCHANGED <<delivered, stored, dlq, cur, num, unit, raised, step, marker, file,
                         crashes, cut, escaped, naked>>
      BY <1>1 DEF Publish, handlerVars, markerVars, historyVars
    <2>1. TypeOK' /\ HandlerOK' /\ AnswerOK' /\ NakOK'
      BY <2>0 DEF TypeOK, HandlerOK, AnswerOK, NakOK, Busy, Complete, Parked
    <2>2. StreamOK'
      BY <2>0, RelayAssumption DEF StreamOK, Complete, Parked, TypeOK
    <2>3. DlqOK' /\ MarkerProgressReal'
      BY <2>0 DEF DlqOK, MarkerProgressReal, Complete, TypeOK
    <2>4. QED
      BY <2>1, <2>2, <2>3
  <1>2. CASE Deliver(e)
    <2>0. js[e] = "ready" /\ js' = [js EXCEPT ![e] = "out"] /\ step = "idle" /\ step' = "ingest"
          /\ delivered' = [delivered EXCEPT ![e] = @ + 1]
          /\ cur' = e /\ num' = delivered[e] + 1 /\ unit' = 0 /\ raised' = None
          /\ UNCHANGED <<stored, dlq, marker, file, crashes, cut, escaped, naked>>
      BY <1>2 DEF Deliver, markerVars, historyVars
    <2>1. delivered[e] \in Nat /\ delivered[e] < MaxDeliver /\ MaxDeliver \in Nat
      BY <2>0, RelayAssumption DEF StreamOK, TypeOK
    <2>2. TypeOK'
      BY <2>0, <2>1, RelayAssumption DEF TypeOK
    <2>3. HandlerOK'
      BY <2>0, <2>1, <2>2, RelayAssumption DEF TypeOK, HandlerOK, Busy
    <2>4. AnswerOK' /\ StreamOK' /\ NakOK'
      BY <2>0, <2>1 DEF AnswerOK, StreamOK, NakOK, Complete, Parked, TypeOK
    <2>5. DlqOK'
      BY <2>0, <2>1 DEF DlqOK, TypeOK
    <2>6. MarkerProgressReal'
      BY <2>0 DEF MarkerProgressReal, Complete, TypeOK
    <2>7. QED
      BY <2>2, <2>3, <2>4, <2>5, <2>6
  <1>3. CASE AckWaitExpires(e)
    <2>0. /\ js[e] = "out" /\ js' = [js EXCEPT ![e] = Returned(e)]
          /\ cut' = IF delivered[e] < MaxDeliver THEN cut ELSE cut \cup {e}
          /\ UNCHANGED <<delivered, stored, dlq, cur, num, unit, raised, step, marker, file,
                         crashes, escaped, naked>>
      BY <1>3 DEF AckWaitExpires, handlerVars, markerVars
    <2>1. Returned(e) \in {"ready", "exhausted"} /\ (Returned(e) = "ready" => delivered[e] < MaxDeliver)
          /\ (Returned(e) = "exhausted" => ~(delivered[e] < MaxDeliver))
      BY DEF Returned
    <2>2. TypeOK' /\ HandlerOK' /\ AnswerOK' /\ NakOK'
      BY <2>0, <2>1 DEF TypeOK, HandlerOK, AnswerOK, NakOK, Busy, Complete, Parked
    <2>3. StreamOK'
      BY <2>0, <2>1 DEF StreamOK, Complete, Parked, TypeOK
    <2>4. DlqOK' /\ MarkerProgressReal'
      BY <2>0, <2>1 DEF DlqOK, MarkerProgressReal, Complete, TypeOK
    <2>5. QED
      BY <2>2, <2>3, <2>4
  <1>4. QED
    BY <1>1, <1>2, <1>3

LEMMA StutterStep == RelayInv /\ UNCHANGED vars => RelayInv'
  BY DEF vars, RelayInv, TypeOK, HandlerOK, AnswerOK, StreamOK, DlqOK, NakOK,
         MarkerProgressReal, Busy, Complete, Parked

LEMMA InvHolds == Spec => []RelayInv
  <1>1. RelayInv /\ [Next]_vars => RelayInv'
    BY IngestStep, RouteStep, RestStep, StreamStep, StutterStep DEF Next, Handle
  <1>2. QED
    BY <1>1, InitInv, PTL DEF Spec

-----------------------------------------------------------------------------
\* Type correctness, with max_deliver as the limit of deliveries.
THEOREM TypeCorrect == Spec => []TypeOK
  BY InvHolds, PTL DEF RelayInv

\* An acknowledged episode is completely stored, through crashes, outages, late
\* answers and redeliveries.
THEOREM AckImpliesStored == Spec => []AckedIsStored
  <1>1. RelayInv => AckedIsStored
    BY DEF RelayInv, StreamOK, AckedIsStored
  <1>2. QED
    BY <1>1, InvHolds, PTL

\* No acknowledged episode is on the dead-letter subject.
THEOREM DeadLettersAreFailures == Spec => []AckedNotParked
  <1>1. RelayInv => AckedNotParked
    BY DEF RelayInv, StreamOK, DlqOK, AckedNotParked, Parked, TypeOK
  <1>2. QED
    BY <1>1, InvHolds, PTL

\* The handler itself never drops an episode: whatever is lost was lost to a last
\* delivery that was cut short or to a failing publish on the dead-letter subject.
THEOREM LossesAreAttributable == Spec => []LossIsAttributable
  <1>1. RelayInv => LossIsAttributable
    BY DEF RelayInv, StreamOK, LossIsAttributable, Closed
  <1>2. QED
    BY <1>1, InvHolds, PTL

\* An enumerated deterministic failure is never nak'd.
THEOREM PoisonIsNeverNaked == Spec => []PoisonNeverNaked
  <1>1. RelayInv => PoisonNeverNaked
    BY EnumeratedIsPoison DEF RelayInv, NakOK, PoisonNeverNaked
  <1>2. QED
    BY <1>1, InvHolds, PTL

\* The progress marker never claims progress that is not in the store.
THEOREM MarkerIsReal == Spec => []MarkerProgressReal
  BY InvHolds, PTL DEF RelayInv

-----------------------------------------------------------------------------
(***************************************************************************)
(* The relay implements Delivery.                                          *)
(***************************************************************************)
Fate == [e \in Episodes |-> FateOf[js[e]]]
Kept == {e \in Episodes : Complete(e)}
Dead == {m.ep : m \in dlq}
Struck == cut \cup escaped

\* The episode at hand is not settled in Delivery.
LEMMA AtHandIsUnsettled ==
  ASSUME RelayInv, step # "idle"
  PROVE  cur \in Episodes /\ Fate[cur] \in {"pending", "exhausted"}
  <1>1. cur \in Episodes /\ Busy
    BY RelayAssumption DEF RelayInv, TypeOK, Busy
  <1>2. QED
    BY <1>1 DEF RelayInv, HandlerOK, Fate, FateOf

LEMMA FateFollows ==
  ASSUME RelayInv, NEW e \in Episodes,
         NEW s \in {"acked", "termed", "exhausted", "ready", "out"},
         js' = [js EXCEPT ![e] = s]
  PROVE  Fate' = [Fate EXCEPT ![e] = FateOf[s]]
  BY DEF Fate, RelayInv, TypeOK

LEMMA DeliveryInit == Init => D!Init
  <1> SUFFICES ASSUME Init PROVE D!Init
    OBVIOUS
  <1>1. Fate = [e \in Episodes |-> "unsent"]
    BY DEF Init, Fate, FateOf
  <1>2. Kept = {e \in Episodes : Units[e] = 0}
    BY RelayAssumption DEF Init, Kept, Complete
  <1>3. Dead = {} /\ Struck = {}
    BY DEF Init, Dead, Struck
  <1>4. QED
    BY <1>1, <1>2, <1>3 DEF D!Init, Fate, Kept, Dead, Struck

\* A store write keeps the episode once it was the last one missing.
LEMMA WriteIsKeep ==
  ASSUME RelayInv, WriteUnit
  PROVE  D!Next \/ UNCHANGED D!vars
  <1>1. cur \in Episodes /\ Fate[cur] \in {"pending", "exhausted"}
    BY AtHandIsUnsettled DEF WriteUnit
  <1>2. UNCHANGED <<js, dlq, cut, escaped, cur>>
    BY DEF WriteUnit, historyVars
  <1>3. \A e \in Episodes : e # cur => stored'[e] = stored[e]
    BY <1>1 DEF WriteUnit, RelayInv, TypeOK
  <1>4. Kept' = Kept \/ Kept' = Kept \cup {cur}
    <2>1. \A e \in Episodes : e # cur => (Complete(e)' <=> Complete(e))
      BY <1>3 DEF Complete
    <2>2. Complete(cur) => Complete(cur)'
      BY <1>1, IngestStep DEF WriteUnit, RelayInv, TypeOK, Complete
    <2>3. QED
      <3>1. CASE Complete(cur)'
        BY <1>1, <1>2, <2>1, <3>1 DEF Kept
      <3>2. CASE ~Complete(cur)'
        BY <1>1, <1>2, <2>1, <2>2, <3>2 DEF Kept
      <3>3. QED
        BY <3>1, <3>2
  <1>5. CASE Kept' = Kept
    BY <1>2, <1>5 DEF D!vars, Kept
  <1>6. CASE Kept' = Kept \cup {cur}
    <2>1. D!Keep(cur)
      BY <1>1, <1>2, <1>6 DEF D!Keep, Kept, Fate
    <2>2. QED
      BY <1>1, <2>1 DEF D!Next
  <1>7. QED
    BY <1>4, <1>5, <1>6

LEMMA ParkIsBury ==
  ASSUME RelayInv, step # "idle", NEW reason, Park(reason),
         UNCHANGED <<js, stored, cut, escaped>>
  PROVE  D!Next
  <1>1. cur \in Episodes /\ Fate[cur] \in {"pending", "exhausted"}
    BY AtHandIsUnsettled
  <1>2. Dead' = Dead \cup {cur}
    <2> DEFINE m0 == [ep |-> cur, n |-> num, reason |-> reason]
    <2>1. dlq' = dlq \cup {m0} /\ m0.ep = cur
      BY DEF Park
    <2> HIDE DEF m0
    <2>2. QED
      BY <2>1 DEF Dead
  <1>3. Kept' = Kept
    BY DEF Kept, Complete
  <1>4. PICK e \in Episodes : e = cur
    BY <1>1
  <1>5. D!Bury(e)
    BY <1>1, <1>2, <1>3, <1>4 DEF D!Bury, Dead, Fate, Kept
  <1>6. QED
    BY <1>5 DEF D!Next

LEMMA RaiseIsStrike ==
  ASSUME RelayInv, PublishRaises
  PROVE  D!Next
  <1>1. cur \in Episodes /\ Fate[cur] \in {"pending", "exhausted"}
    BY AtHandIsUnsettled DEF PublishRaises
  <1>2. Struck' = Struck \cup {cur} /\ UNCHANGED <<js, dlq, stored>>
    BY DEF PublishRaises, Struck
  <1>3. Kept' = Kept
    BY <1>2 DEF Kept, Complete
  <1>4. PICK e \in Episodes : e = cur
    BY <1>1
  <1>5. D!Strike(e)
    BY <1>1, <1>2, <1>3, <1>4 DEF D!Strike, Struck, Fate, Kept
  <1>6. QED
    BY <1>5 DEF D!Next

\* An answer settles the message, or leaves it as it is.
LEMMA AnswerIsSettle ==
  ASSUME RelayInv, Ack \/ Term \/ Nak
  PROVE  D!Next \/ UNCHANGED D!vars
  <1>1. cur \in Episodes /\ Busy /\ Fate[cur] \in {"pending", "exhausted"}
    BY AtHandIsUnsettled, RelayAssumption DEF Ack, Term, Nak, Busy
  <1>2. UNCHANGED <<stored, dlq, cut, escaped>>
    BY DEF Ack, Term, Nak, Answer, historyVars
  <1>3. Kept' = Kept
    BY <1>2 DEF Kept, Complete
  <1>4. CASE js' = js
    BY <1>2, <1>3, <1>4 DEF D!vars, Kept
  <1>5. ASSUME NEW f \in D!Settled, Fate' = [Fate EXCEPT ![cur] = f],
               f = "acked" => cur \in Kept \ Dead,
               f = "rejected" => cur \in Dead \cup Struck,
               f = "exhausted" => cur \in Struck
        PROVE  D!Next
    <2>1. D!Settle(cur, f)
      BY <1>1, <1>2, <1>3, <1>5 DEF D!Settle, Fate, Kept, Dead, Struck
    <2>2. QED
      BY <1>1, <2>1, <1>5 DEF D!Next
  <1>6. CASE Ack /\ js' # js
    <2>1. js' = [js EXCEPT ![cur] = "acked"] /\ step = "ack"
      BY <1>6 DEF Ack, Answer
    <2>2. cur \in Kept /\ Defect[cur] = None
      BY <1>1, <2>1 DEF RelayInv, AnswerOK, Kept
    <2>3. cur \notin Dead
      BY <2>1, <2>2 DEF RelayInv, DlqOK, Dead
    <2>4. Fate' = [Fate EXCEPT ![cur] = "acked"]
      BY <1>1, <2>1, FateFollows DEF FateOf
    <2>5. QED
      BY <1>5, <2>2, <2>3, <2>4 DEF D!Settled
  <1>7. CASE Term /\ js' # js
    <2>1. js' = [js EXCEPT ![cur] = "termed"] /\ step = "term"
      BY <1>7 DEF Term, Answer
    <2>2. cur \in Dead \cup Struck
      BY <2>1 DEF RelayInv, AnswerOK, Parked, Dead, Struck
    <2>3. Fate' = [Fate EXCEPT ![cur] = "rejected"]
      BY <1>1, <2>1, FateFollows DEF FateOf
    <2>4. QED
      BY <1>5, <2>2, <2>3 DEF D!Settled
  <1>8. CASE Nak /\ js' # js
    <2>1. js' = [js EXCEPT ![cur] = Returned(cur)] /\ step = "nak"
      BY <1>8 DEF Nak, Answer
    <2>2. CASE delivered[cur] < MaxDeliver
      <3>1. js[cur] \in {"out", "ready"} /\ Returned(cur) = "ready"
        BY <1>1, <2>2 DEF RelayInv, HandlerOK, StreamOK, Returned
      <3>2. Fate' = Fate
        BY <1>1, <2>1, <3>1 DEF Fate, FateOf, RelayInv, TypeOK
      <3>3. QED
        BY <1>2, <1>3, <3>2 DEF D!vars, Fate, Kept
    <2>3. CASE ~(delivered[cur] < MaxDeliver)
      <3>1. Returned(cur) = "exhausted" /\ cur \in Struck
        BY <1>1, <2>1, <2>3 DEF RelayInv, HandlerOK, AnswerOK, Returned, Struck
      <3>2. Fate' = [Fate EXCEPT ![cur] = "exhausted"]
        BY <1>1, <2>1, <3>1, FateFollows DEF FateOf
      <3>3. QED
        BY <1>5, <3>1, <3>2 DEF D!Settled
    <2>4. QED
      BY <2>2, <2>3
  <1>9. QED
    BY <1>4, <1>6, <1>7, <1>8

\* JetStream's own steps.
LEMMA StreamIsDelivery ==
  ASSUME RelayInv, NEW e \in Episodes, Publish(e) \/ Deliver(e) \/ AckWaitExpires(e)
  PROVE  D!Next \/ UNCHANGED D!vars
  <1>1. UNCHANGED <<stored, dlq, escaped>>
    BY DEF Publish, Deliver, AckWaitExpires, historyVars
  <1>2. Kept' = Kept
    BY <1>1 DEF Kept, Complete
  <1>3. CASE Publish(e)
    <2>1. Fate[e] = "unsent" /\ Fate' = [Fate EXCEPT ![e] = "pending"] /\ cut' = cut
      <3>1. js[e] = "absent" /\ js' = [js EXCEPT ![e] = "ready"] /\ cut' = cut
        BY <1>3 DEF Publish, historyVars
      <3>2. Fate[e] = FateOf[js[e]]
        BY DEF Fate
      <3>3. Fate[e] = "unsent"
        BY <3>1, <3>2 DEF FateOf
      <3>4. Fate' = [Fate EXCEPT ![e] = FateOf["ready"]]
        BY <3>1, FateFollows
      <3>5. FateOf["ready"] = "pending"
        BY DEF FateOf
      <3>6. QED
        BY <3>1, <3>3, <3>4, <3>5
    <2>2. D!Send(e)
      BY <1>1, <1>2, <2>1 DEF D!Send, Fate, Kept
    <2>3. QED
      BY <2>2 DEF D!Next
  <1>4. CASE Deliver(e)
    <2>1. Fate' = Fate /\ cut' = cut
      BY <1>4 DEF Deliver, Fate, FateOf, RelayInv, TypeOK, historyVars
    <2>2. QED
      BY <1>1, <1>2, <2>1 DEF D!vars, Fate, Kept
  <1>5. CASE AckWaitExpires(e) /\ delivered[e] < MaxDeliver
    <2>1. Fate' = Fate /\ cut' = cut
      BY <1>5 DEF AckWaitExpires, Returned, Fate, FateOf, RelayInv, TypeOK
    <2>2. QED
      BY <1>1, <1>2, <2>1 DEF D!vars, Fate, Kept
  <1>6. CASE AckWaitExpires(e) /\ ~(delivered[e] < MaxDeliver)
    <2>1. Fate[e] = "pending" /\ Fate' = [Fate EXCEPT ![e] = "exhausted"]
      <3>1. js[e] = "out" /\ js' = [js EXCEPT ![e] = "exhausted"]
        BY <1>6 DEF AckWaitExpires, Returned
      <3>2. Fate[e] = FateOf[js[e]]
        BY DEF Fate
      <3>3. Fate[e] = "pending"
        BY <3>1, <3>2 DEF FateOf
      <3>4. Fate' = [Fate EXCEPT ![e] = FateOf["exhausted"]]
        BY <3>1, FateFollows
      <3>5. FateOf["exhausted"] = "exhausted"
        BY DEF FateOf
      <3>6. QED
        BY <3>1, <3>3, <3>4, <3>5
    <2>2. Struck' = Struck \cup {e}
      BY <1>1, <1>6 DEF AckWaitExpires, Struck
    <2>3. D!Strike(e)
      BY <1>1, <1>2, <2>1, <2>2 DEF D!Strike, Fate, Kept, Struck
    <2>4. QED
      BY <2>3 DEF D!Next
  <1>7. QED
    BY <1>3, <1>4, <1>5, <1>6

\* The steps that Delivery does not see.
LEMMA HiddenStep ==
  ASSUME UNCHANGED <<js, stored, dlq, cut, escaped>>
  PROVE  UNCHANGED D!vars
  <1>1. Kept' = Kept
    BY DEF Kept, Complete
  <1>2. QED
    BY <1>1 DEF D!vars, Kept

LEMMA DeliveryStep == RelayInv /\ [Next]_vars => [D!Next]_(D!vars)
  <1> SUFFICES ASSUME RelayInv, [Next]_vars PROVE D!Next \/ UNCHANGED D!vars
    OBVIOUS
  <1>1. CASE IngestReturns \/ (\E x \in Errors : IngestRaises(x)) \/ Crash \/ UNCHANGED vars
    BY <1>1, HiddenStep DEF IngestReturns, IngestRaises, Crash, historyVars, vars
  <1>2. CASE RoutePoison
    BY <1>2, ParkIsBury DEF RoutePoison, historyVars
  <1>3. CASE RouteTransient
    <2>1. CASE LastDelivery
      BY <1>3, <2>1, ParkIsBury DEF RouteTransient
    <2>2. CASE ~LastDelivery
      BY <1>3, <2>2, HiddenStep DEF RouteTransient
    <2>3. QED
      BY <2>1, <2>2
  <1>4. QED
    BY <1>1, <1>2, <1>3, WriteIsKeep, RaiseIsStrike, AnswerIsSettle, StreamIsDelivery
       DEF Next, Handle

\* For every set of episodes, every max_deliver and every fault of the model, each step
\* of the relay is one that Delivery allows: an episode is acknowledged only while it is
\* stored and not dead-lettered, rejected or given up only once it is dead-lettered or
\* a fault struck it, and no settlement but the last is revised.
THEOREM RelayImplementsDelivery == Spec => ImplementsDelivery
  BY InvHolds, DeliveryInit, DeliveryStep, PTL DEF Spec, ImplementsDelivery, D!Safety

=============================================================================
