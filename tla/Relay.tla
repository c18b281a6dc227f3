-------------------------------- MODULE Relay --------------------------------
(***************************************************************************)
(* The relay: the durable JetStream consumer on the MEMORY stream, the     *)
(* handler handle_memory_episode with its ack/nak/DLQ routing              *)
(* (relay/handler.py), RelayService.ingest with its exception mapping      *)
(* (relay/service.py), and the progress marker the handler updates.        *)
(*                                                                         *)
(* A complete ingest of an episode performs Units[e] store writes one      *)
(* after the other: the record and the predecessor marks of a structured   *)
(* episode, the chunks of a prose episode (none for an empty body).  Each  *)
(* is an upsert under a key derived from the episode, so stored[e] is the  *)
(* set of writes of e that have been committed at least once.              *)
(*                                                                         *)
(* One relay process pulls one message at a time (PullSub(batch_size=1)).  *)
(* It may die at any await; JetStream then redelivers after ack_wait.      *)
(***************************************************************************)
EXTENDS Integers, FiniteSets, Sequences

CONSTANTS
  Episodes,
  Units,          \* number of store writes of a complete ingest of each episode
  Defect,         \* the error every ingest of the episode meets, None for a good one
  DefectAt,       \* the number of writes that succeed before it
  Outages,        \* what a store write may meet on any attempt
  MaxDeliver,     \* settings.max_deliver
  SlowIngest,     \* whether an ingest may outlast ack_wait
  PublishMayFail, \* whether broker.publish to the DLQ subject may raise
  EscapeOutcomes, \* what FastStream does with a message whose handler raised
  MaxCrashes,     \* bound: deaths of the relay process
  None

(***************************************************************************)
(* The except clauses of RelayService.ingest, in their order.              *)
(***************************************************************************)

\* An exception is caught by the clauses that name its class or a base of it.
Bases ==
  [PoisonEpisodeError |-> {"PoisonEpisodeError", "Exception"},
   UnknownPayloadTypeError |-> {"UnknownPayloadTypeError", "ValueError", "Exception"},
   NamespaceValidationError |-> {"NamespaceValidationError", "ValueError", "Exception"},
   IdentifierValidationError |-> {"IdentifierValidationError", "ValueError", "Exception"},
   SupersessionValidationError |-> {"SupersessionValidationError", "ValueError", "Exception"},
   ValidationError |-> {"ValidationError", "ValueError", "Exception"},
   EmbedDimensionError |-> {"EmbedDimensionError", "ValueError", "Exception"},
   EmbedRequestError |-> {"EmbedRequestError", "EmbedServiceError", "Exception"},
   EmbedServiceError |-> {"EmbedServiceError", "Exception"},
   EmbedTimeoutError |-> {"EmbedTimeoutError", "TimeoutError", "Exception"},
   ConnectionError |-> {"ConnectionError", "Exception"},
   TimeoutError |-> {"TimeoutError", "Exception"},
   OtherError |-> {"Exception"}]

\* Mutant: the clause of the base class comes before that of its subclass.
ClausesSwapped ==
  << [catch |-> {"PoisonEpisodeError", "UnknownPayloadTypeError"}, as |-> "poison"],
     [catch |-> {"NamespaceValidationError", "IdentifierValidationError"}, as |-> "poison"],
     [catch |-> {"ValidationError", "EmbedDimensionError"}, as |-> "poison"],
     [catch |-> {"EmbedServiceError", "EmbedTimeoutError"}, as |-> "transient"],
     [catch |-> {"EmbedRequestError"}, as |-> "poison"],
     [catch |-> {"Exception"}, as |-> "transient"] >>

Clauses ==
  << [catch |-> {"PoisonEpisodeError"}, as |-> "poison"],
     [catch |-> {"UnknownPayloadTypeError"}, as |-> "poison"],
     [catch |-> {"NamespaceValidationError"}, as |-> "poison"],
     [catch |-> {"IdentifierValidationError"}, as |-> "poison"],
     [catch |-> {"ValidationError"}, as |-> "poison"],
     [catch |-> {"EmbedDimensionError"}, as |-> "poison"],
     [catch |-> {"EmbedRequestError"}, as |-> "poison"],
     [catch |-> {"EmbedServiceError", "EmbedTimeoutError"}, as |-> "transient"],
     [catch |-> {"ConnectionError", "TimeoutError"}, as |-> "transient"],
     [catch |-> {"Exception"}, as |-> "transient"] >>

Errors == DOMAIN Bases

\* The first clause that matches decides.
Catches(i, x) == Clauses[i].catch \cap Bases[x] # {}
IsPoison(x) ==
  \E i \in DOMAIN Clauses :
    Clauses[i].as = "poison" /\ Catches(i, x) /\ \A j \in 1 .. (i - 1) : ~Catches(j, x)

\* Mutant: a transient failure is tried again in place, without a bound.
RetriedInPlace(x) == IF IsPoison(x) THEN "poison" ELSE "ingest"

Classify(x) == IF IsPoison(x) THEN "poison" ELSE "transient"

\* Failures of the embedding server, of the connection to Postgres, and the rest.
Recoverable == {"EmbedServiceError", "EmbedTimeoutError", "ConnectionError", "TimeoutError",
                "OtherError"}

ASSUME RelayAssumption ==
  /\ Units \in [Episodes -> Nat]
  /\ Outages \subseteq Recoverable
  /\ Defect \in [Episodes -> (Errors \ Recoverable) \cup {None}]
  /\ DefectAt \in [Episodes -> Nat]
  /\ \A e \in Episodes : Defect[e] # None => DefectAt[e] = 0 \/ DefectAt[e] < Units[e]
  /\ MaxDeliver \in Nat \ {0}
  /\ MaxCrashes \in Nat
  /\ SlowIngest \in BOOLEAN /\ PublishMayFail \in BOOLEAN
  /\ EscapeOutcomes \subseteq {"term", "nak"}
  /\ None \notin Episodes /\ None \notin Errors

VARIABLES
  js,        \* JetStream's state of each message
  delivered, \* num_delivered of each message
  stored,    \* the store writes of each episode that were committed
  dlq,       \* messages on memory.dlq.>: [ep, n, reason]
  cur,       \* the episode being handled, None between messages
  num,       \* the delivery being handled
  step,      \* where the handler is
  unit,      \* store writes done by this ingest
  marker,    \* RelayMarker in memory
  file,      \* the marker file
  crashes,
  cut,       \* history: episodes whose last delivery died or outlasted ack_wait
  escaped,   \* history: episodes whose DLQ publish raised
  raised,    \* the exception being handled
  naked      \* history: the exceptions answered with a nak

vars == <<js, delivered, stored, dlq, cur, num, step, unit, raised, marker, file,
          crashes, cut, escaped, naked>>

\* What the fence reads of the marker, its times left out: whether last_ingest_at is
\* set, and last_disposition.
Start == [ingested |-> FALSE, last |-> "none"]

Init ==
  /\ js = [e \in Episodes |-> "absent"]
  /\ delivered = [e \in Episodes |-> 0]
  /\ stored = [e \in Episodes |-> {}]
  /\ dlq = {}
  /\ cur = None /\ num = 0 /\ step = "idle" /\ unit = 0 /\ raised = None
  /\ marker = Start /\ file = Start
  /\ crashes = 0
  /\ cut = {} /\ escaped = {} /\ naked = {}

handlerVars == <<cur, num, unit, raised>>
historyVars == <<crashes, cut, escaped, naked>>
markerVars == <<marker, file>>

\* RelayMarker._write: replace the file, or leave the old one when the filesystem
\* fails.
Note(m) == marker' = m /\ file' \in {m, file}

RecordIngest == Note([ingested |-> TRUE, last |-> "ack"])

\* Mutant: any message counts as an ingest.
RecordAsIngest(disposition) == Note([ingested |-> TRUE, last |-> disposition])

RecordMessage(disposition) == Note([marker EXCEPT !.last = disposition])

-----------------------------------------------------------------------------
(***************************************************************************)
(* JetStream: publication, delivery, ack_wait.                             *)
(***************************************************************************)
Publish(e) ==
  /\ js[e] = "absent"
  /\ js' = [js EXCEPT ![e] = "ready"]
  /\ UNCHANGED <<delivered, stored, dlq, handlerVars, step, markerVars, historyVars>>

Deliver(e) ==
  /\ step = "idle" /\ js[e] = "ready"
  /\ js' = [js EXCEPT ![e] = "out"]
  /\ delivered' = [delivered EXCEPT ![e] = @ + 1]
  /\ cur' = e /\ num' = delivered[e] + 1 /\ unit' = 0 /\ raised' = None
  /\ step' = "ingest"
  /\ UNCHANGED <<stored, dlq, markerVars, historyVars>>

\* A message that comes back: redelivered, unless this was its last delivery, after
\* which JetStream keeps it in the stream and never delivers it again.
Returned(e) == IF delivered[e] < MaxDeliver THEN "ready" ELSE "exhausted"

\* ack_wait passes: always after the relay died, and while it is still at work when
\* an ingest may be that slow.
AckWaitExpires(e) ==
  /\ js[e] = "out"
  /\ cur = e => SlowIngest
  /\ js' = [js EXCEPT ![e] = Returned(e)]
  /\ cut' = IF delivered[e] < MaxDeliver THEN cut ELSE cut \cup {e}
  /\ UNCHANGED <<delivered, stored, dlq, handlerVars, step, markerVars, crashes, escaped,
                 naked>>

\* Between two messages.
Rest == cur' = None /\ num' = 0 /\ unit' = 0 /\ raised' = None /\ step' = "idle"

\* The answer to a delivery.  A message whose ack_wait has passed is no longer out:
\* JetStream may still accept the late answer, or drop it.
Answer(outcome) ==
  /\ js' \in {[js EXCEPT ![cur] = outcome]} \cup (IF js[cur] = "out" THEN {} ELSE {js})
  /\ Rest
  /\ UNCHANGED <<delivered, stored, dlq, markerVars, historyVars>>

-----------------------------------------------------------------------------
(***************************************************************************)
(* RelayService.ingest.                                                    *)
(***************************************************************************)
Failing == Defect[cur] # None /\ DefectAt[cur] = unit

\* One committed store write of the ingest.
WriteUnit ==
  /\ step = "ingest" /\ ~Failing /\ unit < Units[cur]
  /\ unit' = unit + 1
  /\ stored' = [stored EXCEPT ![cur] = @ \cup {unit + 1}]
  /\ UNCHANGED <<js, delivered, dlq, cur, num, step, raised, markerVars, historyVars>>

\* The ingest raises: the episode's own defect, or an outage during a store write.
\* The embedding server rejects nothing while it is down, so those two compete; the
\* other defects are found before any I/O.
EmbedDefects == {"EmbedRequestError", "EmbedDimensionError"}

IngestRaises(x) ==
  /\ step = "ingest"
  /\ \/ Failing /\ x = Defect[cur]
     \/ /\ x \in Outages /\ unit < Units[cur]
        /\ Failing => Defect[cur] \in EmbedDefects
  /\ step' = Classify(x) /\ raised' = x
  /\ UNCHANGED <<js, delivered, stored, dlq, cur, num, unit, markerVars, historyVars>>

\* Mutant: the first write decides.
WrittenSome == unit > 0

Written == unit = Units[cur]

\* The ingest returns: the marker is updated and the handler returns cleanly.
IngestReturns ==
  /\ step = "ingest" /\ ~Failing /\ Written
  /\ RecordIngest
  /\ step' = "ack"
  /\ UNCHANGED <<js, delivered, stored, dlq, handlerVars, historyVars>>

-----------------------------------------------------------------------------
(***************************************************************************)
(* handle_memory_episode: routing.                                         *)
(***************************************************************************)
\* Mutant: the message is rejected without its dead letter.
ParkUnpublished(reason) ==
  /\ RecordMessage("dlq")
  /\ step' = "term"
  /\ UNCHANGED dlq

Park(reason) ==
  /\ dlq' = dlq \cup {[ep |-> cur, n |-> num, reason |-> reason]}
  /\ RecordMessage("dlq")
  /\ step' = "term"

\* except PoisonEpisodeError
RoutePoison ==
  /\ step = "poison"
  /\ Park("poison")
  /\ UNCHANGED <<js, delivered, stored, handlerVars, historyVars>>

\* Mutants: the last delivery is seen one too early, one too late.
LastDeliveryEarly == num >= MaxDeliver - 1
LastDeliveryLate == num > MaxDeliver

\* _route_transient
LastDelivery == num >= MaxDeliver

RouteTransient ==
  /\ step = "transient"
  /\ \/ /\ LastDelivery
        /\ Park("max_deliver_exhausted")
        /\ UNCHANGED naked
     \/ /\ ~LastDelivery
        /\ RecordMessage("nak")
        /\ step' = "nak"
        /\ naked' = naked \cup {raised}
        /\ UNCHANGED dlq
  /\ UNCHANGED <<js, delivered, stored, handlerVars, crashes, cut, escaped>>

\* The publish to the DLQ raises, and with it the handler: the framework answers.
PublishRaises ==
  /\ PublishMayFail
  /\ step = "poison" \/ (step = "transient" /\ LastDelivery)
  /\ step' \in EscapeOutcomes
  /\ escaped' = escaped \cup {cur}
  /\ UNCHANGED <<js, delivered, stored, dlq, handlerVars, markerVars, crashes, cut, naked>>

Ack == step = "ack" /\ Answer("acked")
Term == step = "term" /\ Answer("termed")
Nak == step = "nak" /\ Answer(Returned(cur))

\* The relay dies and is started again: record_start goes on from what the
\* file says.
Crash ==
  /\ crashes < MaxCrashes
  /\ crashes' = crashes + 1
  /\ Rest
  /\ Note(file)
  /\ UNCHANGED <<js, delivered, stored, dlq, cut, escaped, naked>>

Handle ==
  \/ WriteUnit \/ IngestReturns \/ RoutePoison \/ RouteTransient \/ PublishRaises
  \/ Ack \/ Term \/ Nak
  \/ \E x \in Errors : IngestRaises(x)

Next ==
  \/ Handle \/ Crash
  \/ \E e \in Episodes : Publish(e) \/ Deliver(e) \/ AckWaitExpires(e)

Spec == Init /\ [][Next]_vars

\* Fairness: the handler keeps running and the consumer keeps pulling (the bounded
\* crashes are followed by a restart), and JetStream counts ack_wait down.
FairSpec ==
  /\ Spec
  /\ WF_vars(Handle) /\ WF_vars(\E e \in Episodes : Deliver(e))
  /\ \A e \in Episodes : WF_vars(AckWaitExpires(e))

-----------------------------------------------------------------------------
(***************************************************************************)
(* Properties.                                                             *)
(***************************************************************************)
Dispositions == {"none", "ack", "nak", "dlq"}
Progress == [ingested : BOOLEAN, last : Dispositions]

\* Type invariant: only writes an episode has are stored, JetStream never delivers a
\* message more than max_deliver times, and the handler works on an episode exactly
\* when it is not idle.
TypeOK ==
  /\ js \in [Episodes -> {"absent", "ready", "out", "acked", "termed", "exhausted"}]
  /\ delivered \in [Episodes -> 0 .. MaxDeliver]
  /\ stored \in [Episodes -> SUBSET Nat]
  /\ \A e \in Episodes : stored[e] \subseteq 1 .. Units[e]
  /\ dlq \subseteq [ep : Episodes, n : 1 .. MaxDeliver,
                   reason : {"poison", "max_deliver_exhausted"}]
  /\ step \in {"idle", "ingest", "poison", "transient", "ack", "term", "nak"}
  /\ cur \in Episodes \cup {None} /\ (cur = None <=> step = "idle")
  /\ num \in 0 .. MaxDeliver
  /\ unit \in Nat
  /\ raised \in Errors \cup {None}
  /\ marker \in Progress /\ file \in Progress
  /\ crashes \in Nat
  /\ cut \subseteq Episodes /\ escaped \subseteq Episodes
  /\ naked \subseteq Errors

Complete(e) == stored[e] = 1 .. Units[e]
Parked(e) == \E m \in dlq : m.ep = e
Closed(e) == js[e] \in {"acked", "termed", "exhausted"}

\* Ack only after the commit (handler.py, "Clean return -> ACK (write committed)"):
\* JetStream forgets an episode as delivered only when every one of its store writes
\* is in the store, through whatever crashes, late answers and redeliveries.
AckedIsStored == \A e \in Episodes : js[e] = "acked" => Complete(e)

\* The dead-letter subject holds failures only: an episode that ended in an ack is
\* not on it, so replaying the dead letters repeats no success.
AckedNotParked == \A e \in Episodes : js[e] = "acked" => ~Parked(e)

\* "Never silently dropped" as far as the code carries it: a message that JetStream
\* will not deliver again is stored, or on the dead-letter subject, or its last
\* delivery was cut short (the relay died or outlasted ack_wait), or the publish to
\* the dead-letter subject itself failed.  No path through the handler loses it.
LossIsAttributable ==
  \A e \in Episodes :
    Closed(e) => Complete(e) \/ Parked(e) \/ e \in cut \/ e \in escaped

\* The deterministic failures that RelayService.ingest enumerates.
Enumerated ==
  {"PoisonEpisodeError", "UnknownPayloadTypeError", "NamespaceValidationError",
   "IdentifierValidationError", "ValidationError", "EmbedDimensionError",
   "EmbedRequestError"}

\* An enumerated deterministic failure is never answered with a nak, which would
\* burn deliveries on a certain failure (TASK-FIX-RELAYDROP01): for
\* EmbedRequestError, a subclass of the transient EmbedServiceError, this rests on
\* the order of the except clauses.
PoisonNeverNaked == naked \cap Enumerated = {}

\* The same for every failure that repeats on every delivery (service.py:
\* "Deterministic failures -> PoisonEpisodeError (DLQ)").
DeterministicNeverNaked == naked \subseteq Recoverable

\* The progress marker never claims an ingest that is not in the store: when it
\* carries a last_ingest_at or says the last message was acknowledged, in memory or on
\* disk, before or after a restart, some published episode is completely stored.
MarkerProgressReal ==
  (\E m \in {marker, file} : m.ingested \/ m.last = "ack")
    => \E e \in Episodes : js[e] # "absent" /\ Complete(e)

\* The relay as its publishers see it: JetStream's states without the deliveries, an
\* episode stored once all of its writes are.
FateOf ==
  [absent |-> "unsent", ready |-> "pending", out |-> "pending", acked |-> "acked",
   termed |-> "rejected", exhausted |-> "exhausted"]

D == INSTANCE Delivery WITH
       Messages <- Episodes,
       Hollow <- {e \in Episodes : Units[e] = 0},
       fate <- [e \in Episodes |-> FateOf[js[e]]],
       kept <- {e \in Episodes : Complete(e)},
       dead <- {m.ep : m \in dlq},
       struck <- cut \cup escaped

\* The handler, with its deliveries, outages, crashes and late answers, implements
\* Delivery: every step is one of Delivery's or none at all, so an ack rests on what is
\* in the store and not among the dead letters at that moment, and is never revised.
ImplementsDelivery == D!Safety

\* The other half of Delivery: every published episode is eventually closed, acked,
\* rejected, or out of deliveries; no retry loop runs for ever.
EventuallyClosed == D!Progress

=============================================================================
