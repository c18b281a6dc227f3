------------------------------ MODULE Reindex ------------------------------
(***************************************************************************)
(* The re-index pipeline (reindex/): a publish run walks the corpus,       *)
(* settles id collisions, carries stored lessons forward, publishes one    *)
(* episode per task and then the reviewed backfill, and writes its report; *)
(* the audit reconciles the report with the store and the dead letters.    *)
(*                                                                         *)
(* A document is [path, class, id, title, lessons, big]: path is its rank  *)
(* by depth and name, class what classify_document and the parser make of  *)
(* it ("skip", "bad" or "ok"), id the sanitized task id, big whether its   *)
(* body exceeds MAX_EPISODE_BODY_BYTES.  A payload is [id, src, lessons].  *)
(* The relay is seen from outside: it stores a message, dead-letters it or *)
(* loses it (Relay's LossIsAttributable), redelivers and reorders.         *)
(***************************************************************************)
EXTENDS Integers, FiniteSets

CONSTANTS
  Ids,
  Corpora,         \* the states of the checkout
  Backfills,       \* the contents of the staging directory: sets of reviewed payloads
                   \* [id, src, lessons, big], src the rank of the file
  Seeds,           \* initial stores
  Lessons,         \* lessons prose other writers store
  MaxRuns,         \* bound: publish runs
  MaxEvents,       \* bound: changes of the checkout, writes by others and messages
                   \* delivered again although stored, together
  None

Document == [path : Nat, class : {"skip", "bad", "ok"}, id : Ids, title : STRING,
             lessons : Lessons \cup {None}, big : BOOLEAN]
Payload == [id : Ids, src : Nat, lessons : Lessons \cup {None}]

ASSUME ReindexAssumption ==
  /\ \A c \in Corpora : c \subseteq Document /\ IsFiniteSet(c)
                        /\ \A d, e \in c : d.path = e.path => d = e
  /\ \A b \in UNION Backfills : [id |-> b.id, src |-> b.src, lessons |-> b.lessons] \in Payload
                         /\ b.big \in BOOLEAN
  /\ Seeds \subseteq [Ids -> [pay : Payload, version : Nat] \cup {None}]
  /\ MaxRuns \in Nat /\ MaxEvents \in Nat
  /\ None \notin Lessons /\ None \notin [pay : Payload, version : Nat]
  /\ None \notin [doc : Document, pay : Payload]
  /\ \A letters \in SUBSET {<<"ep", k>> : k \in Ids} : letters # None

VARIABLES
  corpus,
  store,    \* [pay, version] of each id, or None
  stream,   \* payloads of the messages not settled yet
  window,   \* message ids JetStream still remembers
  dlq,      \* episode ids on the dead-letter subject
  phase,    \* of the publish run: "idle", "read", "send", "backfill"
  todo,     \* the winners still to publish, or the backfill files
  hold,     \* the payload about to be published
  tally,    \* the lists of the RunReport being built
  report,   \* the report file, None before the first
  audit,    \* [phase, keys, left, key, loaded, missing]: the keys of the report and those
            \* left, the one whose record was not there, the dead letters read (None
            \* before), and the keys found missing
  count,    \* [runs, edits, writes, again]
  sent,     \* history: ids handed to JetStream with success
  lost,     \* history: ids of episodes the relay lost
  raced,    \* history: ids whose lessons were stored with a bare episode in flight
  seeded,   \* history: the version of each id at the beginning, 0 without a record
  settled   \* history: the keys stored when the audit began

runVars == <<phase, todo, hold, tally, report>>
auditVars == <<audit, settled>>
history == <<sent, lost, raced, seeded>>
\* Keys that only the corpus publishes: a backfill does not preserve lessons.
OfCorpus == Ids \ {b.id : b \in UNION Backfills}

vars == <<corpus, store, stream, window, dlq, runVars, auditVars, count, history>>

NoTally == [walked |-> {}, published |-> {}, skipped |-> {}, bad |-> {}]
NoAudit == [phase |-> "idle", keys |-> {}, left |-> {}, key |-> None, loaded |-> None,
            missing |-> {}]

Init ==
  /\ corpus \in Corpora
  /\ store \in Seeds
  /\ stream = {} /\ window = {} /\ dlq = {}
  /\ phase = "idle" /\ todo = {} /\ hold = None /\ tally = NoTally /\ report = None
  /\ audit = NoAudit /\ settled = {}
  /\ count = [runs |-> 0, edits |-> 0, writes |-> 0, again |-> 0]
  /\ sent = {} /\ lost = {} /\ raced = {}
  /\ seeded = [k \in Ids |-> IF store[k] = None THEN 0 ELSE store[k].version]

-----------------------------------------------------------------------------
(***************************************************************************)
(* The walk: classify, parse, _resolve_collisions.                         *)
(***************************************************************************)
Classified(class) == {d \in corpus : d.class = class}
Claims(id) == {d \in Classified("ok") : d.id = id}

\* Distinct tasks that share an id are all skipped.
Contested == {d \in Classified("ok") : \E e \in Claims(d.id) : e.title # d.title}

\* Copies of one task: the deepest path wins.
Deepest(ds) == CHOOSE d \in ds : \A e \in ds : e.path <= d.path
Winners == {Deepest(Claims(d.id)) : d \in Classified("ok") \ Contested}

\* Mutant: the copies that lost are not recorded.
Unrecorded == {}

Shadowed == Classified("ok") \ (Contested \cup Winners)

Walked ==
  [walked |-> corpus, published |-> {}, bad |-> Classified("bad"),
   skipped |-> Classified("skip") \cup Contested \cup Shadowed]

\* Mutant: the payload carries the moment of the run.
StampedPayload(d) == [id |-> d.id, src |-> d.path + 10 * count.runs, lessons |-> d.lessons]

\* parse_completed_task
ParsedPayload(d) == [id |-> d.id, src |-> d.path, lessons |-> d.lessons]

-----------------------------------------------------------------------------
(***************************************************************************)
(* The publish run.                                                        *)
(***************************************************************************)
\* Mutant: one message id for all.
SharedEpisodeId(id) == "ep"

\* _derive_episode_id
EpisodeId(id) == <<"ep", id>>

\* JetStream: a message whose id it remembers is acknowledged and dropped.
Publish(pay) ==
  /\ sent' = sent \cup {pay.id}
  /\ window' = window \cup {EpisodeId(pay.id)}
  /\ stream' = IF EpisodeId(pay.id) \in window THEN stream ELSE stream \cup {pay}

StartRun ==
  /\ phase = "idle" /\ count.runs < MaxRuns
  /\ count' = [count EXCEPT !.runs = @ + 1]
  /\ tally' = Walked /\ todo' = Winners
  /\ phase' = "read"
  /\ UNCHANGED <<corpus, store, stream, window, dlq, hold, report, auditVars, history>>

\* Mutant: stored lessons are not looked at.
Outgoing(pay) == pay

\* _preserve_existing_lessons
Preserved(pay) ==
  IF pay.lessons = None /\ store[pay.id] # None
    THEN [pay EXCEPT !.lessons = store[pay.id].pay.lessons] ELSE pay

ReadLessons(d) ==
  /\ phase = "read" /\ d \in todo
  /\ hold' = [doc |-> d, pay |-> Preserved(ParsedPayload(d))]
  /\ phase' = "send"
  /\ UNCHANGED <<corpus, store, stream, window, dlq, todo, tally, report, auditVars, count,
                 history>>

PublishWinner ==
  LET d == hold.doc IN
  /\ phase = "send"
  /\ phase' = "read" /\ todo' = todo \ {d} /\ hold' = None
  /\ \/ /\ d.big
        /\ tally' = [tally EXCEPT !.skipped = @ \cup {d}]
        /\ UNCHANGED <<stream, window, sent>>
     \/ /\ ~d.big
        /\ tally' = [tally EXCEPT !.published = @ \cup {d}]
        /\ Publish(hold.pay)
  /\ UNCHANGED <<corpus, store, dlq, report, auditVars, count, lost, raced, seeded>>

\* reindex_corpus returns its report.
CorpusDone ==
  /\ phase = "read" /\ todo = {}
  /\ phase' = "backfill" /\ todo' \in Backfills
  /\ UNCHANGED <<corpus, store, stream, window, dlq, hold, tally, report, auditVars, count,
                 history>>

\* The end of run_publish: a report that exists by then is written.
EndRun(written) ==
  /\ phase' = "idle" /\ todo' = {} /\ hold' = None /\ tally' = NoTally
  /\ report' = IF written THEN tally ELSE report

\* sorted(backfill_dir.rglob("*.json"))
FirstFile == CHOOSE b \in todo : \A c \in todo : b.src <= c.src

\* process_backfill_payload: its episodes are in no list of the report.
PublishBackfill(b) ==
  /\ phase = "backfill" /\ b = FirstFile /\ ~b.big
  /\ todo' = todo \ {b}
  /\ Publish([id |-> b.id, src |-> b.src, lessons |-> b.lessons])
  /\ UNCHANGED <<corpus, store, dlq, phase, hold, tally, report, auditVars, count, lost,
                 raced, seeded>>

\* publish_episode refuses an oversized payload, and with it the rest of the run.
RefuseBackfill(b) ==
  /\ phase = "backfill" /\ b = FirstFile /\ b.big
  /\ EndRun(TRUE)
  /\ UNCHANGED <<corpus, store, stream, window, dlq, auditVars, count, history>>

RunDone ==
  /\ phase = "backfill" /\ todo = {}
  /\ EndRun(TRUE)
  /\ UNCHANGED <<corpus, store, stream, window, dlq, auditVars, count, history>>

\* The store or NATS raises, before or after the corpus report exists; or the
\* process is killed and writes nothing.
RunFails(killed) ==
  /\ phase # "idle"
  /\ EndRun(phase = "backfill" /\ ~killed)
  /\ UNCHANGED <<corpus, store, stream, window, dlq, auditVars, count, history>>

\* --dry-run: the census counts every winner as published and overwrites the report.
Census ==
  /\ phase = "idle"
  /\ report' = [Walked EXCEPT !.published = Winners]
  /\ UNCHANGED <<corpus, store, stream, window, dlq, phase, todo, hold, tally, auditVars,
                 count, history>>

-----------------------------------------------------------------------------
(***************************************************************************)
(* The audit.                                                              *)
(***************************************************************************)
Recorded(id) == store[id] # None

\* Mutant: a second statement of the rule that mints the id, without its prefix.
DlqIdWithoutPrefix(id) == <<id>>

DlqId(id) == EpisodeId(id)

StartAudit ==
  /\ audit.phase = "idle" /\ report # None
  /\ LET keys == {d.id : d \in report.published} IN
       /\ audit' = [NoAudit EXCEPT !.phase = "run", !.keys = keys, !.left = keys]
       /\ settled' = {k \in keys : Recorded(k)}
  /\ UNCHANGED <<corpus, store, stream, window, dlq, runVars, count, history>>

\* check_episode_on_dlq, of the dead letters that have been read.
CheckLetters(k, letters) ==
  audit' = [audit EXCEPT !.phase = "run", !.left = @ \ {k}, !.key = None, !.loaded = letters,
              !.missing = IF DlqId(k) \in letters THEN @ ELSE @ \cup {k}]

\* One published key: it is stored, or looked for in the dead letters, which the first one
\* that is not stored has yet to read.
AuditKey(k) ==
  /\ audit.phase = "run" /\ k \in audit.left
  /\ \/ Recorded(k) /\ audit' = [audit EXCEPT !.left = @ \ {k}]
     \/ ~Recorded(k) /\ audit.loaded # None /\ CheckLetters(k, audit.loaded)
     \/ /\ ~Recorded(k) /\ audit.loaded = None
        /\ audit' = [audit EXCEPT !.phase = "ask", !.key = k]
  /\ UNCHANGED <<corpus, store, stream, window, dlq, runVars, settled, count, history>>

\* JetStreamDLQClient.load: the dead letters are read until none comes for
\* _DRAIN_TIMEOUT_S; from a slow broker, that is not all of them.  Meanwhile the relay may
\* have stored the key after all.
AskLetters ==
  /\ audit.phase = "ask"
  /\ \E letters \in SUBSET dlq : CheckLetters(audit.key, letters)
  /\ UNCHANGED <<corpus, store, stream, window, dlq, runVars, settled, count, history>>

\* The exit code says whether missing is empty.
AuditDone ==
  /\ audit.phase = "run" /\ audit.left = {}
  /\ audit' = NoAudit /\ settled' = {}
  /\ UNCHANGED <<corpus, store, stream, window, dlq, runVars, count, history>>

\* The store or NATS raises, and nothing is reported.
AuditFails ==
  /\ audit.phase # "idle"
  /\ audit' = NoAudit /\ settled' = {}
  /\ UNCHANGED <<corpus, store, stream, window, dlq, runVars, count, history>>

-----------------------------------------------------------------------------
(***************************************************************************)
(* The relay, other writers, the duplicate window, the checkout.           *)
(***************************************************************************)
Events == count.edits + count.writes + count.again

\* DeterministicWriter.write: unchanged content is a no-op.
Upsert(pay) ==
  LET old == store[pay.id] IN
  store' = [store EXCEPT ![pay.id] =
    IF old = None THEN [pay |-> pay, version |-> 1]
    ELSE IF old.pay = pay THEN old ELSE [pay |-> pay, version |-> old.version + 1]]

\* Episodes without lessons that are on their way when lessons are stored.
BareInFlight(k, messages) ==
  \/ hold # None /\ hold.pay.id = k /\ hold.pay.lessons = None
  \/ \E m \in messages : m.id = k /\ m.lessons = None
Race(pay, messages) ==
  raced' = IF pay.lessons # None /\ BareInFlight(pay.id, messages)
             THEN raced \cup {pay.id} ELSE raced

Ingest(m) ==
  /\ Upsert(m)
  /\ Race(m, stream \ {m})
  /\ \/ stream' = stream \ {m} /\ UNCHANGED count
     \/ /\ Events < MaxEvents
        /\ count' = [count EXCEPT !.again = @ + 1]
        /\ UNCHANGED stream
  /\ UNCHANGED <<corpus, window, dlq, runVars, auditVars, sent, lost, seeded>>

DeadLetter(m) ==
  /\ stream' = stream \ {m}
  /\ dlq' = dlq \cup {EpisodeId(m.id)}
  /\ UNCHANGED <<corpus, store, window, runVars, auditVars, count, history>>

Lose(m) ==
  /\ stream' = stream \ {m}
  /\ lost' = lost \cup {m.id}
  /\ UNCHANGED <<corpus, store, window, dlq, runVars, auditVars, count, sent, raced,
                 seeded>>

\* The runtime lane or an import stores an outcome with lessons.
OtherWrite(k, l) ==
  LET pay == [id |-> k, src |-> 0, lessons |-> l] IN
  /\ Events < MaxEvents
  /\ count' = [count EXCEPT !.writes = @ + 1]
  /\ Upsert(pay) /\ Race(pay, stream)
  /\ UNCHANGED <<corpus, stream, window, dlq, runVars, auditVars, sent, lost, seeded>>

Forget(x) ==
  /\ window' = window \ {x}
  /\ UNCHANGED <<corpus, store, stream, dlq, runVars, auditVars, count, history>>

Edit(c) ==
  /\ phase = "idle" /\ Events < MaxEvents
  /\ count' = [count EXCEPT !.edits = @ + 1]
  /\ corpus' = c
  /\ UNCHANGED <<store, stream, window, dlq, runVars, auditVars, history>>

Next ==
  \/ StartRun \/ PublishWinner \/ CorpusDone \/ RunDone \/ Census
  \/ StartAudit \/ AskLetters \/ AuditDone \/ AuditFails
  \/ \E d \in todo : ReadLessons(d)
  \/ \E b \in todo : PublishBackfill(b) \/ RefuseBackfill(b)
  \/ \E killed \in BOOLEAN : RunFails(killed)
  \/ \E k \in audit.left : AuditKey(k)
  \/ \E m \in stream : Ingest(m) \/ DeadLetter(m) \/ Lose(m)
  \/ \E k \in OfCorpus, l \in Lessons : OtherWrite(k, l)
  \/ \E x \in window : Forget(x)
  \/ \E c \in Corpora : Edit(c)

Spec == Init /\ [][Next]_vars

-----------------------------------------------------------------------------
(***************************************************************************)
(* Properties.                                                             *)
(***************************************************************************)
\* pipeline.py, "Accounting invariant: walked == published + skipped + unparseable":
\* in every report that is written, each walked document is in exactly one list,
\* whatever collided, was too large or changed on disk meanwhile.
EveryDocumentOnce ==
  report # None =>
    /\ report.walked = report.published \cup report.skipped \cup report.bad
    /\ Cardinality(report.walked)
         = Cardinality(report.published) + Cardinality(report.skipped) + Cardinality(report.bad)

\* publisher.py, "the vanishing-publish fix": what JetStream acknowledged is on its
\* way, stored, dead-lettered, or lost by the relay; a publish dropped as a duplicate
\* is always covered by an earlier episode of the same record.
NothingVanishes ==
  \A k \in sent :
    \/ Recorded(k) \/ EpisodeId(k) \in dlq \/ k \in lost
    \/ \E m \in stream : m.id = k

\* _preserve_existing_lessons: no episode of the corpus nulls lessons that are stored,
\* through reruns, redeliveries and edits, unless they were stored after the pipeline
\* had read the record and before its episode was settled.
LessonsKept ==
  [][\A k \in OfCorpus :
       Recorded(k) /\ store[k].pay.lessons # None /\ store'[k].pay.lessons = None
         => k \in raced]_store

\* __main__.py, "Re-running after interruption is safe": over an unchanged checkout,
\* any number of complete and interrupted runs with duplicated, late and reordered
\* deliveries changes a record at most once.
RerunIsIdempotent ==
  count.edits = 0 /\ count.writes = 0 =>
    \A k \in OfCorpus :
      Recorded(k) => store[k].version <= seeded[k] + 1

\* audit.py, "no episode is unaccounted for", while the relay goes on: a key of the
\* report that an audit does not list as missing is stored or dead-lettered; and it lists
\* none that was stored when it began, and none whose letter was among those it read.  A
\* letter that was there and that the drain left behind is not covered.
AuditIsExact ==
  /\ \A k \in audit.keys \ (audit.left \cup audit.missing) :
       Recorded(k) \/ EpisodeId(k) \in dlq
  /\ audit.missing \cap settled = {}
  /\ \A k \in audit.missing : EpisodeId(k) \notin audit.loaded

=============================================================================
