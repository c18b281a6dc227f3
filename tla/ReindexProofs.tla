---------------------------- MODULE ReindexProofs ----------------------------
(***************************************************************************)
(* Proofs about Reindex, for any ids, checkouts, backfills, stores and     *)
(* lessons, and any bounds on runs and events.                             *)
(***************************************************************************)
EXTENDS Reindex, FiniteSetTheorems, TLAPS

Tallies ==
  [walked : SUBSET Document, published : SUBSET Document, skipped : SUBSET Document,
   bad : SUBSET Document]

Letters == {EpisodeId(k) : k \in Ids}

Audits ==
  [phase : {"idle", "run", "ask"}, keys : SUBSET Ids, left : SUBSET Ids, key : Ids \cup {None},
   loaded : (SUBSET Letters) \cup {None}, missing : SUBSET Ids]

ReindexType ==
  /\ corpus \in Corpora
  /\ store \in [Ids -> [pay : Payload, version : Nat] \cup {None}]
  /\ stream \subseteq Payload
  /\ phase \in {"idle", "read", "send", "backfill"}
  /\ tally \in Tallies
  /\ report \in Tallies \cup {None}
  /\ audit \in Audits
  /\ settled \subseteq Ids
  /\ dlq \subseteq Letters
  /\ count \in [runs : Nat, edits : Nat, writes : Nat, again : Nat]
  /\ sent \subseteq Ids
  /\ seeded \in [Ids -> Nat]

\* The payload being published is that of a task still on the list.
HoldOK ==
  IF phase = "send"
    THEN /\ hold \in [doc : Document, pay : Payload]
         /\ hold.doc \in todo /\ hold.pay.id = hold.doc.id
    ELSE hold = None

\* Each walked document is on one list of the report or still to be published.
Accounted(lists, pending) ==
  /\ IsFiniteSet(lists.walked)
  /\ lists.walked = lists.published \cup lists.skipped \cup lists.bad \cup pending
  /\ lists.published \cap lists.skipped = {} /\ lists.published \cap lists.bad = {}
  /\ lists.skipped \cap lists.bad = {}
  /\ pending \cap (lists.published \cup lists.skipped \cup lists.bad) = {}

TallyOK ==
  /\ phase \in {"read", "send"} => todo \subseteq Winners /\ Accounted(tally, todo)
  /\ phase = "backfill" => todo \subseteq UNION Backfills /\ Accounted(tally, {})
  /\ report # None => Accounted(report, {})

\* What JetStream remembers is covered, like what it acknowledged.
Covered(k) ==
  Recorded(k) \/ EpisodeId(k) \in dlq \/ k \in lost \/ \E m \in stream : m.id = k
WindowOK == \A k \in Ids : EpisodeId(k) \in window => Covered(k)

\* Over an unchanged checkout every episode of a record is the same, and the record has
\* changed at most to that.
Target(k) == Preserved(ParsedPayload(Deepest(Claims(k))))
Settling(k) ==
  /\ \A m \in stream : m.id = k => m = Target(k)
  /\ hold # None /\ hold.pay.id = k => hold.pay = Target(k)
  /\ Recorded(k) => \/ store[k].version <= seeded[k]
                    \/ /\ store[k].version = seeded[k] + 1
                       /\ store[k].pay = Target(k) /\ store[k].pay.id = k
SettlingOK == count.edits = 0 /\ count.writes = 0 => \A k \in OfCorpus : Settling(k)

\* With lessons stored, an episode without them is on its way only after a race.
LessonsOK ==
  \A k \in OfCorpus :
    Recorded(k) /\ store[k].pay.lessons # None /\ k \notin raced => ~BareInFlight(k, stream)

\* The dead letters an audit read are dead letters; it asks for them once, before it has
\* found anything missing, for a key that was not stored when it began.
AuditOK ==
  /\ audit.loaded # None => audit.loaded \subseteq dlq
  /\ audit.loaded = None => audit.missing = {}
  /\ \A k \in settled : Recorded(k)
  /\ audit.phase = "ask" =>
       audit.key \in audit.left /\ audit.key \notin settled /\ audit.loaded = None
  /\ AuditIsExact

ReindexInv ==
  /\ ReindexType /\ HoldOK /\ TallyOK /\ WindowOK /\ NothingVanishes /\ SettlingOK
  /\ LessonsOK /\ AuditOK

-----------------------------------------------------------------------------
(***************************************************************************)
(* The walk.                                                               *)
(***************************************************************************)
\* A finite set of documents has a deepest one: the smallest subset without one would
\* have it after all.
LEMMA HasDeepest ==
  ASSUME NEW S \in SUBSET Document, IsFiniteSet(S), S # {}
  PROVE  Deepest(S) \in S
  <1> DEFINE Deep(U) == \E d \in U : \A e \in U : e.path <= d.path
             T == {U \in SUBSET S : U # {} /\ ~Deep(U)}
             R == StrictSubsetOrdering(S)
  <1>1. T = {}
    <2> SUFFICES ASSUME T # {} PROVE FALSE
      OBVIOUS
    <2>1. IsWellFoundedOn(R, FiniteSubsetsOf(S)) /\ T \subseteq FiniteSubsetsOf(S)
      BY FS_StrictSubsetOrderingWellFounded, FS_FiniteSubsetsOfFinite
    <2>2. PICK U \in T : \A V \in T : ~(<<V, U>> \in R)
      <3> HIDE DEF T, R
      <3> QED
        BY <2>1, WFMin
    <2>3. PICK x \in U : TRUE
      OBVIOUS
    <2>4. U \ {x} \notin T
      BY <2>2, <2>3 DEF StrictSubsetOrdering
    <2>5. \A d \in U : d.path \in Nat
      BY DEF Document
    <2>6. CASE U \ {x} = {}
      BY <2>3, <2>5, <2>6
    <2>7. CASE Deep(U \ {x})
      <3>1. PICK m \in U \ {x} : \A e \in U \ {x} : e.path <= m.path
        BY <2>7
      <3>2. CASE x.path <= m.path
        <4>1. \A e \in U : e.path <= m.path
          BY <3>1, <3>2
        <4>2. QED
          BY <3>1, <4>1
      <3>3. CASE ~(x.path <= m.path)
        <4>1. \A e \in U : e.path <= x.path
          BY <2>3, <2>5, <3>1, <3>3
        <4>2. QED
          BY <2>3, <4>1
      <3>4. QED
        BY <3>2, <3>3
    <2>8. QED
      BY <2>4, <2>6, <2>7
  <1>2. Deep(S)
    BY <1>1
  <1>3. QED
    BY <1>2 DEF Deepest

LEMMA CorpusType ==
  ASSUME corpus \in Corpora
  PROVE  corpus \subseteq Document /\ IsFiniteSet(corpus)
  BY ReindexAssumption

\* Every winner is an uncontested task, and the deepest of those that claim its id.
LEMMA WinnersAreDeepest ==
  ASSUME corpus \in Corpora, NEW d \in Winners
  PROVE  /\ d \in Classified("ok") \ Contested /\ d \in Document
         /\ d = Deepest(Claims(d.id))
  <1>1. PICK e \in Classified("ok") \ Contested : d = Deepest(Claims(e.id))
    BY DEF Winners
  <1>2. Claims(e.id) \subseteq corpus /\ e \in Claims(e.id)
    BY <1>1 DEF Claims, Classified
  <1>3. IsFiniteSet(Claims(e.id)) /\ Claims(e.id) \in SUBSET Document
    BY <1>2, CorpusType, FS_Subset
  <1>4. d \in Claims(e.id)
    BY <1>1, <1>2, <1>3, HasDeepest
  <1>5. d.id = e.id /\ d \in Classified("ok") /\ d \in Document
    BY <1>3, <1>4 DEF Claims
  <1>6. \A f \in Claims(e.id) : f.title = e.title
    BY <1>1 DEF Contested
  <1>7. d \notin Contested
    BY <1>4, <1>5, <1>6 DEF Contested
  <1>8. QED
    BY <1>1, <1>5, <1>7

\* After the walk, what is not skipped or unparseable is to be published.
LEMMA WalkIsAccounted ==
  ASSUME corpus \in Corpora
  PROVE  /\ Walked \in Tallies /\ Accounted(Walked, Winners)
         /\ [Walked EXCEPT !.published = Winners] \in Tallies
         /\ Accounted([Walked EXCEPT !.published = Winners], {})
  <1> DEFINE K == Classified("skip")
             B == Classified("bad")
             O == Classified("ok")
  <1>1. /\ K \subseteq corpus /\ B \subseteq corpus /\ O \subseteq corpus
        /\ corpus = K \cup B \cup O
    BY CorpusType DEF Classified, Document
  <1>2. K \cap B = {} /\ K \cap O = {} /\ B \cap O = {}
    BY DEF Classified
  <1>3. Winners \subseteq O \ Contested
    BY WinnersAreDeepest
  <1>4. Contested \subseteq O
    BY DEF Contested
  <1> HIDE DEF K, B, O
  <1>5. O = Contested \cup Shadowed \cup Winners /\ Shadowed \cap Winners = {}
        /\ Shadowed \subseteq O
    BY <1>3, <1>4 DEF Shadowed, O
  <1> DEFINE X == K \cup Contested \cup Shadowed
  <1>6. Walked = [walked |-> corpus, published |-> {}, bad |-> B, skipped |-> X]
    BY DEF Walked, K, B
  <1>7. /\ corpus = X \cup B \cup Winners
        /\ X \cap B = {} /\ X \cap Winners = {} /\ B \cap Winners = {}
    BY <1>1, <1>2, <1>3, <1>4, <1>5
  <1>8. X \subseteq Document /\ B \subseteq Document /\ Winners \subseteq Document
    BY <1>7, CorpusType
  <1> HIDE DEF X
  <1>9. Walked \in Tallies /\ Accounted(Walked, Winners)
    BY <1>6, <1>7, <1>8, CorpusType DEF Tallies, Accounted
  <1>10. [Walked EXCEPT !.published = Winners]
           = [walked |-> corpus, published |-> Winners, bad |-> B, skipped |-> X]
    BY <1>6
  <1>11. QED
    BY <1>7, <1>8, <1>9, <1>10, CorpusType DEF Tallies, Accounted

\* The walk depends on the checkout only.
LEMMA SameCorpus ==
  ASSUME UNCHANGED corpus
  PROVE  Winners' = Winners /\ \A k : Claims(k)' = Claims(k)
  BY DEF Winners, Claims, Contested, Classified

LEMMA SameTarget ==
  ASSUME UNCHANGED <<corpus, store>>
  PROVE  \A k : Target(k)' = Target(k)
  BY SameCorpus DEF Target, Preserved, ParsedPayload

-----------------------------------------------------------------------------
LEMMA InitInv == Init => ReindexInv
  <1> SUFFICES ASSUME Init PROVE ReindexInv
    OBVIOUS
  <1>1. store \in [Ids -> [pay : Payload, version : Nat] \cup {None}]
    BY ReindexAssumption DEF Init
  <1>2. seeded \in [Ids -> Nat]
    BY <1>1 DEF Init
  <1>a. NoTally \in Tallies
    BY DEF NoTally, Tallies
  <1>b. NoAudit \in Audits
    BY DEF NoAudit, Audits
  <1>3. ReindexType
    BY <1>1, <1>2, <1>a, <1>b DEF Init, ReindexType
  <1>4. HoldOK /\ TallyOK /\ WindowOK /\ NothingVanishes
    BY DEF Init, HoldOK, TallyOK, WindowOK, NothingVanishes
  <1>5. \A k \in Ids : Recorded(k) => store[k].version <= seeded[k]
    BY <1>1 DEF Init, Recorded
  <1>6. SettlingOK
    BY <1>5 DEF Init, SettlingOK, Settling, OfCorpus
  <1>7. LessonsOK /\ AuditOK
    BY DEF Init, LessonsOK, BareInFlight, AuditOK, NoAudit, AuditIsExact
  <1>8. QED
    BY <1>3, <1>4, <1>6, <1>7 DEF ReindexInv

-----------------------------------------------------------------------------
(***************************************************************************)
(* The operators the actions share.                                        *)
(***************************************************************************)
LEMMA EpisodeIdsDiffer == \A j, k : EpisodeId(j) = EpisodeId(k) => j = k
  BY DEF EpisodeId

\* A publish, dropped as a duplicate or not, leaves the record covered.
LEMMA PublishCovers ==
  ASSUME ReindexInv, NEW pay \in Payload, Publish(pay), UNCHANGED <<store, dlq, lost>>
  PROVE  /\ stream' \subseteq Payload /\ sent' \subseteq Ids
         /\ stream \subseteq stream' /\ \A m \in stream' : m \in stream \/ m = pay
         /\ WindowOK' /\ NothingVanishes'
  <1>1. /\ stream' \subseteq Payload /\ sent' \subseteq Ids /\ pay.id \in Ids
        /\ stream \subseteq stream' /\ \A m \in stream' : m \in stream \/ m = pay
    BY DEF Publish, ReindexInv, ReindexType, Payload
  <1>2. \A k \in Ids : Covered(k) => Covered(k)'
    BY <1>1 DEF Covered, Recorded
  <1>3. Covered(pay.id)'
    <2>1. CASE EpisodeId(pay.id) \in window
      BY <1>1, <1>2, <2>1 DEF ReindexInv, WindowOK
    <2>2. CASE EpisodeId(pay.id) \notin window
      BY <2>2 DEF Publish, Covered
    <2>3. QED
      BY <2>1, <2>2
  <1>4. \A k \in Ids : EpisodeId(k) \in window' => EpisodeId(k) \in window \/ k = pay.id
    BY EpisodeIdsDiffer DEF Publish
  <1>5. WindowOK'
    BY <1>1, <1>2, <1>3, <1>4 DEF WindowOK, ReindexInv
  <1>6. \A k \in sent' : k \in Ids /\ (k \in sent \/ k = pay.id)
    BY <1>1 DEF Publish
  <1>7. \A k \in sent : Covered(k)
    BY DEF ReindexInv, NothingVanishes, Covered
  <1>8. \A k \in sent' : Covered(k)'
    BY <1>2, <1>3, <1>6, <1>7
  <1>9. NothingVanishes'
    BY <1>8 DEF NothingVanishes, Covered
  <1>10. QED
    BY <1>1, <1>5, <1>9

\* DeterministicWriter.write, as the pipeline sees it.
LEMMA UpsertWrites ==
  ASSUME ReindexType, NEW pay \in Payload, Upsert(pay)
  PROVE  /\ store' \in [Ids -> [pay : Payload, version : Nat] \cup {None}]
         /\ \A k \in Ids : k # pay.id => store'[k] = store[k]
         /\ store'[pay.id] # None /\ store'[pay.id].pay = pay
         /\ IF store[pay.id] = None THEN store'[pay.id].version = 1
            ELSE IF store[pay.id].pay = pay THEN store'[pay.id] = store[pay.id]
            ELSE store'[pay.id].version = store[pay.id].version + 1
  <1> DEFINE k == pay.id
             old == store[k]
             new == IF old = None THEN [pay |-> pay, version |-> 1]
                    ELSE IF old.pay = pay THEN old
                    ELSE [pay |-> pay, version |-> old.version + 1]
  <1>0. k \in Ids
    BY DEF Payload
  <1>1. store' = [store EXCEPT ![k] = new]
    BY DEF Upsert
  <1>2. old = None \/ old \in [pay : Payload, version : Nat]
    BY <1>0 DEF ReindexType
  <1>3. new \in [pay : Payload, version : Nat]
    BY <1>2
  <1>4. new.pay = pay
    BY <1>2
  <1>5. new # None
    BY <1>3, ReindexAssumption
  <1>6. /\ store'[k] = new /\ \A j \in Ids : j # k => store'[j] = store[j]
        /\ store' \in [Ids -> [pay : Payload, version : Nat] \cup {None}]
    BY <1>0, <1>1, <1>3 DEF ReindexType
  <1>7. IF old = None THEN new.version = 1
        ELSE IF old.pay = pay THEN new = old ELSE new.version = old.version + 1
    OBVIOUS
  <1> HIDE DEF new
  <1>8. QED
    BY <1>4, <1>5, <1>6, <1>7

LEMMA PreservedIsPayload ==
  ASSUME ReindexType, NEW d \in Document
  PROVE  /\ Preserved(ParsedPayload(d)) \in Payload
         /\ Preserved(ParsedPayload(d)).id = d.id
         /\ Recorded(d.id) /\ store[d.id].pay.lessons # None
              => Preserved(ParsedPayload(d)).lessons # None
  <1> DEFINE p == ParsedPayload(d)
  <1>1. p \in Payload /\ p.id = d.id
    BY DEF ParsedPayload, Payload, Document
  <1>2. store[d.id] = None \/ store[d.id] \in [pay : Payload, version : Nat]
    BY <1>1 DEF ReindexType, Payload
  <1> HIDE DEF p
  <1>3. CASE p.lessons = None /\ store[p.id] # None
    <2>1. store[p.id].pay.lessons \in Lessons \cup {None}
      BY <1>1, <1>2, <1>3 DEF Payload
    <2>2. Preserved(p) = [p EXCEPT !.lessons = store[p.id].pay.lessons]
      BY <1>3 DEF Preserved
    <2>3. QED
      BY <1>1, <2>1, <2>2 DEF p, Payload
  <1>4. CASE ~(p.lessons = None /\ store[p.id] # None)
    BY <1>1, <1>4 DEF Preserved, p, Recorded
  <1>5. QED
    BY <1>3, <1>4

-----------------------------------------------------------------------------
(***************************************************************************)
(* The steps of a publish run.                                             *)
(***************************************************************************)
\* A step that leaves the store, the stream and the dead letters alone.
LEMMA RelayFrame ==
  ASSUME ReindexInv, UNCHANGED <<store, stream, window, dlq, auditVars, history>>
  PROVE  WindowOK' /\ NothingVanishes' /\ AuditOK'
  <1>1. UNCHANGED <<store, stream, window, dlq, audit, settled, sent, lost, raced, seeded>>
    BY DEF auditVars, history
  <1>2. QED
    BY <1>1 DEF ReindexInv, WindowOK, Covered, NothingVanishes, Recorded, AuditOK, AuditIsExact

\* A step that leaves the stored lessons, the stream and the checkout alone and holds no
\* new payload.
LEMMA HoldFrame ==
  ASSUME ReindexInv, UNCHANGED <<corpus, store, stream, history>>, hold' = hold \/ hold' = None,
         count'.edits = count.edits, count'.writes = count.writes
  PROVE  SettlingOK' /\ LessonsOK'
  <1>1. UNCHANGED <<corpus, store, stream, sent, lost, raced, seeded>>
    BY DEF history
  <1>2. SettlingOK'
    BY <1>1, SameTarget DEF ReindexInv, SettlingOK, Settling, Recorded
  <1>3. LessonsOK'
    BY <1>1 DEF ReindexInv, LessonsOK, BareInFlight, Recorded
  <1>4. QED
    BY <1>2, <1>3

LEMMA StartRunStep ==
  ASSUME ReindexInv, StartRun
  PROVE  ReindexInv'
  <1>1. /\ UNCHANGED <<corpus, store, stream, window, dlq, hold, report, auditVars, history>>
        /\ phase = "idle" /\ phase' = "read" /\ tally' = Walked /\ todo' = Winners
        /\ count' = [count EXCEPT !.runs = @ + 1]
    BY DEF StartRun
  <1>2. count' \in [runs : Nat, edits : Nat, writes : Nat, again : Nat]
        /\ count'.edits = count.edits /\ count'.writes = count.writes
    BY <1>1 DEF ReindexInv, ReindexType
  <1>3. ReindexType'
    BY <1>1, <1>2, WalkIsAccounted DEF ReindexInv, ReindexType, auditVars, history
  <1>4. HoldOK'
    BY <1>1 DEF ReindexInv, HoldOK
  <1>5. TallyOK'
    BY <1>1, SameCorpus, WalkIsAccounted DEF ReindexInv, TallyOK, ReindexType
  <1>6. QED
    BY <1>1, <1>2, <1>3, <1>4, <1>5, RelayFrame, HoldFrame DEF ReindexInv

LEMMA ReadLessonsStep ==
  ASSUME ReindexInv, NEW d \in todo, ReadLessons(d)
  PROVE  ReindexInv'
  <1> DEFINE p == Preserved(ParsedPayload(d))
  <1>1. /\ UNCHANGED <<corpus, store, stream, window, dlq, todo, tally, report, auditVars,
                       count, history>>
        /\ UNCHANGED <<audit, settled, sent, lost, raced, seeded>>
        /\ phase = "read" /\ phase' = "send" /\ hold' = [doc |-> d, pay |-> p]
    BY DEF ReadLessons, auditVars, history
  <1>2. d \in Winners
    BY <1>1 DEF ReindexInv, TallyOK
  <1>3. d \in Document /\ d = Deepest(Claims(d.id))
    BY <1>2, WinnersAreDeepest DEF ReindexInv, ReindexType
  <1>4. /\ p \in Payload /\ p.id = d.id
        /\ Recorded(d.id) /\ store[d.id].pay.lessons # None => p.lessons # None
    BY <1>3, PreservedIsPayload DEF ReindexInv
  <1>5. p = Target(d.id)
    BY <1>3 DEF Target
  <1> HIDE DEF p
  <1>6. ReindexType' /\ TallyOK'
    BY <1>1, SameCorpus DEF ReindexInv, ReindexType, TallyOK
  <1>7. HoldOK'
    BY <1>1, <1>3, <1>4 DEF HoldOK
  <1>8. hold'.pay = p
    BY <1>1
  <1>9. SettlingOK'
    BY <1>1, <1>4, <1>5, <1>8, SameTarget DEF ReindexInv, SettlingOK, Settling, Recorded
  <1>10. LessonsOK'
    BY <1>1, <1>4, <1>8 DEF ReindexInv, LessonsOK, BareInFlight, Recorded
  <1>11. QED
    BY <1>1, <1>6, <1>7, <1>9, <1>10, RelayFrame DEF ReindexInv

\* The stream may gain an episode that is held already, or is of no interest to the corpus.
LEMMA PublishFrame ==
  ASSUME ReindexInv, NEW pay \in Payload, \A m \in stream' : m \in stream \/ m = pay,
         UNCHANGED <<corpus, store, count, raced, seeded>>, hold' = None,
         pay.id \in OfCorpus => hold # None /\ hold.pay = pay
  PROVE  SettlingOK' /\ LessonsOK'
  <1>1. SettlingOK'
    BY SameTarget DEF ReindexInv, SettlingOK, Settling, Recorded
  <1>2. LessonsOK'
    BY DEF ReindexInv, LessonsOK, BareInFlight, Recorded
  <1>3. QED
    BY <1>1, <1>2

LEMMA AuditFrame ==
  ASSUME ReindexInv, UNCHANGED <<store, dlq, audit, settled>>
  PROVE  AuditOK'
  BY DEF ReindexInv, AuditOK, AuditIsExact, Recorded

LEMMA PublishWinnerStep ==
  ASSUME ReindexInv, PublishWinner
  PROVE  ReindexInv'
  <1> DEFINE d == hold.doc
  <1>1. /\ UNCHANGED <<corpus, store, dlq, report, audit, settled, count, lost, raced, seeded>>
        /\ phase = "send" /\ phase' = "read" /\ todo' = todo \ {d} /\ hold' = None
    BY DEF PublishWinner, auditVars
  <1>2. /\ hold \in [doc : Document, pay : Payload] /\ d \in todo /\ d \in Document
    BY <1>1 DEF ReindexInv, HoldOK
  <1>3. hold # None /\ hold.pay \in Payload
    BY <1>2, ReindexAssumption
  <1>4. /\ tally \in Tallies /\ Accounted(tally, todo)
    BY <1>1 DEF ReindexInv, ReindexType, TallyOK
  <1>5. \/ tally' = [tally EXCEPT !.skipped = @ \cup {d}]
        \/ tally' = [tally EXCEPT !.published = @ \cup {d}]
    BY DEF PublishWinner
  <1> HIDE DEF d
  <1>6. tally' \in Tallies /\ Accounted(tally', todo')
    BY <1>1, <1>2, <1>4, <1>5 DEF Tallies, Accounted
  <1>7. HoldOK' /\ TallyOK'
    BY <1>1, <1>6, SameCorpus DEF ReindexInv, HoldOK, TallyOK
  <1>8. /\ stream' \subseteq Payload /\ sent' \subseteq Ids
        /\ \A m \in stream' : m \in stream \/ m = hold.pay
        /\ WindowOK' /\ NothingVanishes'
    <2>1. CASE Publish(hold.pay)
      BY <1>1, <1>3, <2>1, PublishCovers
    <2>2. CASE UNCHANGED <<stream, window, sent>>
      BY <1>1, <2>2 DEF ReindexInv, ReindexType, WindowOK, Covered, NothingVanishes, Recorded
    <2>3. QED
      BY <2>1, <2>2 DEF PublishWinner
  <1>9. ReindexType'
    BY <1>1, <1>6, <1>8 DEF ReindexInv, ReindexType
  <1>10. SettlingOK' /\ LessonsOK'
    BY <1>1, <1>3, <1>8, PublishFrame
  <1>11. QED
    BY <1>1, <1>7, <1>8, <1>9, <1>10, AuditFrame DEF ReindexInv

LEMMA CorpusDoneStep ==
  ASSUME ReindexInv, CorpusDone
  PROVE  ReindexInv'
  <1>1. /\ UNCHANGED <<corpus, store, stream, window, dlq, hold, tally, report, auditVars,
                       count, history>>
        /\ UNCHANGED <<audit, settled, sent, lost, raced, seeded>>
        /\ phase = "read" /\ todo = {} /\ phase' = "backfill" /\ todo' \in Backfills
    BY DEF CorpusDone, auditVars, history
  <1>2. ReindexType' /\ HoldOK' /\ TallyOK'
    BY <1>1, SameCorpus DEF ReindexInv, ReindexType, HoldOK, TallyOK
  <1>3. QED
    BY <1>1, <1>2, RelayFrame, HoldFrame DEF ReindexInv

LEMMA PublishBackfillStep ==
  ASSUME ReindexInv, NEW b \in todo, PublishBackfill(b)
  PROVE  ReindexInv'
  <1> DEFINE pay == [id |-> b.id, src |-> b.src, lessons |-> b.lessons]
  <1>1. /\ UNCHANGED <<corpus, store, dlq, phase, hold, tally, report, audit, settled, count,
                       lost, raced, seeded>>
        /\ phase = "backfill" /\ todo' = todo \ {b} /\ Publish(pay)
    BY DEF PublishBackfill, auditVars
  <1>2. b \in UNION Backfills
    BY <1>1 DEF ReindexInv, TallyOK
  <1>3. pay \in Payload /\ pay.id \notin OfCorpus
    BY <1>2, ReindexAssumption DEF OfCorpus
  <1> HIDE DEF pay
  <1>4. /\ stream' \subseteq Payload /\ sent' \subseteq Ids
        /\ \A m \in stream' : m \in stream \/ m = pay
        /\ WindowOK' /\ NothingVanishes'
    BY <1>1, <1>3, PublishCovers
  <1>5. ReindexType'
    BY <1>1, <1>4 DEF ReindexInv, ReindexType
  <1>6. HoldOK' /\ TallyOK' /\ hold' = None
    BY <1>1, SameCorpus DEF ReindexInv, HoldOK, TallyOK
  <1>7. SettlingOK' /\ LessonsOK'
    BY <1>1, <1>3, <1>4, <1>6, PublishFrame
  <1>8. QED
    BY <1>1, <1>4, <1>5, <1>6, <1>7, AuditFrame DEF ReindexInv

\* The run ends, with a report only after the whole corpus.
LEMMA EndRunStep ==
  ASSUME ReindexInv, NEW written \in BOOLEAN, EndRun(written), written => phase = "backfill",
         UNCHANGED <<corpus, store, stream, window, dlq, auditVars, count, history>>
  PROVE  ReindexInv'
  <1>1. /\ phase' = "idle" /\ todo' = {} /\ hold' = None /\ tally' = NoTally
        /\ report' = report \/ (report' = tally /\ phase = "backfill")
    BY DEF EndRun
  <1>2. NoTally \in Tallies
    BY DEF NoTally, Tallies
  <1>3. ReindexType'
    BY <1>1, <1>2 DEF ReindexInv, ReindexType, auditVars, history
  <1>4. HoldOK' /\ TallyOK'
    BY <1>1 DEF ReindexInv, HoldOK, TallyOK
  <1>5. QED
    BY <1>1, <1>3, <1>4, RelayFrame, HoldFrame DEF ReindexInv

LEMMA CensusStep ==
  ASSUME ReindexInv, Census
  PROVE  ReindexInv'
  <1>1. /\ UNCHANGED <<corpus, store, stream, window, dlq, phase, todo, hold, tally, auditVars,
                       count, history>>
        /\ UNCHANGED <<audit, settled, sent, lost, raced, seeded>>
        /\ phase = "idle" /\ report' = [Walked EXCEPT !.published = Winners]
    BY DEF Census, auditVars, history
  <1>2. report' \in Tallies /\ Accounted(report', {})
    BY <1>1, WalkIsAccounted DEF ReindexInv, ReindexType
  <1>3. ReindexType' /\ HoldOK' /\ TallyOK'
    BY <1>1, <1>2 DEF ReindexInv, ReindexType, HoldOK, TallyOK
  <1>4. QED
    BY <1>1, <1>3, RelayFrame, HoldFrame DEF ReindexInv

-----------------------------------------------------------------------------
(***************************************************************************)
(* The steps of an audit.                                                  *)
(***************************************************************************)
\* An audit changes nothing but its own bookkeeping.
LEMMA BystanderFrame ==
  ASSUME ReindexInv, UNCHANGED <<corpus, store, stream, window, dlq, runVars, count, history>>
  PROVE  HoldOK' /\ TallyOK' /\ WindowOK' /\ NothingVanishes' /\ SettlingOK' /\ LessonsOK'
  <1>1. UNCHANGED <<corpus, store, stream, window, dlq, phase, todo, hold, tally, report, count,
                    sent, lost, raced, seeded>>
    BY DEF runVars, history
  <1>2. HoldOK' /\ TallyOK'
    BY <1>1, SameCorpus DEF ReindexInv, HoldOK, TallyOK
  <1>3. WindowOK' /\ NothingVanishes'
    BY <1>1 DEF ReindexInv, WindowOK, Covered, NothingVanishes, Recorded
  <1>4. SettlingOK' /\ LessonsOK'
    BY <1>1, HoldFrame DEF history
  <1>5. QED
    BY <1>2, <1>3, <1>4

LEMMA AuditStep ==
  ASSUME ReindexInv,
         \/ StartAudit \/ AskLetters \/ AuditDone \/ AuditFails
         \/ \E k \in audit.left : AuditKey(k)
  PROVE  ReindexInv'
  <1>1. /\ UNCHANGED <<corpus, store, stream, window, dlq, runVars, count, history>>
        /\ UNCHANGED <<corpus, store, stream, window, dlq, phase, todo, hold, tally, report,
                       count, sent, lost, raced, seeded>>
    BY DEF StartAudit, AskLetters, AuditDone, AuditFails, AuditKey, runVars, history
  <1>2. NoAudit \in Audits
    BY DEF NoAudit, Audits
  <1>3. audit \in Audits /\ settled \subseteq Ids /\ dlq \subseteq Letters
    BY DEF ReindexInv, ReindexType
  <1>4. audit' \in Audits /\ settled' \subseteq Ids /\ AuditOK'
    <2>1. CASE StartAudit
      <3> DEFINE keys == {d.id : d \in report.published}
      <3>1. /\ audit' = [NoAudit EXCEPT !.phase = "run", !.keys = keys, !.left = keys]
            /\ settled' = {k \in keys : Recorded(k)}
        BY <2>1 DEF StartAudit
      <3>2. keys \subseteq Ids
        BY <2>1 DEF StartAudit, ReindexInv, ReindexType, Tallies, Document
      <3>3. /\ audit' \in Audits /\ audit'.loaded = None /\ audit'.keys = keys
            /\ audit'.left = keys /\ audit'.missing = {} /\ audit'.phase = "run"
        BY <3>1, <3>2 DEF NoAudit, Audits
      <3>4. settled' \subseteq Ids /\ \A k \in settled' : Recorded(k)
        BY <3>1, <3>2
      <3> HIDE DEF keys
      <3>5. QED
        BY <1>1, <3>3, <3>4 DEF AuditOK, AuditIsExact, Recorded
    <2>2. CASE AuditDone \/ AuditFails
      BY <1>1, <1>2, <2>2 DEF AuditDone, AuditFails, AuditOK, AuditIsExact, NoAudit
    <2>3. ASSUME NEW k \in Ids, NEW letters \in SUBSET dlq, CheckLetters(k, letters),
                 settled' = settled, k \notin settled,
                 \A j \in audit.missing : EpisodeId(j) \notin letters
          PROVE  audit' \in Audits /\ AuditOK'
      <3> DEFINE gone == IF EpisodeId(k) \in letters THEN audit.missing
                         ELSE audit.missing \cup {k}
      <3>1. gone \subseteq Ids /\ letters \subseteq Letters
        BY <1>3, <2>3 DEF Audits
      <3>2. /\ audit' \in Audits /\ audit'.left = audit.left \ {k}
            /\ audit'.keys = audit.keys /\ audit'.missing = gone
            /\ audit'.loaded = letters /\ audit'.phase = "run"
        BY <1>3, <2>3, <3>1 DEF CheckLetters, DlqId, Audits
      <3>3. gone \cap settled = {} /\ \A j \in gone : EpisodeId(j) \notin letters
        BY <2>3 DEF ReindexInv, AuditOK, AuditIsExact
      <3>4. \A j \in audit.keys \ (audit'.left \cup gone) : Recorded(j) \/ EpisodeId(j) \in dlq
        BY <2>3, <3>2 DEF ReindexInv, AuditOK, AuditIsExact
      <3>5. letters # None
        BY <1>3, <2>3, ReindexAssumption DEF ReindexAssumption, Letters, EpisodeId
      <3>6. \A j \in settled : Recorded(j)
        BY DEF ReindexInv, AuditOK
      <3> HIDE DEF gone
      <3>7. QED
        BY <1>1, <2>3, <3>2, <3>3, <3>4, <3>5, <3>6 DEF AuditOK, AuditIsExact, Recorded
    <2>4. ASSUME NEW k \in audit.left, AuditKey(k)
          PROVE  audit' \in Audits /\ settled' \subseteq Ids /\ AuditOK'
      <3>1. settled' = settled /\ k \in Ids
        BY <1>3, <2>4 DEF AuditKey, Audits
      <3>2. CASE Recorded(k) /\ audit.phase = "run" /\ audit' = [audit EXCEPT !.left = @ \ {k}]
        <4>1. /\ audit' \in Audits /\ audit'.left = audit.left \ {k}
              /\ audit'.keys = audit.keys /\ audit'.missing = audit.missing
              /\ audit'.loaded = audit.loaded /\ audit'.phase = "run"
          BY <1>3, <3>2 DEF Audits
        <4>2. QED
          BY <1>1, <1>3, <3>1, <3>2, <4>1 DEF ReindexInv, AuditOK, AuditIsExact, Recorded
      <3>3. CASE ~Recorded(k) /\ audit.loaded # None /\ CheckLetters(k, audit.loaded)
        <4>1. /\ audit.loaded \in SUBSET dlq /\ k \notin settled
              /\ \A j \in audit.missing : EpisodeId(j) \notin audit.loaded
          BY <3>3 DEF ReindexInv, AuditOK, AuditIsExact
        <4>2. QED
          BY <1>3, <2>3, <3>1, <3>3, <4>1
      <3>4. CASE /\ ~Recorded(k) /\ audit.loaded = None
                 /\ audit' = [audit EXCEPT !.phase = "ask", !.key = k]
        <4>1. /\ audit' \in Audits /\ audit'.left = audit.left
              /\ audit'.keys = audit.keys /\ audit'.missing = audit.missing
              /\ audit'.loaded = audit.loaded /\ audit'.key = k
          BY <1>3, <3>1, <3>4 DEF Audits
        <4>2. k \notin settled
          BY <3>4 DEF ReindexInv, AuditOK
        <4>3. QED
          BY <1>1, <1>3, <2>4, <3>1, <3>4, <4>1, <4>2
             DEF ReindexInv, AuditOK, AuditIsExact, Recorded
      <3>5. QED
        BY <2>4, <3>2, <3>3, <3>4 DEF AuditKey
    <2>5. CASE AskLetters
      <3>1. settled' = settled /\ audit.phase = "ask"
        BY <2>5 DEF AskLetters
      <3>2. /\ audit.key \in Ids /\ audit.key \notin settled /\ audit.missing = {}
        BY <1>3, <3>1 DEF ReindexInv, AuditOK, Audits
      <3>3. PICK letters \in SUBSET dlq : CheckLetters(audit.key, letters)
        BY <2>5 DEF AskLetters
      <3>4. QED
        BY <1>3, <2>3, <3>1, <3>2, <3>3
    <2>6. QED
      BY <2>1, <2>2, <2>4, <2>5
  <1>5. ReindexType'
    BY <1>1, <1>4 DEF ReindexInv, ReindexType
  <1>6. QED
    BY <1>1, <1>4, <1>5, BystanderFrame DEF ReindexInv

-----------------------------------------------------------------------------
(***************************************************************************)
(* The relay, the other writers, the duplicate window and the checkout.    *)
(***************************************************************************)
\* A write adds a record and removes none.
LEMMA WriteFrame ==
  ASSUME ReindexInv, NEW pay \in Payload, Upsert(pay), UNCHANGED <<dlq, lost, window, sent>>,
         UNCHANGED <<audit, settled>>, \A m \in stream : m \in stream' \/ m = pay
  PROVE  WindowOK' /\ NothingVanishes' /\ AuditOK'
  <1>1. pay.id \in Ids
    BY DEF Payload
  <1>2. Recorded(pay.id)' /\ \A k \in Ids : Recorded(k) => Recorded(k)'
    BY <1>1, UpsertWrites DEF ReindexInv, Recorded
  <1>3. \A k \in Ids : Covered(k) => Covered(k)'
    BY <1>2 DEF Covered
  <1>4. WindowOK'
    BY <1>3 DEF ReindexInv, WindowOK
  <1>5. \A k \in sent : k \in Ids /\ Covered(k)
    BY DEF ReindexInv, ReindexType, NothingVanishes, Covered
  <1>6. \A k \in sent' : Covered(k)'
    BY <1>3, <1>5
  <1>7. NothingVanishes'
    BY <1>6 DEF NothingVanishes, Covered
  <1>8. audit.keys \subseteq Ids /\ settled \subseteq Ids
    BY DEF ReindexInv, ReindexType, Audits
  <1>9. AuditIsExact'
    BY <1>2, <1>8 DEF ReindexInv, AuditOK, AuditIsExact
  <1>10. AuditOK'
    BY <1>2, <1>8, <1>9 DEF ReindexInv, AuditOK
  <1>11. QED
    BY <1>4, <1>7, <1>10

\* Lessons that are stored are raced by every bare episode on its way.
LEMMA WriteKeepsLessons ==
  ASSUME ReindexInv, NEW pay \in Payload, Upsert(pay), UNCHANGED hold,
         NEW messages, Race(pay, messages),
         \A m \in stream' : m \in messages \/ m = pay, \A m \in stream' : m \in stream
  PROVE  LessonsOK'
  <1> SUFFICES ASSUME NEW k \in OfCorpus, Recorded(k)', (store[k].pay.lessons # None)',
                      k \notin raced'
               PROVE  ~BareInFlight(k, stream)'
    BY DEF LessonsOK
  <1>0. k \in Ids
    BY DEF OfCorpus
  <1>1. k \notin raced
    BY DEF Race
  <1>2. CASE k # pay.id
    <2>1. store'[k] = store[k]
      BY <1>0, <1>2, UpsertWrites DEF ReindexInv
    <2>2. ~BareInFlight(k, stream)
      BY <1>1, <2>1 DEF ReindexInv, LessonsOK, Recorded
    <2>3. QED
      BY <2>2 DEF BareInFlight
  <1>3. CASE k = pay.id
    <2>1. pay.lessons # None
      BY <1>3, UpsertWrites DEF ReindexInv
    <2>2. ~BareInFlight(k, messages)
      BY <1>3, <2>1 DEF Race
    <2>3. QED
      BY <2>1, <2>2 DEF BareInFlight
  <1>4. QED
    BY <1>2, <1>3

\* Once an episode of a record is stored, the next run makes the same episode of it.
LEMMA TargetStays ==
  ASSUME ReindexInv, NEW pay \in Payload, Upsert(pay), UNCHANGED corpus,
         NEW k \in Ids, Target(k).id = k, k = pay.id => pay = Target(k)
  PROVE  Target(k)' = Target(k)
  <1> DEFINE p == ParsedPayload(Deepest(Claims(k)))
  <1>1. p' = p
    BY SameCorpus DEF ParsedPayload
  <1>2. p = [id |-> p.id, src |-> p.src, lessons |-> p.lessons]
    BY DEF ParsedPayload
  <1>3. Target(k)' = IF p.lessons = None /\ store'[p.id] # None
                       THEN [p EXCEPT !.lessons = store'[p.id].pay.lessons] ELSE p
    BY <1>1 DEF Target, Preserved
  <1>4. Target(k) = IF p.lessons = None /\ store[p.id] # None
                      THEN [p EXCEPT !.lessons = store[p.id].pay.lessons] ELSE p
    BY DEF Target, Preserved
  <1> HIDE DEF p
  <1>5. p.id = k
    BY <1>2, <1>4
  <1>6. CASE k # pay.id
    BY <1>3, <1>4, <1>5, <1>6, UpsertWrites DEF ReindexInv
  <1>7. CASE k = pay.id
    <2>1. store'[k] # None /\ store'[k].pay = Target(k)
      BY <1>7, UpsertWrites DEF ReindexInv
    <2>2. QED
      BY <1>2, <1>3, <1>4, <1>5, <2>1
  <1>8. QED
    BY <1>6, <1>7

LEMMA IngestSettles ==
  ASSUME ReindexInv, NEW pay \in stream, Upsert(pay), UNCHANGED <<corpus, hold, seeded>>,
         stream' \subseteq stream, count'.edits = count.edits, count'.writes = count.writes
  PROVE  SettlingOK'
  <1> SUFFICES ASSUME count.edits = 0, count.writes = 0, NEW k \in OfCorpus
               PROVE  Settling(k)'
    BY DEF SettlingOK, OfCorpus
  <1>1. Settling(k) /\ k \in Ids /\ pay \in Payload /\ ReindexType
    BY DEF ReindexInv, ReindexType, SettlingOK, OfCorpus
  <1>2. k = pay.id => pay = Target(k)
    BY <1>1 DEF Settling
  <1>3. Target(k).id = k => Target(k)' = Target(k)
    BY <1>1, <1>2, TargetStays
  <1>4. \A m \in stream' : m.id = k => m = Target(k)'
    BY <1>1, <1>3 DEF Settling
  <1>5. hold' # None /\ hold'.pay.id = k => hold'.pay = Target(k)'
    BY <1>1, <1>3 DEF Settling
  <1>6. CASE k # pay.id
    <2>1. store'[k] = store[k]
      BY <1>1, <1>6, UpsertWrites
    <2>2. QED
      BY <1>1, <1>3, <1>4, <1>5, <2>1 DEF Settling, Recorded
  <1>7. CASE k = pay.id
    <2>1. store'[k].pay = pay /\ pay = Target(k) /\ pay.id = k
      BY <1>1, <1>2, <1>7, UpsertWrites
    <2>2. store[k] # None => store[k].version \in Nat
      BY <1>1 DEF ReindexType
    <2>3. seeded[k] \in Nat
      BY <1>1 DEF ReindexType
    <2>4. store'[k].version <= seeded[k] \/ store'[k].version = seeded[k] + 1
      BY <1>1, <1>2, <1>7, <2>2, <2>3, UpsertWrites DEF Settling, Recorded
    <2>5. QED
      BY <1>3, <1>4, <1>5, <2>1, <2>4 DEF Settling
  <1>8. QED
    BY <1>6, <1>7

LEMMA IngestStep ==
  ASSUME ReindexInv, NEW m \in stream, Ingest(m)
  PROVE  ReindexInv'
  <1>1. /\ Upsert(m) /\ Race(m, stream \ {m})
        /\ UNCHANGED <<corpus, window, dlq, phase, todo, hold, tally, report, audit, settled,
                       sent, lost, seeded>>
        /\ stream' = stream \/ stream' = stream \ {m}
        /\ count' = count \/ count' = [count EXCEPT !.again = @ + 1]
    BY DEF Ingest, runVars, auditVars
  <1>2. m \in Payload
    BY DEF ReindexInv, ReindexType
  <1>3. /\ count' \in [runs : Nat, edits : Nat, writes : Nat, again : Nat]
        /\ count'.edits = count.edits /\ count'.writes = count.writes
    BY <1>1 DEF ReindexInv, ReindexType
  <1>4. ReindexType'
    BY <1>1, <1>2, <1>3, UpsertWrites DEF ReindexInv, ReindexType
  <1>5. HoldOK' /\ TallyOK'
    BY <1>1, SameCorpus DEF ReindexInv, HoldOK, TallyOK
  <1>6. WindowOK' /\ NothingVanishes' /\ AuditOK'
    BY <1>1, <1>2, WriteFrame
  <1>7. LessonsOK'
    <2>1. \A x \in stream' : x \in stream \ {m} \/ x = m
      BY <1>1
    <2>2. QED
      BY <1>1, <1>2, <2>1, WriteKeepsLessons
  <1>8. SettlingOK'
    BY <1>1, <1>3, IngestSettles
  <1>9. QED
    BY <1>4, <1>5, <1>6, <1>7, <1>8 DEF ReindexInv

LEMMA OtherWriteStep ==
  ASSUME ReindexInv, NEW k \in OfCorpus, NEW l \in Lessons, OtherWrite(k, l)
  PROVE  ReindexInv'
  <1> DEFINE pay == [id |-> k, src |-> 0, lessons |-> l]
  <1>1. /\ Upsert(pay) /\ Race(pay, stream)
        /\ UNCHANGED <<corpus, stream, window, dlq, phase, todo, hold, tally, report, audit,
                       settled, sent, lost, seeded>>
        /\ count' = [count EXCEPT !.writes = @ + 1]
    BY DEF OtherWrite, runVars, auditVars
  <1>2. pay \in Payload
    BY DEF Payload, OfCorpus
  <1> HIDE DEF pay
  <1>3. /\ count' \in [runs : Nat, edits : Nat, writes : Nat, again : Nat]
        /\ count'.writes # 0
    BY <1>1 DEF ReindexInv, ReindexType
  <1>4. ReindexType'
    BY <1>1, <1>2, <1>3, UpsertWrites DEF ReindexInv, ReindexType
  <1>5. HoldOK' /\ TallyOK'
    BY <1>1, SameCorpus DEF ReindexInv, HoldOK, TallyOK
  <1>6. WindowOK' /\ NothingVanishes' /\ AuditOK'
    BY <1>1, <1>2, WriteFrame
  <1>7. LessonsOK'
    BY <1>1, <1>2, WriteKeepsLessons
  <1>8. SettlingOK'
    BY <1>3 DEF SettlingOK
  <1>9. QED
    BY <1>4, <1>5, <1>6, <1>7, <1>8 DEF ReindexInv

\* A message leaves the stream for the dead letters or is lost, or an id is forgotten.
LEMMA DepartureStep ==
  ASSUME ReindexInv,
         (\E m \in stream : DeadLetter(m) \/ Lose(m)) \/ \E x \in window : Forget(x)
  PROVE  ReindexInv'
  <1>1. /\ UNCHANGED <<corpus, store, phase, todo, hold, tally, report, audit, settled, count,
                       sent, raced, seeded>>
        /\ stream' \subseteq stream /\ dlq \subseteq dlq' /\ lost \subseteq lost'
        /\ window' \subseteq window
    BY DEF DeadLetter, Lose, Forget, runVars, auditVars, history
  <1>2. \A m \in stream : m \in stream' \/ EpisodeId(m.id) \in dlq' \/ m.id \in lost'
    BY DEF DeadLetter, Lose, Forget
  <1>3. dlq' \subseteq Letters
    BY DEF DeadLetter, Lose, Forget, history, ReindexInv, ReindexType, Letters, Payload
  <1>4. ReindexType' /\ HoldOK' /\ TallyOK'
    BY <1>1, <1>3, SameCorpus DEF ReindexInv, ReindexType, HoldOK, TallyOK
  <1>5. \A k : Covered(k) => Covered(k)'
    BY <1>1, <1>2 DEF Covered, Recorded
  <1>6. WindowOK'
    BY <1>1, <1>5 DEF ReindexInv, WindowOK
  <1>7. \A k \in sent' : Covered(k)'
    BY <1>1, <1>5 DEF ReindexInv, NothingVanishes, Covered
  <1>8. NothingVanishes'
    BY <1>7 DEF NothingVanishes, Covered
  <1>9. AuditOK'
    BY <1>1 DEF ReindexInv, AuditOK, AuditIsExact, Recorded
  <1>10. SettlingOK'
    BY <1>1, SameTarget DEF ReindexInv, SettlingOK, Settling, Recorded
  <1>11. LessonsOK'
    BY <1>1 DEF ReindexInv, LessonsOK, BareInFlight, Recorded
  <1>12. QED
    BY <1>4, <1>6, <1>8, <1>9, <1>10, <1>11 DEF ReindexInv

LEMMA EditStep ==
  ASSUME ReindexInv, NEW c \in Corpora, Edit(c)
  PROVE  ReindexInv'
  <1>1. /\ UNCHANGED <<store, stream, window, dlq, phase, todo, hold, tally, report, audit,
                       settled, auditVars, history, raced, seeded, sent, lost>>
        /\ phase = "idle" /\ corpus' = c /\ count' = [count EXCEPT !.edits = @ + 1]
    BY DEF Edit, runVars, auditVars, history
  <1>2. /\ count' \in [runs : Nat, edits : Nat, writes : Nat, again : Nat]
        /\ count'.edits # 0
    BY <1>1 DEF ReindexInv, ReindexType
  <1>3. ReindexType' /\ HoldOK' /\ TallyOK'
    BY <1>1, <1>2 DEF ReindexInv, ReindexType, HoldOK, TallyOK
  <1>4. SettlingOK'
    BY <1>2 DEF SettlingOK
  <1>5. LessonsOK'
    BY <1>1 DEF ReindexInv, LessonsOK, BareInFlight, Recorded
  <1>6. QED
    BY <1>1, <1>3, <1>4, <1>5, RelayFrame DEF ReindexInv

LEMMA NextInv ==
  ASSUME ReindexInv, [Next]_vars
  PROVE  ReindexInv'
  <1>1. CASE UNCHANGED vars
    <2>1. /\ UNCHANGED <<corpus, store, stream, window, dlq, runVars, auditVars, count, history>>
          /\ UNCHANGED <<corpus, store, stream, window, dlq, phase, tally, report, audit, settled,
                         count, sent, seeded>>
      BY <1>1 DEF vars, runVars, auditVars, history
    <2>2. ReindexType'
      BY <2>1 DEF ReindexInv, ReindexType
    <2>3. QED
      BY <2>1, <2>2, BystanderFrame, AuditFrame DEF ReindexInv
  <1>2. ASSUME NEW b \in todo, RefuseBackfill(b) PROVE ReindexInv'
    BY <1>2, EndRunStep DEF RefuseBackfill
  <1>3. CASE RunDone
    BY <1>3, EndRunStep DEF RunDone
  <1>4. ASSUME NEW killed \in BOOLEAN, RunFails(killed) PROVE ReindexInv'
    BY <1>4, EndRunStep DEF RunFails
  <1>5. CASE Next
    BY <1>2, <1>3, <1>4, <1>5, StartRunStep, ReadLessonsStep, PublishWinnerStep, CorpusDoneStep,
       PublishBackfillStep, CensusStep, AuditStep, IngestStep, OtherWriteStep, DepartureStep,
       EditStep DEF Next
  <1>6. QED
    BY <1>1, <1>5

LEMMA Invariance == Spec => []ReindexInv
  BY InitInv, NextInv, PTL DEF Spec

-----------------------------------------------------------------------------
(***************************************************************************)
(* The theorems.                                                           *)
(***************************************************************************)
\* pipeline.py: for any checkout, in every report a publish run or a census writes, each
\* walked document is counted once, as published, skipped or unparseable.
THEOREM ReportsAddUp == Spec => []EveryDocumentOnce
  <1>1. ASSUME ReindexInv, report # None PROVE EveryDocumentOnce
    <2> DEFINE P == report.published
               K == report.skipped
               B == report.bad
    <2>1. Accounted(report, {})
      BY <1>1 DEF ReindexInv, TallyOK
    <2>2. report.walked = P \cup K \cup B /\ IsFiniteSet(report.walked)
      BY <2>1 DEF Accounted
    <2>3. P \cap K = {} /\ (P \cup K) \cap B = {}
      BY <2>1 DEF Accounted
    <2> HIDE DEF P, K, B
    <2>4. IsFiniteSet(P) /\ IsFiniteSet(K) /\ IsFiniteSet(B) /\ IsFiniteSet(P \cup K)
      BY <2>2, FS_Subset
    <2>5. ASSUME NEW Q, NEW R, IsFiniteSet(Q), IsFiniteSet(R), Q \cap R = {}
          PROVE  Cardinality(Q \cup R) = Cardinality(Q) + Cardinality(R)
      <3>1. Cardinality(Q \cup R) = Cardinality(Q) + Cardinality(R) - Cardinality(Q \cap R)
        BY <2>5, FS_Union
      <3>2. Cardinality(Q) \in Nat /\ Cardinality(R) \in Nat /\ Cardinality(Q \cap R) = 0
        BY <2>5, FS_CardinalityType, FS_EmptySet
      <3>3. QED
        BY <3>1, <3>2
    <2>6. Cardinality(P \cup K) = Cardinality(P) + Cardinality(K)
          /\ Cardinality((P \cup K) \cup B) = Cardinality(P \cup K) + Cardinality(B)
      BY <2>3, <2>4, <2>5
    <2>7. QED
      BY <2>2, <2>6 DEF EveryDocumentOnce, P, K, B
  <1>2. ASSUME ReindexInv PROVE EveryDocumentOnce
    BY <1>1, <1>2 DEF EveryDocumentOnce
  <1>3. QED
    BY <1>2, Invariance, PTL

\* publisher.py: whatever the duplicate window remembers or forgets, an episode that
\* JetStream acknowledged is on its way, stored, dead-lettered, or lost by the relay.
THEOREM PublishesDoNotVanish == Spec => []NothingVanishes
  BY Invariance, PTL DEF ReindexInv

\* __main__.py: over an unchanged checkout, any number of complete and interrupted runs
\* changes a record of the corpus at most once.
THEOREM RerunsConverge == Spec => []RerunIsIdempotent
  <1>1. ASSUME ReindexInv PROVE RerunIsIdempotent
    <2>1. \A k \in OfCorpus : k \in Ids /\ seeded[k] \in Nat
      BY <1>1 DEF ReindexInv, ReindexType, OfCorpus
    <2>2. \A k \in OfCorpus : Recorded(k) => store[k].version \in Nat
      BY <1>1, <2>1 DEF ReindexInv, ReindexType, Recorded
    <2>3. QED
      BY <1>1, <2>1, <2>2 DEF ReindexInv, SettlingOK, Settling, RerunIsIdempotent
  <1>2. QED
    BY <1>1, Invariance, PTL

\* audit.py: an audit that runs while the relay goes on lists as missing no key that was
\* stored when it began and none whose letter it has read, and it passes none that is
\* neither stored nor dead-lettered.
THEOREM AuditsAreExact == Spec => []AuditIsExact
  BY Invariance, PTL DEF ReindexInv, AuditOK

\* _preserve_existing_lessons: for any runs, redeliveries, reorderings and edits, no step
\* nulls stored lessons of a task of the corpus unless they raced its episode.
THEOREM LessonsSurvive == Spec => LessonsKept
  <1> DEFINE Keeps == \A k \in OfCorpus :
                Recorded(k) /\ store[k].pay.lessons # None /\ store'[k].pay.lessons = None
                  => k \in raced
  <1>1. ASSUME ReindexInv, [Next]_vars PROVE [Keeps]_store
    <2> SUFFICES ASSUME store' # store PROVE Keeps
      OBVIOUS
    <2>1. CASE \E m \in stream : Ingest(m)
      <3>1. PICK m \in stream : Upsert(m)
        BY <2>1 DEF Ingest
      <3>2. m \in Payload /\ ReindexType
        BY <1>1 DEF ReindexInv, ReindexType
      <3>3. \A k \in Ids : store'[k] = store[k] \/ (k = m.id /\ store'[k].pay = m)
        BY <3>1, <3>2, UpsertWrites
      <3>4. QED
        BY <1>1, <3>3 DEF ReindexInv, LessonsOK, BareInFlight, OfCorpus
    <2>2. CASE \E j \in OfCorpus, l \in Lessons : OtherWrite(j, l)
      <3>1. PICK j \in OfCorpus, l \in Lessons : OtherWrite(j, l)
        BY <2>2
      <3> DEFINE pay == [id |-> j, src |-> 0, lessons |-> l]
      <3>2. pay \in Payload /\ Upsert(pay) /\ ReindexType
        BY <1>1, <3>1 DEF OtherWrite, ReindexInv, Payload, OfCorpus
      <3>3. \A k \in Ids : store'[k] = store[k] \/ store'[k].pay = pay
        BY <3>2, UpsertWrites
      <3>4. pay.lessons # None
        BY ReindexAssumption
      <3> HIDE DEF pay
      <3>5. QED
        BY <3>3, <3>4 DEF OfCorpus
    <2>3. QED
      BY <1>1, <2>1, <2>2
         DEF Next, vars, StartRun, PublishWinner, CorpusDone, RunDone, Census, StartAudit,
             AskLetters, AuditDone, AuditFails, ReadLessons, PublishBackfill, RefuseBackfill,
             RunFails, AuditKey, DeadLetter, Lose, Forget, Edit
  <1>2. QED
    BY <1>1, Invariance, PTL DEF Spec, LessonsKept

=============================================================================
