---------------------------- MODULE WriterProofs ----------------------------
(***************************************************************************)
(* Proofs about Writer, for every set of keys, payloads and processes.     *)
(***************************************************************************)
EXTENDS Writer, FiniteSetTheorems, TLAPS

\* What holds of a process in the middle of a call: it has a call, a write() that
\* has not put its record yet carries a payload, the draft is a record of that
\* payload, apply_supersessions has a predecessor left when it visits one and only
\* visits declared ones, and the record it read is a record of that predecessor.
ProcOK(p) ==
  /\ pc[p] # "idle" => job[p] \in Jobs
  /\ pc[p] \in {"get", "search", "put"} => job[p].doc # None
  /\ pc[p] \in {"search", "put"} => draft[p] # None /\ draft[p].doc = job[p].doc
  /\ pc[p] # "idle" => \A i \in DOMAIN todo[p] : todo[p][i] \in Entries(job[p].preds)
  /\ pc[p] \in {"pget", "pput"} => todo[p] # <<>>
  /\ pc[p] = "pput" => seen[p] # None /\ seen[p].doc.key = Head(todo[p])

\* Every stored record is filed under its own key.
StoreOK == \A k \in Keys : store[k] # None => store[k].doc.key = k

WellFormed == TypeOK /\ StoreOK /\ \A p \in Procs : ProcOK(p)

-----------------------------------------------------------------------------
LEMMA JobFacts ==
  ASSUME NEW j \in Jobs
  PROVE  /\ j \in [doc : Payloads \cup {None}, succ : Keys, preds : Seq(Keys)]
         /\ j.doc # None => j.doc \in Payloads /\ j.succ = j.doc.key /\ j.preds = j.doc.sup
         /\ j.doc = None => j.preds # <<>>
  <1>1. CASE \E d \in Payloads : j = WriteJob(d)
    BY <1>1, PayloadAssumption, ConstantAssumption DEF WriteJob
  <1>2. CASE \E c \in Declarations : j = ToolJob(c)
    BY <1>2, DeclarationAssumption, ConstantAssumption DEF ToolJob, ValidDeclaration
  <1>3. QED
    BY <1>1, <1>2 DEF Jobs

LEMMA PayloadFacts ==
  ASSUME NEW d \in Payloads
  PROVE  d.key \in Keys /\ d.sup \in Seq(Keys) /\ d # None
  BY PayloadAssumption, ConstantAssumption

LEMMA RecordFacts ==
  ASSUME NEW r \in Record \cup {None}, r # None
  PROVE  r \in Record /\ r.doc \in Payloads /\ r.version \in Nat
         /\ r.by \in Keys \cup {None}
  BY DEF Record

LEMMA NoneIsNoRecord == None \notin Record
  BY ConstantAssumption DEF Record

LEMMA TouchType ==
  ASSUME TypeOK, NEW k \in Keys
  PROVE  Touch(k) \subseteq Keys \X Keys
  BY DEF Touch, TypeOK

\* What a step that goes on to the next predecessor leaves behind.
LEMMA VisitOK ==
  ASSUME WellFormed, NEW p \in Procs, pc[p] # "idle", NEW left \in Seq(Keys),
         \A i \in DOMAIN left : left[i] \in Entries(job[p].preds),
         Visit(p, left), UNCHANGED job
  PROVE  /\ pc' \in [Procs -> PCs] /\ todo' \in [Procs -> Seq(Keys)]
         /\ pc'[p] \in {"idle", "pget"}
         /\ pc'[p] = "pget" => todo'[p] # <<>>
         /\ \A i \in DOMAIN todo'[p] : todo'[p][i] \in Entries(job'[p].preds)
         /\ \A q \in Procs \ {p} : pc'[q] = pc[q] /\ todo'[q] = todo[q]
  BY DEF Visit, WellFormed, TypeOK, PCs

\* A process another one's step does not touch.
LEMMA FrameOK ==
  ASSUME NEW q \in Procs, ProcOK(q), pc'[q] = pc[q], job'[q] = job[q],
         draft'[q] = draft[q], todo'[q] = todo[q], seen'[q] = seen[q]
  PROVE  ProcOK(q)'
  BY DEF ProcOK, Entries

-----------------------------------------------------------------------------
LEMMA InitWellFormed == Init => WellFormed
  BY ConstantAssumption
     DEF Init, WellFormed, TypeOK, StoreOK, ProcOK, PCs, NoJob

LEMMA BeginWellFormed ==
  ASSUME WellFormed, NEW p \in Procs, NEW j \in Jobs, Begin(p, j)
  PROVE  WellFormed'
  <1> USE DEF WellFormed
  <1>1. TypeOK'
    BY JobFacts DEF Begin, Enter, TypeOK, PCs
  <1>2. StoreOK'
    BY DEF Begin, StoreOK
  <1>3. ASSUME NEW q \in Procs PROVE ProcOK(q)'
    BY <1>3, JobFacts DEF Begin, Enter, TypeOK, ProcOK, PCs, Entries
  <1>4. QED
    BY <1>1, <1>2, <1>3

LEMMA ReadExistingWellFormed ==
  ASSUME WellFormed, NEW p \in Procs, ReadExisting(p)
  PROVE  WellFormed'
  <1> USE DEF WellFormed
  <1> DEFINE doc == job[p].doc
             version == IF store[doc.key] = None THEN 1 ELSE store[doc.key].version + 1
             new == [doc |-> doc, version |-> version, by |-> None]
  <1>1. job[p] \in Jobs /\ doc \in Payloads /\ doc.key \in Keys
    BY JobFacts, PayloadFacts DEF ReadExisting, Unchanged, NextVersion, NoOp, ProcOK
  <1>2. new \in Record /\ new # None
    BY <1>1, RecordFacts, NoneIsNoRecord DEF TypeOK, Record
  <1>3. StoreOK'
    BY DEF ReadExisting, Unchanged, NextVersion, NoOp, StoreOK
  <1>4. CASE store[doc.key] # None /\ store[doc.key].doc = doc
    <2>1. Visit(p, todo[p]) /\ UNCHANGED <<draft, offset, store, newer, job, seen, jobs, fails>>
      BY <1>4 DEF ReadExisting, Unchanged, NextVersion, NoOp
    <2>2. /\ pc' \in [Procs -> PCs] /\ todo' \in [Procs -> Seq(Keys)]
          /\ pc'[p] \in {"idle", "pget"}
          /\ pc'[p] = "pget" => todo'[p] # <<>>
          /\ \A i \in DOMAIN todo'[p] : todo'[p][i] \in Entries(job'[p].preds)
          /\ \A q \in Procs \ {p} : pc'[q] = pc[q] /\ todo'[q] = todo[q]
      BY <2>1, VisitOK DEF ReadExisting, Unchanged, NextVersion, NoOp, TypeOK, ProcOK
    <2>3. TypeOK'
      BY <2>1, <2>2 DEF TypeOK
    <2>4. ASSUME NEW q \in Procs PROVE ProcOK(q)'
      <3>1. CASE q = p
        BY <2>1, <2>2, <3>1, <1>1 DEF ProcOK
      <3>2. CASE q # p
        BY <2>1, <2>2, <3>2, SMTT(30) DEF ProcOK, Entries
      <3>3. QED BY <3>1, <3>2
    <2>5. QED BY <1>3, <2>3, <2>4
  <1>5. CASE ~(store[doc.key] # None /\ store[doc.key].doc = doc)
    <2>1. /\ draft' = [draft EXCEPT ![p] = new]
          /\ offset' = [offset EXCEPT ![p] = 0]
          /\ pc' = [pc EXCEPT ![p] = "search"]
          /\ UNCHANGED <<todo, store, newer, job, seen, jobs, fails>>
      BY <1>5 DEF ReadExisting, Unchanged, NextVersion, NoOp
    <2>2. TypeOK'
      BY <1>2, <2>1 DEF TypeOK, PCs
    <2>3. ASSUME NEW q \in Procs PROVE ProcOK(q)'
      <3>1. pc[p] = "get"
        BY DEF ReadExisting, Unchanged, NextVersion, NoOp
      <3>2. CASE q = p
        <4>1. /\ pc'[p] = "search" /\ draft'[p] = new /\ todo'[p] = todo[p]
              /\ job'[p] = job[p]
          BY <2>1 DEF TypeOK
        <4>2. doc # None /\ new.doc = doc
          BY <1>1, PayloadFacts
        <4>3. QED
          BY <1>1, <1>2, <3>1, <3>2, <4>1, <4>2 DEF ProcOK
      <3>3. CASE q # p
        BY <2>1, <3>3, FrameOK DEF TypeOK
      <3>4. QED BY <3>2, <3>3
    <2>4. QED BY <1>3, <2>2, <2>3
  <1>6. QED BY <1>4, <1>5

LEMMA SearchPageWellFormed ==
  ASSUME WellFormed, NEW p \in Procs, SearchPage(p)
  PROVE  WellFormed'
  <1> USE DEF WellFormed
  <1> DEFINE key == job[p].succ
             page == Page(NsOf[key], offset[p])
             hits == {s \in page : key \in Entries(store[s].doc.sup)}
  <1>1. pc[p] = "search" /\ UNCHANGED <<store, newer, job, todo, seen, jobs, fails>>
    BY DEF SearchPage, Names, LastPage
  <1>2. StoreOK'
    BY <1>1 DEF StoreOK
  <1>3. draft[p] \in Record /\ job[p] \in Jobs
    BY <1>1, RecordFacts DEF TypeOK, ProcOK
  <1>4. CASE \E s \in hits : /\ draft' = [draft EXCEPT ![p].by = s]
                             /\ pc' = [pc EXCEPT ![p] = "put"]
                             /\ UNCHANGED offset
    <2>1. PICK s \in hits : /\ draft' = [draft EXCEPT ![p].by = s]
                            /\ pc' = [pc EXCEPT ![p] = "put"]
                            /\ UNCHANGED offset
      BY <1>4
    <2>2. s \in Keys
      BY DEF Page
    <2> DEFINE new == [draft[p] EXCEPT !.by = s]
    <2>3. new \in Record /\ new # None /\ new.doc = draft[p].doc
      BY <1>3, <2>2, NoneIsNoRecord DEF Record
    <2>4. draft' = [draft EXCEPT ![p] = new]
      BY <2>1
    <2> HIDE DEF new
    <2>5. TypeOK'
      BY <1>1, <2>1, <2>3, <2>4 DEF TypeOK, PCs
    <2>6. ASSUME NEW q \in Procs PROVE ProcOK(q)'
      <3>1. CASE q = p
        <4>1. pc'[p] = "put" /\ draft'[p] = new
          BY <2>1, <2>4 DEF TypeOK
        <4>2. QED
          BY <1>1, <1>3, <2>3, <3>1, <4>1 DEF ProcOK
      <3>2. CASE q # p
        BY <1>1, <2>1, <2>4, <3>2, FrameOK DEF TypeOK
      <3>3. QED BY <3>1, <3>2
    <2>7. QED BY <1>2, <2>5, <2>6
  <1>5. CASE pc' = [pc EXCEPT ![p] = "put"] /\ UNCHANGED <<draft, offset>>
    <2>1. TypeOK'
      BY <1>1, <1>5 DEF TypeOK, PCs
    <2>2. ASSUME NEW q \in Procs PROVE ProcOK(q)'
      <3>1. CASE q = p
        BY <1>1, <1>5, <3>1 DEF TypeOK, ProcOK
      <3>2. CASE q # p
        BY <1>1, <1>5, <3>2, FrameOK DEF TypeOK
      <3>3. QED BY <3>1, <3>2
    <2>3. QED BY <1>2, <2>1, <2>2
  <1>6. CASE offset' = [offset EXCEPT ![p] = @ + PageSize] /\ UNCHANGED <<draft, pc>>
    <2>1. TypeOK'
      BY <1>1, <1>6, ConstantAssumption DEF TypeOK, PCs
    <2>2. ASSUME NEW q \in Procs PROVE ProcOK(q)'
      BY <1>1, <1>6, FrameOK DEF TypeOK
    <2>3. QED BY <1>2, <2>1, <2>2
  <1>7. QED
    BY <1>4, <1>5, <1>6 DEF SearchPage, Names, LastPage

LEMMA SearchRaisesWellFormed ==
  ASSUME WellFormed, NEW p \in Procs, SearchRaises(p)
  PROVE  WellFormed'
  <1> USE DEF WellFormed
  <1>1. TypeOK' /\ StoreOK'
    BY DEF SearchRaises, procVars, TypeOK, StoreOK, PCs
  <1>2. ASSUME NEW q \in Procs PROVE ProcOK(q)'
    <2>1. CASE q = p
      BY <2>1 DEF SearchRaises, procVars, TypeOK, ProcOK
    <2>2. CASE q # p
      BY <2>2, FrameOK DEF SearchRaises, procVars, TypeOK
    <2>3. QED BY <2>1, <2>2
  <1>3. QED BY <1>1, <1>2

LEMMA PutRecordWellFormed ==
  ASSUME WellFormed, NEW p \in Procs, PutRecord(p)
  PROVE  WellFormed'
  <1> USE DEF WellFormed
  <1> DEFINE key == job[p].succ
  <1>1. /\ pc[p] = "put" /\ Visit(p, todo[p])
        /\ store' = [store EXCEPT ![key] = draft[p]] /\ newer' = Touch(key)
        /\ UNCHANGED <<job, draft, offset, seen, jobs, fails>>
    BY DEF PutRecord
  <1>2. job[p] \in Jobs /\ key \in Keys /\ draft[p] \in Record
        /\ draft[p].doc.key = key
    BY <1>1, JobFacts, RecordFacts DEF TypeOK, ProcOK
  <1>3. /\ pc' \in [Procs -> PCs] /\ todo' \in [Procs -> Seq(Keys)]
        /\ pc'[p] \in {"idle", "pget"}
        /\ pc'[p] = "pget" => todo'[p] # <<>>
        /\ \A i \in DOMAIN todo'[p] : todo'[p][i] \in Entries(job'[p].preds)
        /\ \A q \in Procs \ {p} : pc'[q] = pc[q] /\ todo'[q] = todo[q]
    BY <1>1, VisitOK DEF TypeOK, ProcOK
  <1>4. TypeOK'
    BY <1>1, <1>2, <1>3, TouchType DEF TypeOK
  <1>5. StoreOK'
    BY <1>1, <1>2 DEF StoreOK, TypeOK
  <1>6. ASSUME NEW q \in Procs PROVE ProcOK(q)'
    <2>1. CASE q = p
      BY <1>1, <1>2, <1>3, <2>1 DEF ProcOK
    <2>2. CASE q # p
      BY <1>1, <1>3, <2>2, FrameOK
    <2>3. QED BY <2>1, <2>2
  <1>7. QED BY <1>4, <1>5, <1>6

\* The rest of a visit list is still a list of declared predecessors.
LEMMA TailOK ==
  ASSUME WellFormed, NEW p \in Procs, pc[p] \in {"pget", "pput"}
  PROVE  /\ Head(todo[p]) \in Keys /\ Tail(todo[p]) \in Seq(Keys)
         /\ Head(todo[p]) \in Entries(job[p].preds)
         /\ \A i \in DOMAIN Tail(todo[p]) :
              Tail(todo[p])[i] \in Entries(job[p].preds)
  BY DEF WellFormed, TypeOK, ProcOK

LEMMA ReadPredecessorWellFormed ==
  ASSUME WellFormed, NEW p \in Procs, ReadPredecessor(p)
  PROVE  WellFormed'
  <1> USE DEF WellFormed
  <1> DEFINE pred == Head(todo[p])
  <1>1. pc[p] = "pget" /\ UNCHANGED <<store, newer, job, draft, offset, jobs, fails>>
    BY DEF ReadPredecessor
  <1>2. pred \in Keys /\ job[p] \in Jobs
    BY <1>1, TailOK DEF ProcOK
  <1>3. StoreOK'
    BY <1>1 DEF StoreOK
  <1>4. CASE store[pred] = None
    <2>1. Visit(p, Tail(todo[p])) /\ UNCHANGED seen
      BY <1>4 DEF ReadPredecessor
    <2>2. /\ pc' \in [Procs -> PCs] /\ todo' \in [Procs -> Seq(Keys)]
          /\ pc'[p] \in {"idle", "pget"}
          /\ pc'[p] = "pget" => todo'[p] # <<>>
          /\ \A i \in DOMAIN todo'[p] : todo'[p][i] \in Entries(job'[p].preds)
          /\ \A q \in Procs \ {p} : pc'[q] = pc[q] /\ todo'[q] = todo[q]
      BY <1>1, <2>1, TailOK, VisitOK
    <2>3. TypeOK'
      BY <1>1, <2>1, <2>2 DEF TypeOK
    <2>4. ASSUME NEW q \in Procs PROVE ProcOK(q)'
      <3>1. CASE q = p
        BY <1>1, <1>2, <2>1, <2>2, <3>1 DEF ProcOK
      <3>2. CASE q # p
        BY <1>1, <2>1, <2>2, <3>2, FrameOK
      <3>3. QED BY <3>1, <3>2
    <2>5. QED BY <1>3, <2>3, <2>4
  <1>5. CASE store[pred] # None
    <2>1. /\ seen' = [seen EXCEPT ![p] = store[pred]]
          /\ pc' = [pc EXCEPT ![p] = "pput"] /\ UNCHANGED todo
      BY <1>5 DEF ReadPredecessor
    <2>2. store[pred] \in Record /\ store[pred].doc.key = pred
      BY <1>2, <1>5, RecordFacts DEF TypeOK, StoreOK
    <2>3. TypeOK'
      BY <1>1, <2>1, <2>2 DEF TypeOK, PCs
    <2>4. ASSUME NEW q \in Procs PROVE ProcOK(q)'
      <3>1. CASE q = p
        <4>1. pc'[p] = "pput" /\ seen'[p] = store[pred]
          BY <2>1 DEF TypeOK
        <4>2. QED
          BY <1>1, <1>2, <1>5, <2>1, <2>2, <3>1, <4>1 DEF ProcOK
      <3>2. CASE q # p
        BY <1>1, <2>1, <3>2, FrameOK DEF TypeOK
      <3>3. QED BY <3>1, <3>2
    <2>5. QED BY <1>3, <2>3, <2>4
  <1>6. QED BY <1>4, <1>5

LEMMA MarkPredecessorWellFormed ==
  ASSUME WellFormed, NEW p \in Procs, MarkPredecessor(p)
  PROVE  WellFormed'
  <1> USE DEF WellFormed
  <1> DEFINE pred == Head(todo[p])
             marked == [seen[p] EXCEPT !.by = job[p].succ]
  <1>1. /\ pc[p] = "pput" /\ Visit(p, Tail(todo[p]))
        /\ store' = [store EXCEPT ![pred] = marked] /\ newer' = Touch(pred)
        /\ UNCHANGED <<job, draft, offset, seen, jobs, fails>>
    BY DEF MarkPredecessor
  <1>2. pred \in Keys /\ job[p] \in Jobs /\ job[p].succ \in Keys
    BY <1>1, TailOK, JobFacts DEF ProcOK
  <1>3. marked \in Record /\ marked.doc.key = pred
    <2>1. seen[p] \in Record /\ seen[p].doc.key = pred
      BY <1>1, RecordFacts DEF TypeOK, ProcOK
    <2>2. QED BY <1>2, <2>1 DEF Record
  <1>4. /\ pc' \in [Procs -> PCs] /\ todo' \in [Procs -> Seq(Keys)]
        /\ pc'[p] \in {"idle", "pget"}
        /\ pc'[p] = "pget" => todo'[p] # <<>>
        /\ \A i \in DOMAIN todo'[p] : todo'[p][i] \in Entries(job'[p].preds)
        /\ \A q \in Procs \ {p} : pc'[q] = pc[q] /\ todo'[q] = todo[q]
    BY <1>1, TailOK, VisitOK
  <1> HIDE DEF marked
  <1>5. TypeOK'
    BY <1>1, <1>2, <1>3, <1>4, TouchType DEF TypeOK
  <1>6. StoreOK'
    BY <1>1, <1>2, <1>3 DEF StoreOK, TypeOK
  <1>7. ASSUME NEW q \in Procs PROVE ProcOK(q)'
    <2>1. CASE q = p
      BY <1>1, <1>2, <1>4, <2>1 DEF ProcOK
    <2>2. CASE q # p
      BY <1>1, <1>4, <2>2, FrameOK
    <2>3. QED BY <2>1, <2>2
  <1>8. QED BY <1>5, <1>6, <1>7

LEMMA FailureWellFormed ==
  ASSUME WellFormed, NEW p \in Procs, Fail(p) \/ Retry(p) \/ GiveUp(p)
  PROVE  WellFormed'
  <1> USE DEF WellFormed
  <1>1. TypeOK' /\ StoreOK'
    <2>1. CASE Fail(p)
      BY <2>1 DEF Fail, procVars, TypeOK, StoreOK, PCs
    <2>2. CASE Retry(p)
      BY <2>2, JobFacts DEF Retry, Enter, TypeOK, StoreOK, PCs, ProcOK
    <2>3. CASE GiveUp(p)
      BY <2>3 DEF GiveUp, procVars, TypeOK, StoreOK, PCs
    <2>4. QED BY <2>1, <2>2, <2>3
  <1>2. ASSUME NEW q \in Procs PROVE ProcOK(q)'
    <2>1. CASE q # p
      BY <2>1, FrameOK DEF Fail, Retry, GiveUp, Enter, procVars, TypeOK
    <2>2. CASE q = p /\ Retry(p)
      BY <2>2, JobFacts DEF Retry, Enter, TypeOK, ProcOK, PCs, Entries
    <2>3. CASE q = p /\ ~Retry(p)
      BY <2>3 DEF Fail, GiveUp, procVars, TypeOK, ProcOK
    <2>4. QED BY <2>1, <2>2, <2>3
  <1>3. QED BY <1>1, <1>2

LEMMA NextWellFormed == WellFormed /\ [Next]_vars => WellFormed'
  <1> SUFFICES ASSUME WellFormed, [Next]_vars PROVE WellFormed'
    OBVIOUS
  <1>1. CASE UNCHANGED vars
    BY <1>1 DEF vars, WellFormed, TypeOK, StoreOK, ProcOK
  <1>2. CASE Next
    BY <1>2, BeginWellFormed, ReadExistingWellFormed, SearchPageWellFormed,
       SearchRaisesWellFormed, PutRecordWellFormed, ReadPredecessorWellFormed,
       MarkPredecessorWellFormed, FailureWellFormed
       DEF Next, Step
  <1>3. QED BY <1>1, <1>2

\* The store only ever holds complete records filed under their own key, and every
\* process only ever puts a record it has built or read, for every number of
\* writers and every interleaving of their awaits.
THEOREM TypeCorrect == Spec => []TypeOK
  <1>1. WellFormed => TypeOK
    BY DEF WellFormed
  <1>2. QED
    BY InitWellFormed, NextWellFormed, <1>1, PTL DEF Spec

-----------------------------------------------------------------------------
(***************************************************************************)
(* Links are declared.  The links in flight are those of the stored        *)
(* records, of the drafts, of the records read by apply_supersessions, and *)
(* the declarations that the forward lookup may still turn into links.     *)
(***************************************************************************)
RecordDeclared(r) ==
  /\ r.by # None => <<r.by, r.doc.key>> \in declared
  /\ \A k \in Entries(r.doc.sup) : <<r.doc.key, k>> \in declared

LinksInFlight ==
  /\ \A k \in Keys : store[k] # None => RecordDeclared(store[k])
  /\ \A p \in Procs :
       /\ pc[p] # "idle" =>
            \A k \in Entries(job[p].preds) : <<job[p].succ, k>> \in declared
       /\ pc[p] \in {"search", "put"} => RecordDeclared(draft[p])
       /\ pc[p] = "pput" => RecordDeclared(seen[p])

LEMMA InitLinks == Init => LinksInFlight
  BY DEF Init, LinksInFlight

LEMMA BeginLinks ==
  ASSUME WellFormed, LinksInFlight, NEW p \in Procs, NEW j \in Jobs, Begin(p, j)
  PROVE  LinksInFlight'
  <1>1. declared \subseteq declared'
        /\ \A k \in Entries(j.preds) : <<j.succ, k>> \in declared'
    BY DEF Begin
  <1>2. UNCHANGED <<store, draft, seen>> /\ pc'[p] \in {"get", "pget"} /\ job'[p] = j
        /\ \A q \in Procs \ {p} : pc'[q] = pc[q] /\ job'[q] = job[q]
    BY DEF Begin, Enter, WellFormed, TypeOK
  <1>3. QED
    BY <1>1, <1>2 DEF LinksInFlight, RecordDeclared, Entries

LEMMA VisitLinks ==
  ASSUME WellFormed, LinksInFlight, NEW p \in Procs, NEW left, Visit(p, left), pc[p] # "idle",
         UNCHANGED <<job, draft, seen, declared>>,
         \A k \in Keys : store'[k] # None => RecordDeclared(store'[k])
  PROVE  LinksInFlight'
  <1>1. pc'[p] \in {"idle", "pget"} /\ \A q \in Procs \ {p} : pc'[q] = pc[q]
    BY DEF Visit, WellFormed, TypeOK
  <1>2. QED
    BY <1>1 DEF LinksInFlight, RecordDeclared

LEMMA StepLinks ==
  ASSUME WellFormed, LinksInFlight, NEW p \in Procs, Step(p) \/ Fail(p) \/ GiveUp(p)
  PROVE  LinksInFlight'
  <1> USE DEF WellFormed
  <1>1. CASE ReadExisting(p)
    <2> DEFINE doc == job[p].doc
    <2>1. job[p] \in Jobs /\ doc \in Payloads /\ job[p].succ = doc.key
          /\ job[p].preds = doc.sup
      BY <1>1, JobFacts DEF ReadExisting, Unchanged, NextVersion, NoOp, ProcOK
    <2>2. CASE Visit(p, todo[p]) /\ UNCHANGED draft
      BY <1>1, <2>2, VisitLinks DEF ReadExisting, Unchanged, NextVersion, NoOp, LinksInFlight
    <2>3. CASE \E v : /\ draft' = [draft EXCEPT ![p] = [doc |-> doc, version |-> v, by |-> None]]
                      /\ pc' = [pc EXCEPT ![p] = "search"]
      <3>1. PICK v : draft' = [draft EXCEPT ![p] = [doc |-> doc, version |-> v, by |-> None]]
        BY <2>3
      <3>2. pc'[p] = "search" /\ pc[p] = "get"
            /\ draft'[p] = [doc |-> doc, version |-> v, by |-> None]
            /\ \A q \in Procs \ {p} : pc'[q] = pc[q] /\ draft'[q] = draft[q]
        BY <1>1, <2>3, <3>1 DEF TypeOK, ReadExisting, Unchanged, NextVersion, NoOp
      <3>3. UNCHANGED <<store, job, seen, declared>>
        BY <1>1 DEF ReadExisting, Unchanged, NextVersion, NoOp
      <3>4. RecordDeclared(draft'[p])
        <4>1. draft'[p].by = None /\ draft'[p].doc = doc
          BY <3>2
        <4>2. \A k \in Entries(doc.sup) : <<doc.key, k>> \in declared
          BY <2>1, <3>2 DEF LinksInFlight
        <4>3. QED BY <4>1, <4>2 DEF RecordDeclared
      <3>5. QED
        BY <3>2, <3>3, <3>4 DEF LinksInFlight, RecordDeclared
    <2>4. QED
      BY <1>1, <2>2, <2>3 DEF ReadExisting, Unchanged, NextVersion, NoOp
  <1>2. CASE SearchPage(p)
    <2> DEFINE key == job[p].succ
    <2>1. pc[p] = "search" /\ UNCHANGED <<store, job, seen, declared>>
          /\ draft[p] \in Record /\ draft[p].doc.key = key
      BY <1>2, JobFacts, RecordFacts DEF SearchPage, Names, LastPage, TypeOK, ProcOK
    <2>2. CASE UNCHANGED draft
      <3>1. pc'[p] \in {"search", "put"} /\ \A q \in Procs \ {p} : pc'[q] = pc[q]
        BY <1>2, <2>1 DEF SearchPage, Names, LastPage, TypeOK
      <3>2. QED
        BY <2>1, <2>2, <3>1 DEF LinksInFlight, RecordDeclared
    <2>3. CASE \E s \in Keys : /\ store[s] # None /\ key \in Entries(store[s].doc.sup)
                               /\ draft' = [draft EXCEPT ![p].by = s]
                               /\ pc' = [pc EXCEPT ![p] = "put"]
      <3>1. PICK s \in Keys : /\ store[s] # None /\ key \in Entries(store[s].doc.sup)
                              /\ draft' = [draft EXCEPT ![p].by = s]
                              /\ pc' = [pc EXCEPT ![p] = "put"]
        BY <2>3
      <3>2. <<s, key>> \in declared
        BY <3>1 DEF LinksInFlight, RecordDeclared, StoreOK
      <3>3. draft'[p] = [draft[p] EXCEPT !.by = s] /\ pc'[p] = "put"
            /\ \A q \in Procs \ {p} : pc'[q] = pc[q] /\ draft'[q] = draft[q]
        BY <3>1 DEF TypeOK
      <3>4. draft'[p].by = s /\ draft'[p].doc = draft[p].doc
        BY <2>1, <3>3 DEF Record
      <3>5. RecordDeclared(draft'[p])
        BY <2>1, <3>2, <3>4 DEF RecordDeclared, LinksInFlight
      <3>6. QED
        BY <2>1, <3>3, <3>5 DEF LinksInFlight, RecordDeclared
    <2>4. QED
      BY <1>2, <2>2, <2>3 DEF SearchPage, Names, LastPage, Page
  <1>3. CASE PutRecord(p)
    <2>1. pc[p] = "put" /\ Visit(p, todo[p]) /\ UNCHANGED <<job, draft, seen, declared>>
          /\ store' = [store EXCEPT ![job[p].succ] = draft[p]]
      BY <1>3 DEF PutRecord
    <2>2. \A k \in Keys : store'[k] # None => RecordDeclared(store'[k])
      BY <2>1 DEF LinksInFlight, TypeOK
    <2>3. QED
      BY <2>1, <2>2, VisitLinks
  <1>4. CASE ReadPredecessor(p)
    <2>1. pc[p] = "pget" /\ UNCHANGED <<job, draft, store, declared>>
      BY <1>4 DEF ReadPredecessor
    <2>2. CASE Visit(p, Tail(todo[p])) /\ UNCHANGED seen
      BY <2>1, <2>2, VisitLinks DEF LinksInFlight
    <2>3. CASE /\ store[Head(todo[p])] # None
               /\ seen' = [seen EXCEPT ![p] = store[Head(todo[p])]]
               /\ pc' = [pc EXCEPT ![p] = "pput"]
      <3>1. Head(todo[p]) \in Keys
        BY <2>1, TailOK
      <3>2. RecordDeclared(seen'[p]) /\ pc'[p] = "pput"
            /\ \A q \in Procs \ {p} : pc'[q] = pc[q] /\ seen'[q] = seen[q]
        BY <2>3, <3>1 DEF TypeOK, LinksInFlight
      <3>3. QED
        BY <2>1, <3>2 DEF LinksInFlight, RecordDeclared
    <2>4. QED
      BY <1>4, <2>2, <2>3 DEF ReadPredecessor
  <1>5. CASE MarkPredecessor(p)
    <2> DEFINE pred == Head(todo[p])
               marked == [seen[p] EXCEPT !.by = job[p].succ]
    <2>1. pc[p] = "pput" /\ Visit(p, Tail(todo[p])) /\ UNCHANGED <<job, draft, seen, declared>>
          /\ store' = [store EXCEPT ![pred] = marked]
      BY <1>5 DEF MarkPredecessor
    <2>2. seen[p] \in Record /\ seen[p].doc.key = pred /\ <<job[p].succ, pred>> \in declared
      BY <2>1, RecordFacts, TailOK DEF TypeOK, ProcOK, LinksInFlight
    <2>3. marked.by = job[p].succ /\ marked.doc = seen[p].doc
      BY <2>2 DEF Record
    <2>4. RecordDeclared(marked)
      BY <2>1, <2>2, <2>3 DEF RecordDeclared, LinksInFlight
    <2> HIDE DEF marked
    <2>5. \A k \in Keys : store'[k] # None => RecordDeclared(store'[k])
      BY <2>1, <2>4 DEF LinksInFlight, TypeOK
    <2>6. QED
      BY <2>1, <2>5, VisitLinks
  <1>6. CASE SearchRaises(p) \/ Fail(p) \/ GiveUp(p)
    <2>1. UNCHANGED <<store, job, draft, seen, declared>> /\ pc[p] # "idle"
          /\ pc'[p] \in {"put", "failed", "idle"} /\ (pc'[p] = "put" => pc[p] = "search")
          /\ \A q \in Procs \ {p} : pc'[q] = pc[q]
      BY <1>6 DEF SearchRaises, Fail, GiveUp, procVars, TypeOK
    <2>2. QED
      BY <2>1 DEF LinksInFlight, RecordDeclared
  <1>7. CASE Retry(p)
    <2>1. UNCHANGED <<store, draft, seen, declared>> /\ pc[p] = "failed"
          /\ pc'[p] \in {"get", "pget"} /\ (\A r \in Procs : job'[r] = job[r])
          /\ \A q \in Procs \ {p} : pc'[q] = pc[q]
      BY <1>7 DEF Retry, Enter, TypeOK
    <2>2. QED
      BY <2>1 DEF LinksInFlight, RecordDeclared
  <1>8. QED
    BY <1>1, <1>2, <1>3, <1>4, <1>5, <1>6, <1>7 DEF Step

LEMMA NextLinks == WellFormed /\ LinksInFlight /\ [Next]_vars => LinksInFlight'
  <1> SUFFICES ASSUME WellFormed, LinksInFlight, [Next]_vars PROVE LinksInFlight'
    OBVIOUS
  <1>1. CASE UNCHANGED vars
    BY <1>1 DEF vars, LinksInFlight, RecordDeclared
  <1>2. CASE Next
    BY <1>2, BeginLinks, StepLinks DEF Next
  <1>3. QED BY <1>1, <1>2

\* However many writers race, stale write-backs and retries included, a record
\* never carries superseded_by without a declaration of exactly that link.
THEOREM LinksAreDeclared == Spec => []LinksDeclared
  <1>1. WellFormed /\ LinksInFlight => LinksDeclared
    BY DEF WellFormed, StoreOK, LinksInFlight, RecordDeclared, LinksDeclared, Retired
  <1>2. QED
    BY InitWellFormed, NextWellFormed, InitLinks, NextLinks, <1>1, PTL DEF Spec

-----------------------------------------------------------------------------
(***************************************************************************)
(* A key with a single content.                                            *)
(***************************************************************************)
OneContent(k) == \A d, e \in Payloads : d.key = k /\ e.key = k => d = e

FirstVersions ==
  /\ \A k \in Keys : OneContent(k) /\ store[k] # None => store[k].version = 1
  /\ \A p \in Procs :
       /\ pc[p] \in {"search", "put"} /\ OneContent(draft[p].doc.key)
            => draft[p].version = 1
       /\ pc[p] = "pput" /\ OneContent(seen[p].doc.key) => seen[p].version = 1

LEMMA VisitVersions ==
  ASSUME WellFormed, FirstVersions, NEW p \in Procs, NEW left, Visit(p, left),
         UNCHANGED <<draft, seen>>,
         \A k \in Keys : OneContent(k) /\ store'[k] # None => store'[k].version = 1
  PROVE  FirstVersions'
  <1>1. pc'[p] \in {"idle", "pget"} /\ \A q \in Procs \ {p} : pc'[q] = pc[q]
    BY DEF Visit, WellFormed, TypeOK
  <1>2. QED
    BY <1>1 DEF FirstVersions, OneContent

LEMMA StepVersions ==
  ASSUME WellFormed, FirstVersions, NEW p \in Procs, Step(p)
  PROVE  FirstVersions'
  <1> USE DEF WellFormed
  <1>1. CASE ReadExisting(p)
    <2> DEFINE doc == job[p].doc
               version == IF store[doc.key] = None THEN 1 ELSE store[doc.key].version + 1
               new == [doc |-> doc, version |-> version, by |-> None]
    <2>1. doc \in Payloads /\ doc.key \in Keys /\ pc[p] = "get" /\ UNCHANGED <<store, seen>>
      BY <1>1, JobFacts, PayloadFacts DEF ReadExisting, Unchanged, NextVersion, NoOp, ProcOK
    <2>2. CASE store[doc.key] # None /\ store[doc.key].doc = doc
      <3>1. Visit(p, todo[p]) /\ UNCHANGED draft
        BY <1>1, <2>2 DEF ReadExisting, Unchanged, NextVersion, NoOp
      <3>2. QED
        BY <2>1, <3>1, VisitVersions DEF FirstVersions
    <2>3. CASE ~(store[doc.key] # None /\ store[doc.key].doc = doc)
      <3>1. draft' = [draft EXCEPT ![p] = new] /\ pc' = [pc EXCEPT ![p] = "search"]
        BY <1>1, <2>3 DEF ReadExisting, Unchanged, NextVersion, NoOp
      <3>2. OneContent(doc.key) => version = 1
        <4>1. CASE store[doc.key] = None
          BY <4>1
        <4>2. CASE store[doc.key] # None
          <5>1. store[doc.key].doc \in Payloads /\ store[doc.key].doc.key = doc.key
            BY <2>1, <4>2, RecordFacts DEF TypeOK, StoreOK
          <5>2. QED BY <2>1, <2>3, <4>2, <5>1 DEF OneContent
        <4>3. QED BY <4>1, <4>2
      <3> HIDE DEF version
      <3>3. draft'[p].doc = doc /\ draft'[p].version = version /\ pc'[p] = "search"
            /\ \A q \in Procs \ {p} : pc'[q] = pc[q] /\ draft'[q] = draft[q]
        BY <3>1 DEF TypeOK
      <3>4. QED
        BY <2>1, <3>2, <3>3 DEF FirstVersions, OneContent
    <2>4. QED BY <2>2, <2>3
  <1>2. CASE SearchPage(p)
    <2>1. pc[p] = "search" /\ UNCHANGED <<store, seen>> /\ draft[p] \in Record
      BY <1>2, RecordFacts DEF SearchPage, Names, LastPage, TypeOK, ProcOK
    <2>2. pc'[p] \in {"search", "put"} /\ \A q \in Procs \ {p} : pc'[q] = pc[q]
      BY <1>2, <2>1 DEF SearchPage, Names, LastPage, TypeOK
    <2>3. draft'[p].doc = draft[p].doc /\ draft'[p].version = draft[p].version
          /\ \A q \in Procs \ {p} : draft'[q] = draft[q]
      <3>1. CASE UNCHANGED draft
        BY <3>1
      <3>2. CASE \E s \in Keys : draft' = [draft EXCEPT ![p].by = s]
        BY <2>1, <3>2 DEF TypeOK, Record
      <3>3. QED BY <1>2, <3>1, <3>2 DEF SearchPage, Names, LastPage, Page
    <2>4. QED
      BY <2>1, <2>2, <2>3 DEF FirstVersions, OneContent
  <1>3. CASE PutRecord(p)
    <2>1. pc[p] = "put" /\ Visit(p, todo[p]) /\ UNCHANGED <<draft, seen>>
          /\ store' = [store EXCEPT ![job[p].succ] = draft[p]]
      BY <1>3 DEF PutRecord
    <2>2. draft[p].doc.key = job[p].succ
      BY <2>1, JobFacts DEF ProcOK
    <2>3. \A k \in Keys : OneContent(k) /\ store'[k] # None => store'[k].version = 1
      BY <2>1, <2>2 DEF FirstVersions, TypeOK
    <2>4. QED BY <2>1, <2>3, VisitVersions
  <1>4. CASE ReadPredecessor(p)
    <2>1. pc[p] = "pget" /\ UNCHANGED <<draft, store>> /\ Head(todo[p]) \in Keys
      BY <1>4, TailOK DEF ReadPredecessor
    <2>2. CASE Visit(p, Tail(todo[p])) /\ UNCHANGED seen
      BY <2>1, <2>2, VisitVersions DEF FirstVersions
    <2>3. CASE /\ store[Head(todo[p])] # None
               /\ seen' = [seen EXCEPT ![p] = store[Head(todo[p])]]
               /\ pc' = [pc EXCEPT ![p] = "pput"]
      <3>1. seen'[p] = store[Head(todo[p])] /\ pc'[p] = "pput"
            /\ \A q \in Procs \ {p} : pc'[q] = pc[q] /\ seen'[q] = seen[q]
        BY <2>3 DEF TypeOK
      <3>2. store[Head(todo[p])].doc.key = Head(todo[p])
        BY <2>1, <2>3 DEF StoreOK
      <3>3. QED
        BY <2>1, <2>3, <3>1, <3>2 DEF FirstVersions, OneContent
    <2>4. QED
      BY <1>4, <2>2, <2>3 DEF ReadPredecessor
  <1>5. CASE MarkPredecessor(p)
    <2> DEFINE pred == Head(todo[p])
               marked == [seen[p] EXCEPT !.by = job[p].succ]
    <2>1. pc[p] = "pput" /\ Visit(p, Tail(todo[p])) /\ UNCHANGED <<draft, seen>>
          /\ store' = [store EXCEPT ![pred] = marked]
      BY <1>5 DEF MarkPredecessor
    <2>2. seen[p] \in Record /\ seen[p].doc.key = pred
      BY <2>1, RecordFacts DEF TypeOK, ProcOK
    <2>3. marked.version = seen[p].version
      BY <2>2 DEF Record
    <2> HIDE DEF marked
    <2>4. \A k \in Keys : OneContent(k) /\ store'[k] # None => store'[k].version = 1
      BY <2>1, <2>2, <2>3 DEF FirstVersions, TypeOK
    <2>5. QED BY <2>1, <2>4, VisitVersions
  <1>6. CASE SearchRaises(p) \/ Retry(p)
    <2>1. UNCHANGED <<store, draft, seen>>
          /\ pc'[p] \in {"put", "get", "pget"} /\ (pc'[p] = "put" => pc[p] = "search")
          /\ \A q \in Procs \ {p} : pc'[q] = pc[q]
      BY <1>6 DEF SearchRaises, Retry, Enter, procVars, TypeOK
    <2>2. QED
      BY <2>1 DEF FirstVersions, OneContent
  <1>7. QED
    BY <1>1, <1>2, <1>3, <1>4, <1>5, <1>6 DEF Step

LEMMA NextVersions == WellFormed /\ FirstVersions /\ [Next]_vars => FirstVersions'
  <1> SUFFICES ASSUME WellFormed, FirstVersions, [Next]_vars PROVE FirstVersions'
    OBVIOUS
  <1>1. CASE UNCHANGED vars
    BY <1>1 DEF vars, FirstVersions, OneContent
  <1>2. ASSUME NEW p \in Procs, NEW j \in Jobs, Begin(p, j)
        PROVE  FirstVersions'
    <2>1. UNCHANGED <<store, draft, seen>> /\ pc'[p] \in {"get", "pget"}
          /\ \A q \in Procs \ {p} : pc'[q] = pc[q]
      BY <1>2 DEF Begin, Enter, WellFormed, TypeOK
    <2>2. QED BY <2>1 DEF FirstVersions, OneContent
  <1>3. ASSUME NEW p \in Procs, Fail(p) \/ GiveUp(p)
        PROVE  FirstVersions'
    <2>1. UNCHANGED <<store, draft, seen>> /\ pc'[p] \in {"failed", "idle"}
          /\ \A q \in Procs \ {p} : pc'[q] = pc[q]
      BY <1>3 DEF Fail, GiveUp, procVars, WellFormed, TypeOK
    <2>2. QED BY <2>1 DEF FirstVersions, OneContent
  <1>4. QED
    BY <1>1, <1>2, <1>3, StepVersions DEF Next

\* Redelivery, retries and simultaneous deliveries of one content never create a
\* second version of it, for any number of writers.
THEOREM DuplicatesDoConverge == Spec => []DuplicatesConverge
  <1>1. Init => FirstVersions
    BY DEF Init, FirstVersions
  <1>2. FirstVersions => DuplicatesConverge
    BY DEF FirstVersions, OneContent, DuplicatesConverge
  <1>3. QED
    BY InitWellFormed, NextWellFormed, <1>1, NextVersions, <1>2, PTL DEF Spec

-----------------------------------------------------------------------------
(***************************************************************************)
(* Calls one at a time.  The draft was built from the record that is still *)
(* stored, and apply_supersessions writes back the record that is still    *)
(* stored.                                                                 *)
(***************************************************************************)
Running(p) == pc[p] \notin {"idle", "failed"}

\* No two calls run at once, be it because a single process writes or because the
\* processes take turns.  A call that failed and waits to be redelivered does not run:
\* others may run before it is tried again.
Serial == \A p, q \in Procs : Running(p) /\ Running(q) => p = q

\* No process but p runs, before the step or after it.
Alone(p) ==
  \A q \in Procs \ {p} : ~Running(q) /\ pc'[q] = pc[q] /\ job'[q] = job[q]

Fresh ==
  \A p \in Procs :
    /\ pc[p] \in {"search", "put"} =>
         LET key == job[p].succ IN
         \/ store[key] = None /\ draft[p].version = 1
         \/ /\ store[key] # None /\ store[key].doc # draft[p].doc
            /\ draft[p].version = store[key].version + 1
    /\ pc[p] = "pput" => seen[p] = store[Head(todo[p])]

LEMMA SerialIsAlone ==
  ASSUME WellFormed, Serial, Serial', NEW p \in Procs,
         Step(p) \/ Fail(p) \/ \E j \in Jobs : Begin(p, j)
  PROVE  Alone(p)
  <1>1. \A q \in Procs \ {p} : pc'[q] = pc[q] /\ job'[q] = job[q]
    BY DEF Step, ReadExisting, NoOp, Visit, SearchPage, SearchRaises, PutRecord,
           ReadPredecessor, MarkPredecessor, Retry, Enter, Fail, Begin, procVars,
           WellFormed, TypeOK
  <1>2. Running(p) \/ Running(p)'
    <2>1. CASE Step(p) /\ ~Retry(p)
      BY <2>1 DEF Step, ReadExisting, SearchPage, SearchRaises, PutRecord,
                  ReadPredecessor, MarkPredecessor, Running
    <2>2. CASE Retry(p) \/ \E j \in Jobs : Begin(p, j)
      <3>1. pc'[p] \in {"get", "pget"}
        BY <2>2 DEF Retry, Begin, Enter, WellFormed, TypeOK
      <3>2. QED BY <3>1 DEF Running
    <2>3. CASE Fail(p)
      BY <2>3 DEF Fail, Running
    <2>4. QED BY <2>1, <2>2, <2>3 DEF Step
  <1>3. ASSUME NEW q \in Procs \ {p} PROVE ~Running(q)
    <2>1. Running(q)' <=> Running(q)
      BY <1>1 DEF Running
    <2>2. QED BY <1>2, <2>1 DEF Serial
  <1>4. QED BY <1>1, <1>3 DEF Alone

LEMMA SerialStep ==
  ASSUME WellFormed, Fresh, NEW p \in Procs, Alone(p), Step(p)
  PROVE  Fresh' /\ VersionStep
  <1> USE DEF WellFormed
  <1>1. CASE ReadExisting(p)
    <2> DEFINE doc == job[p].doc
               version == IF store[doc.key] = None THEN 1 ELSE store[doc.key].version + 1
               new == [doc |-> doc, version |-> version, by |-> None]
    <2>1. job[p].succ = doc.key /\ UNCHANGED <<store, job>> /\ pc[p] = "get"
      BY <1>1, JobFacts DEF ReadExisting, Unchanged, NextVersion, NoOp, ProcOK
    <2>2. CASE store[doc.key] # None /\ store[doc.key].doc = doc
      <3>1. Visit(p, todo[p])
        BY <1>1, <2>2 DEF ReadExisting, Unchanged, NextVersion, NoOp
      <3>2. pc'[p] \in {"idle", "pget"}
        BY <3>1 DEF Visit, TypeOK
      <3>3. Fresh'
        BY <3>2 DEF Fresh, Alone, Running
      <3>4. QED
        BY <2>1, <3>3 DEF VersionStep
    <2>3. CASE ~(store[doc.key] # None /\ store[doc.key].doc = doc)
      <3>1. draft'[p] = new /\ pc'[p] = "search"
        BY <1>1, <2>3 DEF ReadExisting, Unchanged, NextVersion, NoOp, TypeOK
      <3>2. QED
        BY <2>1, <2>3, <3>1 DEF Fresh, Alone, Running, VersionStep
    <2>4. QED BY <2>2, <2>3
  <1>2. CASE SearchPage(p)
    <2>1. pc[p] = "search" /\ UNCHANGED <<store, job>> /\ draft[p] \in Record
          /\ pc'[p] \in {"search", "put"}
      BY <1>2, RecordFacts DEF SearchPage, Names, LastPage, TypeOK, ProcOK
    <2>2. draft'[p].doc = draft[p].doc /\ draft'[p].version = draft[p].version
      <3>1. CASE UNCHANGED draft
        BY <3>1
      <3>2. CASE \E s \in Keys : draft' = [draft EXCEPT ![p].by = s]
        BY <2>1, <3>2 DEF TypeOK, Record
      <3>3. QED BY <1>2, <3>1, <3>2 DEF SearchPage, Names, LastPage, Page
    <2>3. QED
      BY <2>1, <2>2 DEF Fresh, Alone, Running, VersionStep
  <1>3. CASE PutRecord(p)
    <2>1. pc[p] = "put" /\ Visit(p, todo[p])
          /\ store' = [store EXCEPT ![job[p].succ] = draft[p]]
      BY <1>3 DEF PutRecord
    <2>2. pc'[p] \in {"idle", "pget"} /\ draft[p] # None
      BY <2>1 DEF Visit, TypeOK, ProcOK
    <2>3. Fresh'
      BY <2>2 DEF Fresh, Alone, Running
    <2>4. VersionStep
      BY <2>1, <2>2 DEF Fresh, VersionStep, TypeOK
    <2>5. QED BY <2>3, <2>4
  <1>4. CASE ReadPredecessor(p)
    <2>1. UNCHANGED store /\ pc'[p] \in {"idle", "pget", "pput"}
          /\ (pc'[p] = "pput" => seen'[p] = store[Head(todo[p])] /\ todo'[p] = todo[p])
      BY <1>4 DEF ReadPredecessor, Visit, TypeOK
    <2>2. QED
      BY <2>1 DEF Fresh, Alone, Running, VersionStep
  <1>5. CASE MarkPredecessor(p)
    <2> DEFINE pred == Head(todo[p])
               marked == [seen[p] EXCEPT !.by = job[p].succ]
    <2>1. pc[p] = "pput" /\ Visit(p, Tail(todo[p]))
          /\ store' = [store EXCEPT ![pred] = marked]
      BY <1>5 DEF MarkPredecessor
    <2>2. seen[p] \in Record /\ seen[p] = store[pred] /\ job[p].succ \in Keys
      BY <2>1, RecordFacts, JobFacts DEF TypeOK, ProcOK, Fresh
    <2>3. marked \in Record /\ marked # None /\ marked.doc = seen[p].doc
          /\ marked.version = seen[p].version
      BY <2>2, NoneIsNoRecord DEF Record
    <2>4. pc'[p] \in {"idle", "pget"}
      BY <2>1 DEF Visit, TypeOK
    <2> HIDE DEF marked
    <2>5. Fresh'
      BY <2>4 DEF Fresh, Alone, Running
    <2>6. VersionStep
      BY <2>1, <2>2, <2>3 DEF VersionStep, TypeOK
    <2>7. QED BY <2>5, <2>6
  <1>6. CASE SearchRaises(p) \/ Retry(p)
    <2>1. UNCHANGED store /\ pc'[p] \in {"put", "get", "pget"}
          /\ (pc'[p] = "put" => pc[p] = "search" /\ job'[p] = job[p] /\ draft'[p] = draft[p])
      BY <1>6 DEF SearchRaises, Retry, Enter, procVars, TypeOK
    <2>2. QED
      BY <2>1 DEF Fresh, Alone, Running, VersionStep
  <1>7. QED
    BY <1>1, <1>2, <1>3, <1>4, <1>5, <1>6 DEF Step

LEMMA SerialNext ==
  ASSUME WellFormed, Fresh, Serial, Serial', [Next]_vars
  PROVE  Fresh' /\ [VersionStep]_store
  <1>1. CASE UNCHANGED vars
    BY <1>1 DEF vars, Fresh
  <1>2. ASSUME NEW p \in Procs,
               Fail(p) \/ GiveUp(p) \/ \E j \in Jobs : Begin(p, j)
        PROVE  Fresh' /\ UNCHANGED store
    <2>1. /\ UNCHANGED <<store, draft, seen>> /\ pc'[p] \in {"failed", "idle", "get", "pget"}
          /\ \A q \in Procs \ {p} : pc'[q] = pc[q] /\ job'[q] = job[q] /\ todo'[q] = todo[q]
      BY <1>2 DEF Fail, GiveUp, Begin, Enter, procVars, WellFormed, TypeOK
    <2>2. QED BY <2>1 DEF Fresh
  <1>3. ASSUME NEW p \in Procs, Step(p)
        PROVE  Fresh' /\ VersionStep
    BY <1>3, SerialIsAlone, SerialStep
  <1>4. QED
    BY <1>1, <1>2, <1>3 DEF Next

\* When calls do not overlap, whatever they crash in the middle of, however often they
\* are redelivered and whichever processes run them, the version of a record is advanced
\* by exactly one when its content changes, and neither changes otherwise.  The
\* hypothesis is necessary: writer_race_version refutes the weaker
\* VersionNeverDecreases for two calls that overlap.
THEOREM SerialVersions == Spec /\ []Serial => VersionDiscipline
  <1>1. Init => Fresh
    BY DEF Init, Fresh
  <1>2. WellFormed /\ Fresh /\ Serial /\ Serial' /\ [Next]_vars
          => Fresh' /\ [VersionStep]_store
    BY SerialNext
  <1>3. QED
    BY InitWellFormed, NextWellFormed, <1>1, <1>2, PTL DEF Spec, VersionDiscipline

\* In particular for a single writing process, which the run writer_single has.
COROLLARY SoleWriterVersions ==
  ASSUME \A p, q \in Procs : p = q
  PROVE  Spec => VersionDiscipline
  <1>1. Serial
    BY DEF Serial
  <1>2. QED
    BY <1>1, SerialVersions, PTL

-----------------------------------------------------------------------------
(***************************************************************************)
(* Counting, as in RetrievalProofs.                                        *)
(***************************************************************************)
\* A numbering of a finite set that repeats no number uses all of them.
LEMMA NumberingIsOnto ==
  ASSUME NEW S, IsFiniteSet(S), NEW f \in [S -> 1 .. Cardinality(S)],
         \A x, y \in S : f[x] = f[y] => x = y,
         NEW n \in 1 .. Cardinality(S)
  PROVE  \E x \in S : f[x] = n
  <1> DEFINE N == Cardinality(S)
             T == (1 .. N) \ {n}
  <1> SUFFICES ASSUME \A x \in S : f[x] # n PROVE FALSE
    OBVIOUS
  <1>1. N \in Nat
    BY FS_CardinalityType
  <1>2. IsFiniteSet(1 .. N) /\ Cardinality(1 .. N) = N
    BY <1>1, FS_Interval
  <1>3. IsFiniteSet(T) /\ Cardinality(T) = N - 1
    BY <1>2, FS_RemoveElement
  <1>4. f \in [S -> T]
    OBVIOUS
  <1>5. Cardinality(T) < Cardinality(S)
    BY <1>1, <1>3
  <1> HIDE DEF T
  <1>6. \E x, y \in S : x # y /\ f[x] = f[y]
    BY <1>3, <1>4, <1>5, FS_PigeonHole
  <1>7. QED
    BY <1>6

LEMMA IntervalFacts ==
  ASSUME NEW n \in Nat
  PROVE  IsFiniteSet(1 .. n) /\ Cardinality(1 .. n) = n
  <1>1. IsFiniteSet(1 .. n) /\ Cardinality(1 .. n) = IF 1 > n THEN 0 ELSE n - 1 + 1
    BY FS_Interval
  <1>2. QED
    BY <1>1

\* R is a strict total order of S.
IsOrder(S, R) ==
  /\ \A x \in S : <<x, x>> \notin R
  /\ \A x, y, z \in S : <<x, y>> \in R /\ <<y, z>> \in R => <<x, z>> \in R
  /\ \A x, y \in S : x # y => <<x, y>> \in R \/ <<y, x>> \in R

Before(S, R, x) == {y \in S : <<y, x>> \in R}

\* The number of elements before one tells its place, and every place is taken.
Numbers(S, R) ==
  /\ \A x \in S : Cardinality(Before(S, R, x)) \in 0 .. Cardinality(S) - 1
  /\ \A x, z \in S : <<x, z>> \in R =>
       Cardinality(Before(S, R, x)) < Cardinality(Before(S, R, z))
  /\ \A n \in 1 .. Cardinality(S) : \E x \in S : Cardinality(Before(S, R, x)) = n - 1

LEMMA OrderNumbers ==
  ASSUME NEW S, IsFiniteSet(S), NEW R, IsOrder(S, R)
  PROVE  Numbers(S, R)
  <1> DEFINE N == Cardinality(S)
             B(x) == Before(S, R, x)
  <1>1. N \in Nat
    BY FS_CardinalityType
  <1>0. \A x \in S : B(x) \in SUBSET S
    BY DEF Before
  <1>2. \A x \in S : IsFiniteSet(B(x)) /\ Cardinality(B(x)) \in Nat
    BY <1>0, FS_Subset, FS_CardinalityType
  <1>3. ASSUME NEW x \in S PROVE Cardinality(B(x)) \in 0 .. N - 1
    <2>1. B(x) \in SUBSET S /\ B(x) # S
      BY DEF Before, IsOrder
    <2> HIDE DEF B
    <2>2. Cardinality(B(x)) <= N /\ Cardinality(B(x)) # N
      BY <2>1, FS_Subset
    <2>3. QED
      BY <1>1, <1>2, <2>2
  <1>4. ASSUME NEW x \in S, NEW z \in S, <<x, z>> \in R
        PROVE  Cardinality(B(x)) < Cardinality(B(z))
    <2>1. B(x) \in SUBSET B(z) /\ x \in B(z) /\ x \notin B(x)
      BY <1>4 DEF Before, IsOrder
    <2> HIDE DEF B
    <2>2. Cardinality(B(x)) <= Cardinality(B(z)) /\ Cardinality(B(z)) # Cardinality(B(x))
      BY <1>2, <2>1, FS_Subset
    <2>3. QED
      BY <1>2, <2>2
  <1>5. ASSUME NEW n \in 1 .. N PROVE \E x \in S : Cardinality(B(x)) = n - 1
    <2> DEFINE f == [x \in S |-> Cardinality(B(x)) + 1]
    <2> HIDE DEF B
    <2>1. f \in [S -> 1 .. N]
      BY <1>1, <1>3
    <2>2. \A x, y \in S : f[x] = f[y] => x = y
      <3> SUFFICES ASSUME NEW x \in S, NEW y \in S, x # y PROVE f[x] # f[y]
        OBVIOUS
      <3>1. Cardinality(B(x)) < Cardinality(B(y)) \/ Cardinality(B(y)) < Cardinality(B(x))
        BY <1>4 DEF IsOrder
      <3>2. QED
        BY <1>2, <3>1
    <2> HIDE DEF f
    <2>3. \E x \in S : f[x] = n
      BY <2>1, <2>2, NumberingIsOnto
    <2>4. QED
      BY <1>1, <1>2, <2>3 DEF f
  <1>6. QED
    BY <1>3, <1>4, <1>5 DEF Numbers

-----------------------------------------------------------------------------
(***************************************************************************)
(* The forward lookup.  The store keeps its records in a strict total      *)
(* order of recency, so the pages of a namespace leave no gap.             *)
(***************************************************************************)
Stored == {k \in Keys : store[k] # None}

RecencyOK ==
  /\ newer \subseteq Stored \X Stored
  /\ IsFiniteSet(Stored) /\ IsOrder(Stored, newer)

InNamespace(n) == {k \in Stored : NsOf[k] = n}

LEMMA NamespaceOrder ==
  ASSUME RecencyOK, NEW n
  PROVE  IsFiniteSet(InNamespace(n)) /\ Numbers(InNamespace(n), newer)
  <1> DEFINE S == InNamespace(n)
  <1>1. S \in SUBSET Stored
    BY DEF InNamespace
  <1>2. IsOrder(S, newer)
    BY <1>1 DEF RecencyOK, IsOrder
  <1> HIDE DEF S
  <1>3. IsFiniteSet(S)
    BY <1>1, FS_Subset DEF RecencyOK
  <1>4. Numbers(S, newer)
    BY <1>2, <1>3, OrderNumbers
  <1>5. QED
    BY <1>3, <1>4 DEF S

LEMMA PositionIsNumber ==
  ASSUME RecencyOK, NEW n, NEW k \in InNamespace(n)
  PROVE  Position(k) = Cardinality(Before(InNamespace(n), newer, k))
  <1>1. {x \in Keys : NsOf[x] = NsOf[k] /\ <<x, k>> \in newer}
          = Before(InNamespace(n), newer, k)
    BY DEF RecencyOK, InNamespace, Stored, Before
  <1>2. QED
    BY <1>1 DEF Position

LEMMA PositionFacts ==
  ASSUME RecencyOK, NEW n
  PROVE  /\ \A k \in InNamespace(n) : Position(k) \in Nat
         /\ \A k \in InNamespace(n) : \A i \in Nat :
              i < Position(k) => \E x \in InNamespace(n) : Position(x) = i
  <1> DEFINE S == InNamespace(n)
             N == Cardinality(S)
  <1>1. IsFiniteSet(S) /\ Numbers(S, newer)
    BY NamespaceOrder
  <1>2. \A k \in S : Position(k) = Cardinality(Before(S, newer, k))
    BY PositionIsNumber
  <1> HIDE DEF S
  <1>3. N \in Nat
    BY <1>1, FS_CardinalityType
  <1>4. \A k \in S : Position(k) \in 0 .. N - 1
    BY <1>1, <1>2 DEF Numbers
  <1>5. ASSUME NEW k \in S, NEW i \in Nat, i < Position(k)
        PROVE  \E x \in S : Position(x) = i
    <2>1. i + 1 \in 1 .. N
      BY <1>3, <1>4, <1>5
    <2>2. PICK x \in S : Cardinality(Before(S, newer, x)) = (i + 1) - 1
      BY <1>1, <2>1 DEF Numbers
    <2>3. Position(x) = i
      BY <1>2, <2>2
    <2>4. QED
      BY <2>3
  <1>6. QED
    BY <1>3, <1>4, <1>5 DEF S

\* A short page is the last one: no record of the namespace lies behind it.
LEMMA ShortPageIsLast ==
  ASSUME RecencyOK, NEW n, NEW from \in Nat, LastPage(Page(n, from)),
         NEW s \in InNamespace(n), Position(s) >= from
  PROVE  s \in Page(n, from)
  <1> DEFINE S == InNamespace(n)
             P == Page(n, from)
             f == [i \in 1 .. PageSize |-> CHOOSE x \in S : Position(x) = from + i - 1]
  <1>1. \A x : x \in P <=> x \in S /\ Position(x) \in from .. (from + PageSize - 1)
    BY DEF Page, InNamespace, Stored
  <1> SUFFICES ASSUME s \notin P PROVE FALSE
    OBVIOUS
  <1>2. PageSize \in Nat \ {0} /\ Position(s) \in Nat
    BY PositionFacts, ConstantAssumption
  <1>3. Position(s) >= from + PageSize
    BY <1>1, <1>2
  <1>4. \A i \in 1 .. PageSize : \E x \in S : Position(x) = from + i - 1
    <2> TAKE i \in 1 .. PageSize
    <2>1. from + i - 1 \in Nat /\ from + i - 1 < Position(s)
      BY <1>2, <1>3
    <2>2. QED
      BY <2>1, PositionFacts
  <1> HIDE DEF S
  <1>5. \A i \in 1 .. PageSize : f[i] \in S /\ Position(f[i]) = from + i - 1
    BY <1>4
  <1> HIDE DEF f, P
  <1>6. \A i \in 1 .. PageSize : f[i] \in P
    <2> TAKE i \in 1 .. PageSize
    <2>1. from + i - 1 \in from .. (from + PageSize - 1)
      BY <1>2
    <2>2. QED
      BY <1>1, <1>5, <2>1
  <1>7. f \in [1 .. PageSize -> P]
    BY <1>6 DEF f
  <1>8. IsFiniteSet(P) /\ Cardinality(P) \in Nat
    <2>1. P \in SUBSET S
      BY <1>1
    <2>2. IsFiniteSet(S)
      BY NamespaceOrder DEF S
    <2>3. QED
      BY <2>1, <2>2, FS_Subset, FS_CardinalityType
  <1>9. IsFiniteSet(1 .. PageSize) /\ Cardinality(1 .. PageSize) = PageSize
    BY <1>2, IntervalFacts
  <1>10. Cardinality(P) < Cardinality(1 .. PageSize)
    BY <1>9 DEF LastPage, P
  <1>11. \E i, j \in 1 .. PageSize : i # j /\ f[i] = f[j]
    BY <1>7, <1>8, <1>9, <1>10, FS_PigeonHole
  <1>12. PICK i \in 1 .. PageSize, j \in 1 .. PageSize : i # j /\ f[i] = f[j]
    BY <1>11
  <1>13. from + i - 1 = from + j - 1
    BY <1>5, <1>12
  <1>14. QED
    BY <1>12, <1>13

\* A put moves its record to the front and leaves the others in their order.
LEMMA TouchKeepsOrder ==
  ASSUME TypeOK, RecencyOK, NEW k \in Keys, NEW r, r # None,
         store' = [store EXCEPT ![k] = r], newer' = Touch(k)
  PROVE  RecencyOK'
  <1>1. Stored' = Stored \cup {k}
    BY DEF Stored, TypeOK
  <1>2. Stored = {y \in Keys : store[y] # None}
    BY DEF Stored
  <1>3. \A x, y : <<x, y>> \in newer' <=>
                    \/ <<x, y>> \in newer /\ x # k /\ y # k
                    \/ x = k /\ y # k /\ y \in Stored
    BY <1>2 DEF Touch, RecencyOK
  <1>4. newer' \subseteq (Stored \cup {k}) \X (Stored \cup {k})
    BY <1>2 DEF Touch, RecencyOK
  <1>5. IsFiniteSet(Stored \cup {k})
    BY FS_AddElement DEF RecencyOK
  <1>6. IsOrder(Stored \cup {k}, newer')
    BY <1>3 DEF RecencyOK, IsOrder
  <1>7. QED
    BY <1>1, <1>4, <1>5, <1>6 DEF RecencyOK, IsOrder

-----------------------------------------------------------------------------
(***************************************************************************)
(* Declared links are applied, by calls that do not overlap and a lookup   *)
(* that answers.                                                           *)
(***************************************************************************)
\* Record s, as stored now, declares that it supersedes k of its own namespace.
Declares(s, k) ==
  /\ store[s] # None /\ NsOf[k] = NsOf[s]
  /\ k \in Entries(store[s].doc.sup)

\* A write that has not reached apply_supersessions has every predecessor to visit.
TodoOK ==
  \A p \in Procs : pc[p] \in {"get", "search", "put"} => todo[p] = job[p].preds

\* The forward lookup has not gone past a record that declares its key, and when it
\* is over such a record, if there is one, has given the draft a link.
LookupOK ==
  \A p \in Procs : pc[p] \in {"search", "put"} =>
    \A s \in Keys : Declares(s, job[p].succ) =>
      /\ pc[p] = "search" => Position(s) >= offset[p]
      /\ pc[p] = "put" => draft[p].by # None

\* The write of payload d is under way or will be retried, and has k to visit.
Pending(p, d, k) ==
  /\ job[p] = WriteJob(d)
  /\ \/ pc[p] \in {"get", "failed"}
     \/ pc[p] \in {"pget", "pput"} /\ k \in Entries(todo[p])

\* A declared predecessor that is not retired yet is still on somebody's list.
LinksOK ==
  \A s, k \in Keys :
    Declares(s, k) /\ store[k] # None /\ WriteJob(store[s].doc) \notin gaveUp =>
      Retired(k) \/ \E p \in Procs : Pending(p, store[s].doc, k)

LinkInv == WellFormed /\ Fresh /\ RecencyOK /\ TodoOK /\ LookupOK /\ LinksOK

\* The payload of a write is what its call carries.
LEMMA WriteJobFacts ==
  ASSUME NEW j \in Jobs, j.doc # None
  PROVE  j = WriteJob(j.doc)
  <1>1. CASE \E d \in Payloads : j = WriteJob(d)
    <2>1. PICK d \in Payloads : j = WriteJob(d)
      BY <1>1
    <2>2. j.doc = d
      BY <2>1 DEF WriteJob
    <2>3. QED BY <2>1, <2>2
  <1>2. CASE \E c \in Declarations : j = ToolJob(c)
    BY <1>2 DEF ToolJob
  <1>3. QED
    BY <1>1, <1>2 DEF Jobs

-----------------------------------------------------------------------------
\* Steps that leave the store and the abandoned calls alone keep LinksOK when no
\* pending predecessor is forgotten.
LEMMA LinksFrame ==
  ASSUME LinksOK, UNCHANGED store, gaveUp \subseteq gaveUp',
         \A p \in Procs : \A s, k \in Keys :
           /\ Declares(s, k) /\ store[k] # None /\ Pending(p, store[s].doc, k)
           /\ WriteJob(store[s].doc) \notin gaveUp'
           => Pending(p, store[s].doc, k)'
  PROVE  LinksOK'
  <1> SUFFICES ASSUME NEW s \in Keys, NEW k \in Keys,
                      Declares(s, k)', store'[k] # None,
                      WriteJob(store'[s].doc) \notin gaveUp'
               PROVE  Retired(k)' \/ \E p \in Procs : Pending(p, store[s].doc, k)'
    BY Zenon DEF LinksOK
  <1>1. Declares(s, k) /\ store[k] # None /\ WriteJob(store[s].doc) \notin gaveUp'
    BY DEF Declares
  <1>2. WriteJob(store[s].doc) \notin gaveUp
    BY <1>1
  <1>3. CASE Retired(k)
    BY <1>3 DEF Retired
  <1>4. CASE \E p \in Procs : Pending(p, store[s].doc, k)
    <2>1. PICK p \in Procs : Pending(p, store[s].doc, k)
      BY <1>4
    <2>2. Pending(p, store[s].doc, k)'
      BY <1>1, <2>1
    <2>3. QED BY <2>2
  <1>5. QED
    BY <1>1, <1>2, <1>3, <1>4 DEF LinksOK

\* A failed call that waits to be retried keeps what it has to visit.
LEMMA PendingFrame ==
  ASSUME NEW p \in Procs, Alone(p), NEW q \in Procs, q # p, NEW s \in Keys, NEW k \in Keys,
         store'[s].doc = store[s].doc, Pending(q, store[s].doc, k)
  PROVE  Pending(q, store[s].doc, k)'
  <1>1. pc'[q] = "failed" /\ job'[q] = job[q]
    BY DEF Alone, Running, Pending
  <1>2. QED
    BY <1>1 DEF Pending, WriteJob

LEMMA ReadExistingLinks ==
  ASSUME LinkInv, NEW p \in Procs, Alone(p), ReadExisting(p)
  PROVE  TodoOK' /\ LookupOK' /\ LinksOK'
  <1> USE DEF LinkInv
  <1> DEFINE doc == job[p].doc
  <1>1. /\ job[p] \in Jobs /\ doc \in Payloads /\ job[p].succ = doc.key /\ doc.key \in Keys
        /\ pc[p] = "get" /\ todo[p] = job[p].preds
        /\ UNCHANGED <<store, newer, job, gaveUp>>
    BY JobFacts, PayloadFacts DEF ReadExisting, WellFormed, ProcOK, TodoOK
  <1>2. CASE store[doc.key] # None /\ store[doc.key].doc = doc
    <2>1. Visit(p, todo[p])
      BY <1>2 DEF ReadExisting, Unchanged, NoOp
    <2>2. /\ todo'[p] = todo[p] /\ pc'[p] \in {"idle", "pget"}
          /\ (todo[p] # <<>> => pc'[p] = "pget")
      BY <2>1 DEF Visit, WellFormed, TypeOK
    <2>3. TodoOK' /\ LookupOK'
      BY <2>2 DEF TodoOK, LookupOK, Alone, Running
    <2>4. ASSUME NEW q \in Procs, NEW s \in Keys, NEW k \in Keys,
                 Declares(s, k), Pending(q, store[s].doc, k)
          PROVE  Pending(q, store[s].doc, k)'
      <3> SUFFICES ASSUME q = p PROVE Pending(q, store[s].doc, k)'
        BY <1>1, <2>4, PendingFrame
      <3>1. job[p].preds = store[s].doc.sup
        BY <2>4 DEF Pending, WriteJob
      <3>2. k \in Entries(todo[p])
        BY <1>1, <2>4, <3>1 DEF Declares
      <3>3. todo[p] # <<>>
        BY <3>2 DEF Entries
      <3>4. QED
        BY <1>1, <2>2, <2>4, <3>1, <3>2, <3>3 DEF Pending, Entries, WriteJob
    <2>5. LinksOK'
      BY <1>1, <2>4, LinksFrame, Zenon
    <2>6. QED BY <2>3, <2>5
  <1>3. CASE ~(store[doc.key] # None /\ store[doc.key].doc = doc)
    <2>1. pc'[p] = "search" /\ offset'[p] = 0 /\ todo'[p] = todo[p]
      BY <1>3 DEF ReadExisting, Unchanged, WellFormed, TypeOK
    <2>2. TodoOK'
      BY <1>1, <2>1 DEF TodoOK, Alone, Running
    <2>3. \A s \in Keys : store[s] # None => Position(s)' \in Nat
      <3> TAKE s \in Keys
      <3> HAVE store[s] # None
      <3>1. s \in InNamespace(NsOf[s])
        BY DEF InNamespace, Stored
      <3>2. Position(s) \in Nat
        BY <3>1, PositionFacts
      <3>3. QED
        BY <1>1, <3>2 DEF Position
    <2>4. LookupOK'
      BY <1>1, <2>1, <2>3 DEF LookupOK, Alone, Running, Declares
    <2>5. ASSUME NEW q \in Procs, NEW s \in Keys, NEW k \in Keys,
                 Declares(s, k), Pending(q, store[s].doc, k)
          PROVE  Pending(q, store[s].doc, k)'
      <3> SUFFICES ASSUME q = p PROVE FALSE
        BY <1>1, <2>5, PendingFrame
      <3>1. doc = store[s].doc
        BY <2>5 DEF Pending, WriteJob
      <3>2. store[s] # None /\ store[s].doc.key = s
        BY <2>5 DEF Declares, WellFormed, StoreOK
      <3>3. QED BY <1>3, <3>1, <3>2
    <2>6. LinksOK'
      BY <1>1, <2>5, LinksFrame, Zenon
    <2>7. QED BY <2>2, <2>4, <2>6
  <1>4. QED BY <1>2, <1>3

LEMMA SearchPageLinks ==
  ASSUME LinkInv, NEW p \in Procs, Alone(p), SearchPage(p)
  PROVE  TodoOK' /\ LookupOK' /\ LinksOK'
  <1> USE DEF LinkInv
  <1> DEFINE key == job[p].succ
             page == Page(NsOf[key], offset[p])
             hits == {s \in page : Names(s, key)}
  <1>1. /\ pc[p] = "search" /\ UNCHANGED <<store, newer, job, todo, gaveUp>>
        /\ offset[p] \in Nat /\ draft[p] \in Record
    BY RecordFacts DEF SearchPage, WellFormed, TypeOK, ProcOK
  <1>2. pc'[p] \in {"search", "put"}
    BY <1>1 DEF SearchPage, WellFormed, TypeOK
  <1>3. TodoOK'
    BY <1>1, <1>2 DEF TodoOK, Alone, Running
  <1>4. LinksOK'
    <2>1. ASSUME NEW q \in Procs, NEW s \in Keys, NEW k \in Keys,
                 Declares(s, k), Pending(q, store[s].doc, k)
          PROVE  Pending(q, store[s].doc, k)'
      <3>1. q # p
        BY <1>1, <2>1 DEF Pending
      <3>2. QED
        BY <1>1, <2>1, <3>1, PendingFrame
    <2>2. QED
      BY <1>1, <2>1, LinksFrame, Zenon
  <1>5. ASSUME NEW s \in Keys, Declares(s, key)
        PROVE  /\ s \in InNamespace(NsOf[key]) /\ Position(s) \in Nat
               /\ Position(s) >= offset[p] /\ Names(s, key)
    <2>1. s \in InNamespace(NsOf[key])
      BY <1>5 DEF Declares, InNamespace, Stored
    <2>2. Position(s) \in Nat
      BY <2>1, PositionFacts
    <2>3. QED
      BY <1>1, <1>5, <2>1, <2>2 DEF LookupOK, Names, Declares
  <1>6. \A s \in Keys : Declares(s, job[p].succ)' => Declares(s, key)
    BY <1>1 DEF Declares
  <1>7. CASE \E s \in hits : draft' = [draft EXCEPT ![p].by = s]
                             /\ pc' = [pc EXCEPT ![p] = "put"]
    <2>1. PICK s \in hits : draft' = [draft EXCEPT ![p].by = s]
                            /\ pc' = [pc EXCEPT ![p] = "put"]
      BY <1>7
    <2>2. s # None
      BY ConstantAssumption DEF Page
    <2>3. draft'[p].by # None /\ pc'[p] = "put"
      BY <1>1, <2>1, <2>2 DEF WellFormed, TypeOK, Record
    <2>4. LookupOK'
      BY <2>3 DEF LookupOK, Alone, Running
    <2>5. QED BY <1>3, <1>4, <2>4
  <1>8. CASE hits = {} /\ LastPage(page) /\ pc' = [pc EXCEPT ![p] = "put"]
    <2>1. \A s \in Keys : ~Declares(s, key)
      <3> SUFFICES ASSUME NEW s \in Keys, Declares(s, key) PROVE FALSE
        OBVIOUS
      <3>1. s \in InNamespace(NsOf[key]) /\ Position(s) >= offset[p] /\ Names(s, key)
        BY <1>5
      <3>2. s \in page
        BY <1>1, <1>8, <3>1, ShortPageIsLast
      <3>3. QED BY <1>8, <3>1, <3>2
    <2>2. LookupOK'
      BY <1>6, <2>1 DEF LookupOK, Alone, Running
    <2>3. QED BY <1>3, <1>4, <2>2
  <1>9. CASE hits = {} /\ offset' = [offset EXCEPT ![p] = @ + PageSize] /\ UNCHANGED pc
    <2>1. offset'[p] = offset[p] + PageSize /\ pc'[p] = "search"
      BY <1>1, <1>9 DEF WellFormed, TypeOK
    <2>2. ASSUME NEW s \in Keys, Declares(s, key)
          PROVE  Position(s)' >= offset[p] + PageSize
      <3>1. /\ s \in InNamespace(NsOf[key]) /\ Position(s) \in Nat
            /\ Position(s) >= offset[p] /\ Names(s, key)
        BY <1>5, <2>2
      <3>2. s \notin page
        BY <1>9, <3>1
      <3>3. ~(Position(s) \in offset[p] .. (offset[p] + PageSize - 1))
        BY <3>1, <3>2 DEF Page, InNamespace, Stored
      <3>4. Position(s) >= offset[p] + PageSize
        BY <1>1, <3>1, <3>3, ConstantAssumption
      <3>5. QED
        BY <1>1, <3>4 DEF Position
    <2>3. LookupOK'
      BY <1>1, <1>6, <2>1, <2>2 DEF LookupOK, Alone, Running
    <2>4. QED BY <1>3, <1>4, <2>3
  <1>10. QED
    BY <1>7, <1>8, <1>9 DEF SearchPage

LEMMA PutRecordLinks ==
  ASSUME LinkInv, NEW p \in Procs, Alone(p), PutRecord(p)
  PROVE  RecencyOK' /\ TodoOK' /\ LookupOK' /\ LinksOK'
  <1> USE DEF LinkInv
  <1> DEFINE key == job[p].succ
             new == draft[p]
  <1>1. /\ pc[p] = "put" /\ Visit(p, todo[p])
        /\ store' = [store EXCEPT ![key] = new] /\ newer' = Touch(key)
        /\ UNCHANGED <<job, gaveUp>>
    BY DEF PutRecord
  <1>2. /\ job[p] \in Jobs /\ job[p].doc # None /\ key \in Keys
        /\ new \in Record /\ new # None /\ new.doc = job[p].doc /\ new.doc.key = key
        /\ todo[p] = job[p].preds /\ job[p].preds = new.doc.sup
    BY <1>1, JobFacts, RecordFacts DEF WellFormed, TypeOK, ProcOK, TodoOK
  <1>3. job[p] = WriteJob(new.doc)
    BY <1>2, WriteJobFacts
  <1>4. /\ todo'[p] = todo[p] /\ pc'[p] \in {"idle", "pget"}
        /\ (todo[p] # <<>> => pc'[p] = "pget")
    BY <1>1 DEF Visit, WellFormed, TypeOK
  <1>5. TodoOK' /\ LookupOK'
    BY <1>4 DEF TodoOK, LookupOK, Alone, Running
  <1>6. RecencyOK'
    BY <1>1, <1>2, TouchKeepsOrder DEF WellFormed
  <1>7. store'[key] = new /\ \A x \in Keys \ {key} : store'[x] = store[x]
    BY <1>1, <1>2 DEF WellFormed, TypeOK
  <1>8. ASSUME NEW s \in Keys, NEW k \in Keys, Declares(s, k)', store'[k] # None,
               WriteJob(store'[s].doc) \notin gaveUp'
        PROVE  Retired(k)' \/ \E q \in Procs : Pending(q, store[s].doc, k)'
    <2>2. CASE s = key
      <3>1. k \in Entries(todo[p])
        BY <1>2, <1>7, <1>8, <2>2 DEF Declares
      <3>2. todo[p] # <<>>
        BY <3>1 DEF Entries
      <3>3. pc'[p] = "pget" /\ k \in Entries(todo'[p])
        BY <1>4, <3>1, <3>2
      <3>4. job'[p] = WriteJob(store'[s].doc)
        BY <1>1, <1>3, <1>7, <2>2
      <3>5. Pending(p, store[s].doc, k)'
        BY <3>3, <3>4 DEF Pending, WriteJob
      <3>6. QED BY <3>5
    <2>3. CASE s # key /\ k = key
      <3>1. Declares(s, key)
        BY <1>7, <1>8, <2>3 DEF Declares
      <3>2. new.by # None
        BY <1>1, <3>1 DEF LookupOK
      <3>3. QED
        BY <1>7, <1>8, <2>3, <3>2 DEF Retired
    <2>4. CASE s # key /\ k # key
      <3>1. /\ Declares(s, k) /\ store[k] # None /\ WriteJob(store[s].doc) \notin gaveUp
        BY <1>1, <1>7, <1>8, <2>4 DEF Declares
      <3>2. CASE Retired(k)
        BY <1>7, <2>4, <3>2 DEF Retired
      <3>3. CASE ~Retired(k)
        <4>1. PICK q \in Procs : Pending(q, store[s].doc, k)
          BY <3>1, <3>3 DEF LinksOK
        <4>2. q # p
          BY <1>1, <4>1 DEF Pending
        <4>3. Pending(q, store[s].doc, k)'
          BY <1>7, <2>4, <4>1, <4>2, PendingFrame
        <4>4. QED BY <4>3
      <3>4. QED BY <3>2, <3>3
    <2>5. QED BY <2>2, <2>3, <2>4
  <1>9. LinksOK'
    BY <1>8, Zenon DEF LinksOK
  <1>10. QED BY <1>5, <1>6, <1>9

\* What is left of a list once its first entry has been visited.
LEMMA TailEntries ==
  ASSUME NEW s \in Seq(Keys), NEW k \in Entries(s), k # Head(s)
  PROVE  s # <<>> /\ k \in Entries(Tail(s)) /\ Tail(s) # <<>>
  <1>1. PICK i \in 1 .. Len(s) : k = s[i]
    BY DEF Entries
  <1>2. i # 1 /\ Len(s) \in Nat
    BY <1>1
  <1>3. s # <<>> /\ Len(Tail(s)) = Len(s) - 1 /\ Tail(s) \in Seq(Keys)
    BY <1>1, <1>2
  <1>4. i - 1 \in 1 .. Len(Tail(s)) /\ Tail(s)[i - 1] = k
    BY <1>1, <1>2, <1>3
  <1>5. DOMAIN Tail(s) = 1 .. Len(Tail(s))
    BY <1>3
  <1>6. i - 1 \in DOMAIN Tail(s)
    BY <1>4, <1>5
  <1>7. k \in Entries(Tail(s))
    BY <1>4, <1>6, Zenon DEF Entries
  <1>8. Tail(s) # <<>>
    BY <1>6
  <1>9. QED BY <1>3, <1>7, <1>8

LEMMA ReadPredecessorLinks ==
  ASSUME LinkInv, NEW p \in Procs, Alone(p), ReadPredecessor(p)
  PROVE  TodoOK' /\ LookupOK' /\ LinksOK'
  <1> USE DEF LinkInv
  <1> DEFINE pred == Head(todo[p])
  <1>1. /\ pc[p] = "pget" /\ UNCHANGED <<store, job, gaveUp>> /\ todo[p] \in Seq(Keys)
    BY DEF ReadPredecessor, WellFormed, TypeOK
  <1>2. CASE store[pred] = None
    <2>1. Visit(p, Tail(todo[p]))
      BY <1>2 DEF ReadPredecessor
    <2>2. /\ todo'[p] = Tail(todo[p]) /\ pc'[p] \in {"idle", "pget"}
          /\ (Tail(todo[p]) # <<>> => pc'[p] = "pget")
      BY <2>1 DEF Visit, WellFormed, TypeOK
    <2>3. TodoOK' /\ LookupOK'
      BY <2>2 DEF TodoOK, LookupOK, Alone, Running
    <2>4. ASSUME NEW q \in Procs, NEW s \in Keys, NEW k \in Keys,
                 store[k] # None, Pending(q, store[s].doc, k)
          PROVE  Pending(q, store[s].doc, k)'
      <3> SUFFICES ASSUME q = p PROVE Pending(q, store[s].doc, k)'
        BY <1>1, <2>4, PendingFrame
      <3>1. k \in Entries(todo[p]) /\ job[p] = WriteJob(store[s].doc)
        BY <1>1, <2>4 DEF Pending
      <3>2. k # pred
        BY <1>2, <2>4
      <3>3. k \in Entries(Tail(todo[p])) /\ Tail(todo[p]) # <<>>
        BY <1>1, <3>1, <3>2, TailEntries
      <3>4. k \in Entries(todo'[p]) /\ pc'[p] = "pget" /\ job'[p] = WriteJob(store'[s].doc)
        BY <1>1, <2>2, <3>1, <3>3
      <3>5. QED
        BY <1>1, <3>1, <3>4 DEF Pending, Entries, WriteJob
    <2>5. LinksOK'
      BY <1>1, <2>4, LinksFrame, Zenon
    <2>6. QED BY <2>3, <2>5
  <1>3. CASE store[pred] # None
    <2>1. pc'[p] = "pput" /\ UNCHANGED todo
      BY <1>3 DEF ReadPredecessor, WellFormed, TypeOK
    <2>2. TodoOK' /\ LookupOK'
      BY <2>1 DEF TodoOK, LookupOK, Alone, Running
    <2>3. ASSUME NEW q \in Procs, NEW s \in Keys, NEW k \in Keys,
                 Pending(q, store[s].doc, k)
          PROVE  Pending(q, store[s].doc, k)'
      <3>1. CASE q # p
        BY <1>1, <2>3, <3>1, PendingFrame
      <3>2. CASE q = p
        BY <1>1, <2>1, <2>3, <3>2 DEF Pending, Entries, WriteJob
      <3>3. QED BY <3>1, <3>2
    <2>4. LinksOK'
      BY <1>1, <2>3, LinksFrame, Zenon
    <2>5. QED BY <2>2, <2>4
  <1>4. QED BY <1>2, <1>3

LEMMA MarkPredecessorLinks ==
  ASSUME LinkInv, NEW p \in Procs, Alone(p), MarkPredecessor(p)
  PROVE  RecencyOK' /\ TodoOK' /\ LookupOK' /\ LinksOK'
  <1> USE DEF LinkInv
  <1> DEFINE pred == Head(todo[p])
             marked == [seen[p] EXCEPT !.by = job[p].succ]
  <1>1. /\ pc[p] = "pput" /\ Visit(p, Tail(todo[p]))
        /\ store' = [store EXCEPT ![pred] = marked] /\ newer' = Touch(pred)
        /\ UNCHANGED <<job, gaveUp>> /\ todo[p] \in Seq(Keys)
    BY DEF MarkPredecessor, WellFormed, TypeOK
  <1>2. /\ pred \in Keys /\ job[p].succ \in Keys
        /\ seen[p] \in Record /\ seen[p] = store[pred] /\ store[pred] # None
    BY <1>1, TailOK, JobFacts, RecordFacts DEF WellFormed, TypeOK, ProcOK, Fresh
  <1>3. marked \in Record /\ marked # None /\ marked.doc = store[pred].doc
        /\ marked.by # None
    BY <1>2, NoneIsNoRecord, ConstantAssumption DEF Record
  <1> HIDE DEF marked
  <1>4. /\ todo'[p] = Tail(todo[p]) /\ pc'[p] \in {"idle", "pget"}
        /\ (Tail(todo[p]) # <<>> => pc'[p] = "pget")
    BY <1>1 DEF Visit, WellFormed, TypeOK
  <1>5. TodoOK' /\ LookupOK'
    BY <1>4 DEF TodoOK, LookupOK, Alone, Running
  <1>6. RecencyOK'
    BY <1>1, <1>2, <1>3, TouchKeepsOrder DEF WellFormed
  <1>7. store'[pred] = marked /\ \A x \in Keys \ {pred} : store'[x] = store[x]
    BY <1>1, <1>2 DEF WellFormed, TypeOK
  <1>8. \A x \in Keys : /\ store'[x] # None <=> store[x] # None
                        /\ store[x] # None => store'[x].doc = store[x].doc
    BY <1>2, <1>3, <1>7
  <1>9. ASSUME NEW s \in Keys, NEW k \in Keys, Declares(s, k)', store'[k] # None,
               WriteJob(store'[s].doc) \notin gaveUp'
        PROVE  Retired(k)' \/ \E q \in Procs : Pending(q, store[s].doc, k)'
    <2>1. /\ Declares(s, k) /\ store[k] # None /\ store'[s].doc = store[s].doc
      BY <1>8, <1>9 DEF Declares
    <2>2. WriteJob(store[s].doc) \notin gaveUp
      BY <1>1, <1>9, <2>1
    <2>3. CASE k = pred
      BY <1>3, <1>7, <1>9, <2>3 DEF Retired
    <2>4. CASE k # pred /\ Retired(k)
      BY <1>7, <2>4 DEF Retired
    <2>5. CASE k # pred /\ ~Retired(k)
      <3>1. PICK q \in Procs : Pending(q, store[s].doc, k)
        BY <2>1, <2>2, <2>5 DEF LinksOK
      <3> SUFFICES ASSUME q = p PROVE \E r \in Procs : Pending(r, store[s].doc, k)'
        BY <2>1, <3>1, PendingFrame
      <3>2. k \in Entries(todo[p]) /\ job[p] = WriteJob(store[s].doc)
        BY <1>1, <3>1 DEF Pending
      <3>3. k \in Entries(Tail(todo[p])) /\ Tail(todo[p]) # <<>>
        BY <1>1, <2>5, <3>2, TailEntries
      <3>4. k \in Entries(todo'[p]) /\ pc'[p] = "pget" /\ job'[p] = WriteJob(store'[s].doc)
        BY <1>1, <1>4, <2>1, <3>2, <3>3
      <3>5. Pending(p, store[s].doc, k)'
        BY <3>4 DEF Pending, Entries, WriteJob
      <3>6. QED BY <3>5
    <2>6. QED BY <2>3, <2>4, <2>5
  <1>10. LinksOK'
    BY <1>9, Zenon DEF LinksOK
  <1>11. QED BY <1>5, <1>6, <1>10

LEMMA CallLinks ==
  ASSUME LinkInv, NEW p \in Procs, Alone(p),
         Fail(p) \/ Retry(p) \/ \E j \in Jobs : Begin(p, j)
  PROVE  TodoOK' /\ LookupOK' /\ LinksOK'
  <1> USE DEF LinkInv
  <1>1. CASE Fail(p)
    <2>1. pc'[p] = "failed" /\ UNCHANGED <<store, job, gaveUp>>
          /\ pc[p] \in {"get", "search", "put", "pget", "pput"}
      BY <1>1 DEF Fail, procVars, WellFormed, TypeOK
    <2>2. TodoOK' /\ LookupOK'
      BY <2>1 DEF TodoOK, LookupOK, Alone, Running
    <2>3. ASSUME NEW q \in Procs, NEW s \in Keys, NEW k \in Keys,
                 Pending(q, store[s].doc, k)
          PROVE  Pending(q, store[s].doc, k)'
      <3>1. CASE q # p
        BY <2>1, <2>3, <3>1, PendingFrame
      <3>2. CASE q = p
        BY <2>1, <2>3, <3>2 DEF Pending, WriteJob
      <3>3. QED BY <3>1, <3>2
    <2>4. LinksOK'
      BY <2>1, <2>3, LinksFrame, Zenon
    <2>5. QED BY <2>2, <2>4
  <1>2. CASE Retry(p)
    <2>1. /\ pc[p] = "failed" /\ job[p] \in Jobs
          /\ pc'[p] = IF job[p].doc = None THEN "pget" ELSE "get"
          /\ todo'[p] = job[p].preds /\ job'[p] = job[p] /\ UNCHANGED <<store, gaveUp>>
      BY <1>2 DEF Retry, Enter, WellFormed, TypeOK, ProcOK
    <2>2. TodoOK' /\ LookupOK'
      BY <2>1 DEF TodoOK, LookupOK, Alone, Running
    <2>3. ASSUME NEW q \in Procs, NEW s \in Keys, NEW k \in Keys,
                 Declares(s, k), Pending(q, store[s].doc, k)
          PROVE  Pending(q, store[s].doc, k)'
      <3> SUFFICES ASSUME q = p PROVE Pending(q, store[s].doc, k)'
        BY <2>1, <2>3, PendingFrame
      <3>1. job[p] = WriteJob(store[s].doc)
        BY <2>3 DEF Pending
      <3>2. store[s].doc \in Payloads
        BY <2>3, RecordFacts DEF Declares, WellFormed, TypeOK
      <3>3. job[p].doc = store[s].doc /\ job[p].doc # None
        BY <3>1, <3>2, PayloadFacts DEF WriteJob
      <3>4. QED
        BY <2>1, <3>1, <3>3 DEF Pending, WriteJob
    <2>4. LinksOK'
      BY <2>1, <2>3, LinksFrame, Zenon
    <2>5. QED BY <2>2, <2>4
  <1>3. CASE \E j \in Jobs : Begin(p, j)
    <2>1. PICK j \in Jobs : Begin(p, j)
      BY <1>3
    <2>2. /\ pc[p] = "idle" /\ pc'[p] \in {"pget", "get"}
          /\ todo'[p] = job'[p].preds /\ UNCHANGED <<store, gaveUp>>
      BY <2>1 DEF Begin, Enter, WellFormed, TypeOK
    <2>3. TodoOK' /\ LookupOK'
      BY <2>2 DEF TodoOK, LookupOK, Alone, Running
    <2>4. ASSUME NEW q \in Procs, NEW s \in Keys, NEW k \in Keys,
                 Pending(q, store[s].doc, k)
          PROVE  Pending(q, store[s].doc, k)'
      <3>1. q # p
        BY <2>2, <2>4 DEF Pending
      <3>2. QED
        BY <2>2, <2>4, <3>1, PendingFrame
    <2>5. LinksOK'
      BY <2>2, <2>4, LinksFrame, Zenon
    <2>6. QED BY <2>3, <2>5
  <1>4. QED BY <1>1, <1>2, <1>3

\* A caller may give up while another call runs.
LEMMA GiveUpLinks ==
  ASSUME LinkInv, NEW p \in Procs, GiveUp(p)
  PROVE  TodoOK' /\ LookupOK' /\ LinksOK'
  <1> USE DEF LinkInv
  <1>1. /\ pc'[p] = "idle" /\ \A q \in Procs \ {p} : pc'[q] = pc[q]
        /\ UNCHANGED <<store, newer, job, draft, offset, todo>>
        /\ gaveUp' = gaveUp \cup {job[p]}
    BY DEF GiveUp, procVars, WellFormed, TypeOK
  <1>2. TodoOK'
    BY <1>1 DEF TodoOK
  <1>3. LookupOK'
    BY <1>1 DEF LookupOK, Declares, Position
  <1>4. ASSUME NEW q \in Procs, NEW s \in Keys, NEW k \in Keys,
               Pending(q, store[s].doc, k), WriteJob(store[s].doc) \notin gaveUp'
        PROVE  Pending(q, store[s].doc, k)'
    <2>1. q # p
      BY <1>1, <1>4 DEF Pending
    <2>2. QED
      BY <1>1, <1>4, <2>1 DEF Pending, WriteJob, Entries
  <1>5. gaveUp \subseteq gaveUp'
    BY <1>1
  <1>6. LinksOK'
    BY <1>1, <1>4, <1>5, LinksFrame, Zenon
  <1>7. QED BY <1>2, <1>3, <1>6

-----------------------------------------------------------------------------
LEMMA RecencyFrame ==
  ASSUME RecencyOK, UNCHANGED <<store, newer>>
  PROVE  RecencyOK'
  BY DEF RecencyOK, Stored, IsOrder

LEMMA NextLinkInv ==
  ASSUME ~SearchMayFail, LinkInv, Serial, Serial', [Next]_vars
  PROVE  LinkInv'
  <1>1. WellFormed' /\ Fresh'
    BY NextWellFormed, SerialNext DEF LinkInv
  <1>2. CASE UNCHANGED vars
    <2>1. RecencyOK'
      BY <1>2, RecencyFrame DEF vars, LinkInv
    <2>2. TodoOK'
      BY <1>2 DEF vars, LinkInv, TodoOK
    <2>3. LookupOK'
      BY <1>2 DEF vars, LinkInv, LookupOK, Declares, Position
    <2>4. LinksOK'
      <3>1. UNCHANGED <<store, gaveUp>> /\ \A p \in Procs : \A s, k \in Keys :
              Pending(p, store[s].doc, k) => Pending(p, store[s].doc, k)'
        BY <1>2 DEF vars, Pending, Entries, WriteJob
      <3>2. QED
        BY <3>1, LinksFrame DEF LinkInv
    <2>5. QED BY <1>1, <2>1, <2>2, <2>3, <2>4 DEF LinkInv
  <1>3. ASSUME NEW p \in Procs,
               Step(p) \/ Fail(p) \/ \E j \in Jobs : Begin(p, j)
        PROVE  Alone(p)
    BY <1>3, SerialIsAlone DEF LinkInv
  <1>4. ASSUME NEW p \in Procs, PutRecord(p) \/ MarkPredecessor(p)
        PROVE  LinkInv'
    <2>1. Alone(p)
      BY <1>3, <1>4 DEF Step
    <2>2. QED
      BY <1>1, <1>4, <2>1, PutRecordLinks, MarkPredecessorLinks, Zenon DEF LinkInv
  <1>5. ASSUME NEW p \in Procs,
               \/ ReadExisting(p) \/ SearchPage(p) \/ ReadPredecessor(p)
               \/ Fail(p) \/ Retry(p) \/ GiveUp(p) \/ \E j \in Jobs : Begin(p, j)
        PROVE  LinkInv'
    <2>1. UNCHANGED <<store, newer>>
      BY <1>5 DEF ReadExisting, SearchPage, ReadPredecessor, Fail, Retry, GiveUp, Begin
    <2>2. RecencyOK'
      BY <2>1, RecencyFrame DEF LinkInv
    <2>3. GiveUp(p) \/ Alone(p)
      BY <1>3, <1>5 DEF Step
    <2>4. TodoOK' /\ LookupOK' /\ LinksOK'
      BY <1>5, <2>3, ReadExistingLinks, SearchPageLinks, ReadPredecessorLinks, CallLinks,
         GiveUpLinks, Zenon
    <2>5. QED BY <1>1, <2>2, <2>4 DEF LinkInv
  <1>6. ASSUME NEW p \in Procs PROVE ~SearchRaises(p)
    BY DEF SearchRaises
  <1>7. QED
    BY <1>2, <1>4, <1>5, <1>6 DEF Next, Step

LEMMA InitLinkInv == Init => LinkInv
  <1> SUFFICES ASSUME Init PROVE LinkInv
    OBVIOUS
  <1>1. WellFormed
    BY InitWellFormed
  <1>2. RecencyOK
    <2>1. Stored = {} /\ newer = {}
      BY DEF Init, Stored
    <2>2. QED
      BY <2>1, FS_EmptySet DEF RecencyOK, IsOrder
  <1>3. Fresh /\ TodoOK /\ LookupOK /\ LinksOK
    BY DEF Init, Fresh, TodoOK, LookupOK, LinksOK, Declares
  <1>4. QED BY <1>1, <1>2, <1>3 DEF LinkInv

LEMMA LinkInvHolds ==
  ASSUME ~SearchMayFail
  PROVE  Spec /\ []Serial => []LinkInv
  <1>1. LinkInv /\ Serial /\ Serial' /\ [Next]_vars => LinkInv'
    BY NextLinkInv
  <1>2. QED
    BY InitLinkInv, <1>1, PTL DEF Spec

\* When calls do not overlap and the forward lookup does not raise, no declared link is
\* ever forgotten: at every moment, in the middle of a call too, a predecessor that a
\* stored record declares within its namespace is retired, or the declaring call is at
\* work or waits to be retried and has it still to visit, or that call was abandoned.
THEOREM LinksAreOwed ==
  ASSUME ~SearchMayFail
  PROVE  Spec /\ []Serial => []LinksOK
  BY LinkInvHolds, PTL DEF LinkInv

\* Under the same hypotheses every link that a stored record declares within its
\* namespace is applied by the time no call is under way: whichever of the two records
\* came first, on whichever page of the lookup the declaring one lies, wherever calls
\* were cut short, however often they were redelivered and whatever was written before
\* the retry.  Both hypotheses are necessary: of two calls that overlap each may look
\* for the other's record before it is there, and a lookup that raises leaves its record
\* without the link (SearchRaises).
THEOREM SerialLinks ==
  ASSUME ~SearchMayFail
  PROVE  Spec /\ []Serial => []DeclaredLinksApplied
  <1>1. LinkInv => DeclaredLinksApplied
    <2> SUFFICES ASSUME LinkInv, Settled,
                        NEW s \in Keys, NEW k \in Predecessors(s), NsOf[k] = NsOf[s],
                        WriteJob(store[s].doc) \notin gaveUp
                 PROVE  Retired(k)
      BY Zenon DEF DeclaredLinksApplied
    <2>1. store[s] # None /\ k \in Entries(store[s].doc.sup) /\ store[k] # None
      BY DEF Predecessors
    <2>2. k \in Keys
      <3>1. store[s].doc \in Payloads
        BY <2>1, RecordFacts DEF LinkInv, WellFormed, TypeOK
      <3>2. store[s].doc.sup \in Seq(Keys)
        BY <3>1, PayloadFacts
      <3>3. QED BY <2>1, <3>2 DEF Entries
    <2>3. \A p \in Procs : ~Pending(p, store[s].doc, k)
      BY DEF Settled, Pending
    <2>4. QED
      BY <2>1, <2>2, <2>3 DEF LinkInv, LinksOK, Declares
  <1>2. QED
    BY LinkInvHolds, <1>1, PTL

\* In particular for a single writing process, which the run writer_single has.
COROLLARY SoleWriterLinks ==
  ASSUME \A p, q \in Procs : p = q, ~SearchMayFail
  PROVE  Spec => []DeclaredLinksApplied
  <1>1. Serial
    BY DEF Serial
  <1>2. QED
    BY <1>1, SerialLinks, PTL
=============================================================================
