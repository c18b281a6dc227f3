------------------------------- MODULE Writer -------------------------------
(***************************************************************************)
(* DeterministicWriter.write (writer/core.py), apply_supersessions and the *)
(* forward-supersession lookup (writer/supersession.py), and the tool      *)
(* memory_supersede (mcp/tools/supersede.py), run by several processes     *)
(* over one store.                                                         *)
(*                                                                         *)
(* Every await of the code is a boundary between two actions: another      *)
(* process may run there, and there the call may raise or its process may  *)
(* die.  Nothing in the code locks a record or compares it before a write. *)
(*                                                                         *)
(* A payload is [key, body, sup]: its natural key, everything else the     *)
(* content hash covers, and its supersedes list.  The content hash of      *)
(* writer/identity.py excludes only the version, so two payloads have the  *)
(* same hash exactly when they are the same record here, and a stored      *)
(* record keeps the payload itself in place of content and content_hash.   *)
(***************************************************************************)
EXTENDS Integers, Sequences, FiniteSets

CONSTANTS
  Keys,          \* natural keys
  NsOf,          \* the namespace ("fleet_memory", project, type) of each key
  Payloads,      \* the payloads callers write
  Declarations,  \* the calls of memory_supersede: [succ, preds]
  Procs,         \* processes that write: the relay, the MCP server, ...
  PageSize,      \* _FORWARD_PAGE
  SearchMayFail, \* whether asearch may raise during the forward lookup
  MaxJobs,       \* bound: calls begun
  MaxFails,      \* bound: calls that raise or whose process dies
  None

\* What the payload constructor and the tool's validation let through: three-
\* segment keys, no record that supersedes itself, at least one predecessor in a
\* declaration.
ValidPayload(d) == \A i \in DOMAIN d.sup : d.sup[i] # d.key
ValidDeclaration(c) ==
  c.preds # <<>> /\ \A i \in DOMAIN c.preds : c.preds[i] # c.succ

ASSUME PayloadAssumption ==
  /\ Payloads \subseteq [key : Keys, body : STRING, sup : Seq(Keys)]
  /\ \A d \in Payloads : ValidPayload(d)

ASSUME DeclarationAssumption ==
  /\ Declarations \subseteq [succ : Keys, preds : Seq(Keys)]
  /\ \A c \in Declarations : ValidDeclaration(c)

ASSUME ConstantAssumption ==
  /\ PageSize \in Nat \ {0}
  /\ MaxJobs \in Nat /\ MaxFails \in Nat
  /\ SearchMayFail \in BOOLEAN
  /\ None \notin Keys /\ None \notin Payloads
  /\ None \notin [doc : Payloads, version : Nat, by : Keys \cup {None}]

VARIABLES
  store,     \* the record under each key, None when there is none
  newer,     \* <<x, y>>: record x was updated more recently than record y
  pc,        \* where each process is
  job,       \* the call each process is running
  draft,     \* stored_value under construction
  offset,    \* offset of the next page of the forward lookup
  todo,      \* predecessors apply_supersessions has still to visit
  seen,      \* the predecessor record apply_supersessions read
  jobs,      \* calls begun
  fails,     \* calls that raised
  declared,  \* history: <<successor, predecessor>> pairs of the calls begun
  finished,  \* history: the calls that returned
  gaveUp     \* history: the calls that were never completed

vars == <<store, newer, pc, job, draft, offset, todo, seen, jobs, fails,
          declared, finished, gaveUp>>
procVars == <<job, draft, offset, todo, seen>>

Record == [doc : Payloads, version : Nat, by : Keys \cup {None}]

\* A call: a write carries its payload, a tool call carries none.
WriteJob(d) == [doc |-> d, succ |-> d.key, preds |-> d.sup]
ToolJob(c) == [doc |-> None, succ |-> c.succ, preds |-> c.preds]
Jobs == {WriteJob(d) : d \in Payloads} \cup {ToolJob(c) : c \in Declarations}

NoJob == [doc |-> None, succ |-> None, preds |-> <<>>]

Entries(s) == {s[i] : i \in DOMAIN s}

\* aput of langgraph's Postgres store: an upsert that refreshes updated_at.
Touch(k) ==
  {e \in newer : e[1] # k /\ e[2] # k}
    \cup {<<k, x>> : x \in {y \in Keys \ {k} : store[y] # None}}

\* asearch(namespace, limit, offset) without a query: the records of the namespace
\* by updated_at descending, PageSize of them from the given offset.
Position(k) == Cardinality({x \in Keys : NsOf[x] = NsOf[k] /\ <<x, k>> \in newer})

Page(ns, from) ==
  {k \in Keys : /\ store[k] # None /\ NsOf[k] = ns
                /\ Position(k) \in from .. (from + PageSize - 1)}

Init ==
  /\ store = [k \in Keys |-> None]
  /\ newer = {}
  /\ pc = [p \in Procs |-> "idle"]
  /\ job = [p \in Procs |-> NoJob]
  /\ draft = [p \in Procs |-> None]
  /\ offset = [p \in Procs |-> 0]
  /\ todo = [p \in Procs |-> <<>>]
  /\ seen = [p \in Procs |-> None]
  /\ jobs = 0 /\ fails = 0
  /\ declared = {} /\ finished = {} /\ gaveUp = {}

\* Where a call goes once its record is in place: apply_supersessions visits the
\* predecessors left, and the call returns when there are none.
Visit(p, left) ==
  /\ todo' = [todo EXCEPT ![p] = left]
  /\ IF left = <<>>
       THEN /\ pc' = [pc EXCEPT ![p] = "idle"]
            /\ finished' = finished \cup {job[p]}
       ELSE /\ pc' = [pc EXCEPT ![p] = "pget"]
            /\ UNCHANGED finished

\* Entry of write() or of memory_supersede(), up to its first await.
Enter(p, j) ==
  /\ pc' = [pc EXCEPT ![p] = IF j.doc = None THEN "pget" ELSE "get"]
  /\ job' = [job EXCEPT ![p] = j]
  /\ todo' = [todo EXCEPT ![p] = j.preds]
  /\ UNCHANGED <<draft, offset, seen>>

Begin(p, j) ==
  /\ pc[p] = "idle" /\ jobs < MaxJobs
  /\ jobs' = jobs + 1
  /\ Enter(p, j)
  /\ declared' = declared \cup {<<j.succ, k>> : k \in Entries(j.preds)}
  /\ UNCHANGED <<store, newer, fails, finished, gaveUp>>

\* Mutant: the hashes never agree, as if they covered the version.
HashCoversVersion(existing, doc) == FALSE

\* The content hash of the stored record equals that of the payload.
Unchanged(existing, doc) == existing # None /\ existing.doc = doc

\* Mutant: every write restarts the version.
VersionRestarts(existing) == 1

NextVersion(existing) == IF existing = None THEN 1 ELSE existing.version + 1

\* Mutant: a no-op returns at once.
NoOpReturns(p) == Visit(p, <<>>)

\* A no-op still applies the supersessions.
NoOp(p) == Visit(p, todo[p])

\* write(), steps 4 and 5: the read that decides between a new record, a no-op
\* and a versioned update.
ReadExisting(p) ==
  LET doc == job[p].doc
      existing == store[doc.key]
  IN
  /\ pc[p] = "get"
  /\ \/ /\ Unchanged(existing, doc)
        /\ NoOp(p)
        /\ UNCHANGED <<draft, offset>>
     \/ /\ ~Unchanged(existing, doc)
        /\ draft' = [draft EXCEPT ![p] =
                       [doc |-> doc, version |-> NextVersion(existing), by |-> None]]
        /\ offset' = [offset EXCEPT ![p] = 0]
        /\ pc' = [pc EXCEPT ![p] = "search"]
        /\ UNCHANGED <<todo, finished>>
  /\ UNCHANGED <<store, newer, job, seen, jobs, fails, declared, gaveUp>>

\* Mutant: any supersedes list counts.
NamesSomething(s, key) == store[s].doc.sup # <<>>

Names(s, key) == key \in Entries(store[s].doc.sup)

\* Mutant: the first page is taken for the last.
OnlyPage(page) == TRUE

LastPage(page) == Cardinality(page) < PageSize

\* One page of _apply_forward_supersessions: the first record of the page that
\* names the key ends the lookup, a short page ends it empty-handed.
SearchPage(p) ==
  LET key == job[p].succ
      page == Page(NsOf[key], offset[p])
      hits == {s \in page : Names(s, key)}
  IN
  /\ pc[p] = "search"
  /\ \/ \E s \in hits :
          /\ \A h \in hits \ {s} : <<s, h>> \in newer
          /\ draft' = [draft EXCEPT ![p].by = s]
          /\ pc' = [pc EXCEPT ![p] = "put"]
          /\ UNCHANGED offset
     \/ /\ hits = {} /\ LastPage(page)
        /\ pc' = [pc EXCEPT ![p] = "put"]
        /\ UNCHANGED <<draft, offset>>
     \/ /\ hits = {} /\ ~LastPage(page)
        /\ offset' = [offset EXCEPT ![p] = @ + PageSize]
        /\ UNCHANGED <<draft, pc>>
  /\ UNCHANGED <<store, newer, job, todo, seen, jobs, fails, declared, finished,
                 gaveUp>>

\* The lookup raises: the exception is swallowed and the record is written
\* without a link.
SearchRaises(p) ==
  /\ SearchMayFail /\ pc[p] = "search"
  /\ pc' = [pc EXCEPT ![p] = "put"]
  /\ UNCHANGED <<store, newer, procVars, jobs, fails, declared, finished, gaveUp>>

\* The aput of _write_record replaces the whole value.
PutRecord(p) ==
  LET key == job[p].succ IN
  /\ pc[p] = "put"
  /\ store' = [store EXCEPT ![key] = draft[p]]
  /\ newer' = Touch(key)
  /\ Visit(p, todo[p])
  /\ UNCHANGED <<job, draft, offset, seen, jobs, fails, declared, gaveUp>>

\* apply_supersessions, the aget of one predecessor: an absent one is skipped and
\* nothing about it is recorded.
ReadPredecessor(p) ==
  LET pred == Head(todo[p]) IN
  /\ pc[p] = "pget"
  /\ \/ /\ store[pred] = None
        /\ Visit(p, Tail(todo[p]))
        /\ UNCHANGED seen
     \/ /\ store[pred] # None
        /\ seen' = [seen EXCEPT ![p] = store[pred]]
        /\ pc' = [pc EXCEPT ![p] = "pput"]
        /\ UNCHANGED <<todo, finished>>
  /\ UNCHANGED <<store, newer, job, draft, offset, jobs, fails, declared, gaveUp>>

\* apply_supersessions, the aput of one predecessor: the value read before, with
\* the link added.
MarkPredecessor(p) ==
  LET pred == Head(todo[p]) IN
  /\ pc[p] = "pput"
  /\ store' = [store EXCEPT ![pred] = [seen[p] EXCEPT !.by = job[p].succ]]
  /\ newer' = Touch(pred)
  /\ Visit(p, Tail(todo[p]))
  /\ UNCHANGED <<job, draft, offset, seen, jobs, fails, declared, gaveUp>>

\* An await raises (store or embedding outage) or the process dies.
Fail(p) ==
  /\ pc[p] \in {"get", "search", "put", "pget", "pput"} /\ fails < MaxFails
  /\ fails' = fails + 1
  /\ pc' = [pc EXCEPT ![p] = "failed"]
  /\ UNCHANGED <<store, newer, procVars, jobs, declared, finished, gaveUp>>

\* The same call again from the top: a redelivery, or a caller that retries.
Retry(p) ==
  /\ pc[p] = "failed"
  /\ Enter(p, job[p])
  /\ UNCHANGED <<store, newer, jobs, fails, declared, finished, gaveUp>>

\* Nobody retries: the deliveries are exhausted, or the caller drops the error.
GiveUp(p) ==
  /\ pc[p] = "failed"
  /\ pc' = [pc EXCEPT ![p] = "idle"]
  /\ gaveUp' = gaveUp \cup {job[p]}
  /\ UNCHANGED <<store, newer, procVars, jobs, fails, declared, finished>>

\* The steps a running call takes by itself.
Step(p) ==
  \/ ReadExisting(p) \/ SearchPage(p) \/ SearchRaises(p) \/ PutRecord(p)
  \/ ReadPredecessor(p) \/ MarkPredecessor(p) \/ Retry(p)

Next ==
  \E p \in Procs :
    \/ \E j \in Jobs : Begin(p, j)
    \/ Step(p) \/ Fail(p) \/ GiveUp(p)

Spec == Init /\ [][Next]_vars

-----------------------------------------------------------------------------
(***************************************************************************)
(* Properties.                                                             *)
(***************************************************************************)
PCs == {"idle", "get", "search", "put", "pget", "pput", "failed"}

\* Type invariant: the store holds complete stamped records (payload, version,
\* link), and so does every draft and every predecessor read back for marking.
TypeOK ==
  /\ store \in [Keys -> Record \cup {None}]
  /\ newer \subseteq Keys \X Keys
  /\ pc \in [Procs -> PCs]
  /\ job \in [Procs -> Jobs \cup {NoJob}]
  /\ draft \in [Procs -> Record \cup {None}]
  /\ offset \in [Procs -> Nat]
  /\ todo \in [Procs -> Seq(Keys)]
  /\ seen \in [Procs -> Record \cup {None}]
  /\ jobs \in Nat /\ fails \in Nat

Settled == \A p \in Procs : pc[p] = "idle"

\* The predecessors that record s, as stored now, declares and that exist.
Predecessors(s) ==
  IF store[s] = None THEN {}
  ELSE {k \in Entries(store[s].doc.sup) : store[k] # None}

VersionStep ==
  \A k \in Keys : store[k] # None =>
    /\ store'[k] # None
    /\ \/ store'[k].doc = store[k].doc /\ store'[k].version = store[k].version
       \/ store'[k].doc # store[k].doc /\ store'[k].version = store[k].version + 1

Holds(d) == store[d.key] # None /\ store[d.key].doc = d
Retired(k) == store[k] # None /\ store[k].by # None

\* Links are never invented: a record that carries superseded_by names a successor
\* that a write or memory_supersede really declared for it, whatever the writers'
\* interleaving, stale write-backs and retries included.
LinksDeclared ==
  \A k \in Keys : Retired(k) => <<store[k].by, k>> \in declared

\* At-least-once delivery (deterministic-writer.feature, "Concurrent duplicate
\* writes of the same payload converge to a single record"): a key that is only
\* ever written with one content stays at version 1, however often the write is
\* redelivered, retried or run twice at once.
DuplicatesConverge ==
  \A k \in Keys :
    /\ store[k] # None
    /\ \A d, e \in Payloads : d.key = k /\ e.key = k => d = e
    => store[k].version = 1

\* When no call is running, every predecessor that a stored record declares within
\* its own namespace is retired, in whichever order the two were written and
\* however often the writes were cut short, unless the declaring write was
\* abandoned (apply_supersessions and check_and_apply_forward_supersession).
DeclaredLinksApplied ==
  Settled =>
    \A s \in Keys : \A k \in Predecessors(s) :
      NsOf[k] = NsOf[s] /\ WriteJob(store[s].doc) \notin gaveUp => Retired(k)

\* memory_supersede: "declaring against a not-yet-written predecessor is accepted
\* and takes effect once the predecessor is written".
ToolLinksApplied ==
  Settled =>
    \A c \in Declarations : ToolJob(c) \in finished =>
      \A k \in Entries(c.preds) : store[k] # None => Retired(k)

\* The version stamp is "a monotonic integer advanced by the writer only when
\* content changes": no step removes a record, lowers its version or advances it
\* over unchanged content, and changed content advances it by exactly one.
VersionDiscipline == [][VersionStep]_store

\* The monotonic half of it, for writers that run at the same time: no step lowers
\* the version of a record.
VersionNeverDecreases ==
  [][\A k \in Keys : store[k] # None /\ store'[k] # None
                       => store'[k].version >= store[k].version]_store

\* Fairness: a process that runs a call keeps running it, and a call that failed
\* is tried again; failures themselves are bounded by MaxFails, and nothing obliges
\* callers to begin calls or to give up.
FairSpec == Spec /\ \A p \in Procs : WF_vars(Step(p))

\* A write that was cut short between its own aput and the marking of its
\* predecessors is healed by the retry, although the retry finds its own content
\* stored: a stored declaration is eventually applied to every predecessor that
\* exists in its namespace, unless the write is abandoned or the declaring record replaced.
EventuallyRetired ==
  \A d \in Payloads : \A k \in Entries(d.sup) :
    (Holds(d) /\ store[k] # None /\ NsOf[k] = NsOf[d.key])
      ~> (Retired(k) \/ ~Holds(d) \/ WriteJob(d) \in gaveUp)

=============================================================================
