------------------------------- MODULE Fixture -------------------------------
(***************************************************************************)
(* The fixture tooling (fixture/): snapshots of the live store into one    *)
(* fixture directory, restores of it into one per-run database, and the    *)
(* temporal cut and the scratch projects of that database.                 *)
(*                                                                         *)
(* A table is the version of each of its rows, 0 for a row that is not     *)
(* there; the schema and the two migration tables never change and are left *)
(* out.  Every COPY is a statement with a snapshot of its own, while the   *)
(* writers of the live store go on.  What a transaction does is one step.  *)
(***************************************************************************)
EXTENDS Integers, Sequences

CONSTANTS
  Rows, When,   \* keys, and their occurred_at: "before" the cut, "from" it on, "undated"
  Snapshots,    \* calls of create_snapshot with one fixture id
  Restores,     \* calls of restore_fixture with one target
  Rollouts,     \* rollout ids, sequences of characters
  Letters,      \* the characters a-z and 0-9
  Prefix,       \* the prefix column of each row, from its project on
  MaxVersion,   \* bound: writes of a row of the live store
  None

\* The files of a fixture, complete or not, and its directory.
Table == [Rows -> Nat]
Files == [store : Table \cup {None}, store_vectors : Table \cup {None}]
Directory == [data : Files, manifest : Files \cup {None}]

\* SCRATCH_PREFIX, of which only the last character matters, and the prefix column of
\* what a rollout writes.
Scratch == <<"s", "underscore">>
Project(q) == Scratch \o q
ScratchPrefix(q) == Project(q) \o <<".", "t">>

\* The characters that mean something in a LIKE operand.
Meta == {"backslash", "underscore", "percent"}

\* The live store has no record under the scratch project of one of the rollouts.
FixtureAssumption ==
  /\ When \in [Rows -> {"before", "from", "undated"}]
  /\ ({"."} \cup Meta) \cap Letters = {} /\ {"s", "t"} \subseteq Letters
  /\ Rollouts \subseteq Seq(Letters \cup {"."} \cup Meta)
  /\ Prefix \in [Rows -> Seq(Letters \cup {".", "underscore"})]
  /\ \A r \in Rows, q \in Rollouts :
       /\ Prefix[r] # Project(q)
       /\ Len(Prefix[r]) <= Len(Project(q))
            \/ SubSeq(Prefix[r], 1, Len(Project(q)) + 1) # Append(Project(q), ".")
  /\ MaxVersion \in Nat
  /\ None \notin Table /\ None \notin Directory /\ None \notin {"early", "late"}

VARIABLES
  live,      \* the source: versions of its rows, and of their vectors
  dir,       \* the fixture directory: None or [data, manifest]
  snap,      \* where each snapshot is
  restore,   \* where each restore is
  target,    \* None until it has tables; then [store, store_vectors, cut]
  shelf,     \* rollouts with rows in the target
  rollout,   \* "new", "wrote", "discarded" or "cut"
  damage     \* whether a file was damaged: None, "early", or "late", under a restore

vars == <<live, dir, snap, restore, target, shelf, rollout, damage>>
runVars == <<restore, target, shelf, rollout>>

Absent == [r \in Rows |-> 0]
Sealed == dir # None /\ dir.manifest # None

Init ==
  /\ live = Absent /\ dir = None
  /\ snap = [a \in Snapshots |-> "new"]
  /\ restore = [x \in Restores |-> "new"]
  /\ target = None /\ shelf = {}
  /\ rollout = [q \in Rollouts |-> "new"]
  /\ damage = None

\* The writer's aput: a row and its vector, in one transaction.
Put(r) ==
  /\ live[r] < MaxVersion
  /\ live' = [live EXCEPT ![r] = @ + 1]
  /\ UNCHANGED <<dir, snap, damage, runVars>>

-----------------------------------------------------------------------------
(***************************************************************************)
(* create_snapshot                                                         *)
(***************************************************************************)
\* The first check, before the schema is dumped.
Check(a) ==
  /\ snap[a] = "new"
  /\ snap' = [snap EXCEPT ![a] = IF dir = None THEN "dumping" ELSE "refused"]
  /\ UNCHANGED <<live, dir, damage, runVars>>

\* Mutant: the directory is made inside the try block, whose handler removes it.
MakeDirInTry(a) ==
  /\ snap[a] = "dumping"
  /\ \/ /\ dir = None
        /\ dir' = [data |-> [store |-> None, store_vectors |-> None], manifest |-> None]
        /\ snap' = [snap EXCEPT ![a] = "exporting"]
     \/ /\ dir # None /\ dir' = None
        /\ snap' = [snap EXCEPT ![a] = "refused"]
  /\ UNCHANGED <<live, damage, runVars>>

\* pg_dump is done; mkdir raises when another snapshot has been faster, and then
\* nothing is removed.
MakeDir(a) ==
  /\ snap[a] = "dumping"
  /\ \/ /\ dir = None
        /\ dir' = [data |-> [store |-> None, store_vectors |-> None], manifest |-> None]
        /\ snap' = [snap EXCEPT ![a] = "exporting"]
     \/ /\ dir # None
        /\ snap' = [snap EXCEPT ![a] = "refused"]
        /\ UNCHANGED dir
  /\ UNCHANGED <<live, damage, runVars>>

\* Mutant: the vectors are exported first, as the cut deletes them first.
VectorsFirst == <<"store_vectors", "store">>

\* sorted(tables)
Tables == <<"store", "store_vectors">>

\* Its files can be written as long as the directory is there.
Exporting(a) == snap[a] = "exporting" /\ dir # None

\* _export_data: one COPY per table.
CopyOut(a, k) ==
  /\ Exporting(a)
  /\ dir.data[Tables[k]] = None /\ \A j \in 1 .. k - 1 : dir.data[Tables[j]] # None
  /\ dir' = [dir EXCEPT !.data[Tables[k]] = live]
  /\ UNCHANGED <<live, snap, damage, runVars>>

\* The hash of the files goes into the manifest, which is written last.
Seal(a) ==
  /\ Exporting(a) /\ \A k \in DOMAIN Tables : dir.data[Tables[k]] # None
  /\ dir' = [dir EXCEPT !.manifest = dir.data]
  /\ snap' = [snap EXCEPT ![a] = "done"]
  /\ UNCHANGED <<live, damage, runVars>>

\* Whatever fails after mkdir, the directory is removed; before, there is none.
Fail(a) ==
  /\ \/ snap[a] = "dumping" /\ UNCHANGED dir
     \/ snap[a] = "exporting" /\ dir' = None
  /\ snap' = [snap EXCEPT ![a] = "failed"]
  /\ UNCHANGED <<live, damage, runVars>>

\* The process is killed: what it has written stays, without a manifest.
Kill(a) ==
  /\ snap[a] = "exporting"
  /\ snap' = [snap EXCEPT ![a] = "killed"]
  /\ UNCHANGED <<live, dir, damage, runVars>>

\* One or both files of a finished fixture lose a record.
Damage(r, files) ==
  LET Lost(f) == IF f \in files THEN [dir.data[f] EXCEPT ![r] = 0] ELSE dir.data[f] IN
  /\ Sealed /\ damage = None
  /\ files # {} /\ \A f \in files : dir.data[f][r] > 0
  /\ dir' = [dir EXCEPT !.data = [store |-> Lost("store"),
                                  store_vectors |-> Lost("store_vectors")]]
  /\ damage' = IF \E x \in Restores : restore[x] \in {"verified", "loading"}
                 THEN "late" ELSE "early"
  /\ UNCHANGED <<live, snap, runVars>>

-----------------------------------------------------------------------------
(***************************************************************************)
(* restore_fixture                                                         *)
(***************************************************************************)
\* Mutant: a fixture with a manifest is taken as it is.
HasManifest == Sealed

\* _verified_tables
HashMatches == Sealed /\ dir.data = dir.manifest

Verify(x) ==
  /\ restore[x] = "new"
  /\ restore' = [restore EXCEPT ![x] = IF HashMatches THEN "verified" ELSE "failed"]
  /\ UNCHANGED <<live, dir, snap, target, shelf, rollout, damage>>

\* The target is looked at: it must have none of the tables.
Open(x) ==
  /\ restore[x] = "verified"
  /\ restore' = [restore EXCEPT ![x] = IF target = None THEN "loading" ELSE "failed"]
  /\ UNCHANGED <<live, dir, snap, target, shelf, rollout, damage>>

\* The foreign key of store_vectors.
KeysExist == \A r \in Rows : dir.data.store_vectors[r] > 0 => dir.data.store[r] > 0

\* Schema and rows in one transaction.  CREATE TABLE fails when another restore has
\* committed since; a vector without its row violates the foreign key.
Load(x) ==
  /\ restore[x] = "loading"
  /\ \/ /\ target = None /\ KeysExist
        /\ target' = [store |-> dir.data.store, store_vectors |-> dir.data.store_vectors,
                      cut |-> FALSE]
        /\ restore' = [restore EXCEPT ![x] = "done"]
     \/ /\ target # None \/ ~KeysExist
        /\ restore' = [restore EXCEPT ![x] = "failed"]
        /\ UNCHANGED target
  /\ UNCHANGED <<live, dir, snap, shelf, rollout, damage>>

\* No connection, an exception, or the process is killed: the transaction is rolled back.
Abort(x) ==
  /\ restore[x] \in {"verified", "loading"}
  /\ restore' = [restore EXCEPT ![x] = "failed"]
  /\ UNCHANGED <<live, dir, snap, target, shelf, rollout, damage>>

-----------------------------------------------------------------------------
(***************************************************************************)
(* apply_temporal_cut and the scratch projects                             *)
(***************************************************************************)
\* Mutant: a comparison with NULL is not true.
OnlyAfter(r) == When[r] = "from"

\* _excluded_predicate
Excluded(r) == When[r] \in {"from", "undated"}

\* The deletes and their commit; a call that fails, or is a dry run, changes nothing.
\* What a rollout wrote is undated or younger than the cut.
Cut ==
  LET Kept(table) == [r \in Rows |-> IF Excluded(r) THEN 0 ELSE table[r]] IN
  /\ target # None
  /\ target' = [store |-> Kept(target.store), store_vectors |-> Kept(target.store_vectors),
                cut |-> TRUE]
  /\ shelf' = {}
  /\ rollout' = [q \in Rollouts |-> IF rollout[q] = "wrote" THEN "cut" ELSE rollout[q]]
  /\ UNCHANGED <<live, dir, snap, restore, damage>>

\* scratch_project: any other id is refused before anything is done with it.
Valid(q) == q # <<>> /\ \A k \in DOMAIN q : q[k] \in Letters \cup {"underscore"}

\* A rollout writes under scratch_namespace.
Write(q) ==
  /\ target # None /\ Valid(q)
  /\ shelf' = shelf \cup {q}
  /\ rollout' = [rollout EXCEPT ![q] = "wrote"]
  /\ UNCHANGED <<live, dir, snap, restore, target, damage>>

\* Mutant: the characters of the project go into the pattern as they are.
Verbatim(c) == [char |-> c, escaped |-> FALSE]

\* discard_patterns: a character of the project in the LIKE operand.
Escape(c) == [char |-> c, escaped |-> c \in Meta]

\* The LIKE operand before its final %.
Literal(q) == Append([k \in DOMAIN Project(q) |-> Escape(Project(q)[k])],
                     [char |-> ".", escaped |-> FALSE])

\* prefix LIKE literal%: an underscore that is not escaped stands for any character.
Like(prefix, literal) ==
  /\ Len(prefix) >= Len(literal)
  /\ \A k \in DOMAIN literal :
       literal[k].char = prefix[k] \/ (literal[k].char = "underscore" /\ ~literal[k].escaped)

\* _MATCH_CLAUSE
Selects(q, prefix) == prefix = Project(q) \/ Like(prefix, Literal(q))

\* discard_scratch: both deletes, whoever wrote the rows, in one transaction.
Discard(q) ==
  LET Kept(table) == [r \in Rows |-> IF Selects(q, Prefix[r]) THEN 0 ELSE table[r]] IN
  /\ target # None /\ Valid(q)
  /\ target' = [target EXCEPT !.store = Kept(@), !.store_vectors = Kept(@)]
  /\ shelf' = {p \in shelf : ~Selects(q, ScratchPrefix(p))}
  /\ rollout' = [rollout EXCEPT ![q] = "discarded"]
  /\ UNCHANGED <<live, dir, snap, restore, damage>>

-----------------------------------------------------------------------------
Next ==
  \/ \E r \in Rows : Put(r) \/ \E files \in SUBSET {"store", "store_vectors"} : Damage(r, files)
  \/ \E a \in Snapshots :
       \/ Check(a) \/ MakeDir(a) \/ Seal(a) \/ Fail(a) \/ Kill(a)
       \/ \E k \in DOMAIN Tables : CopyOut(a, k)
  \/ \E x \in Restores : Verify(x) \/ Open(x) \/ Load(x) \/ Abort(x)
  \/ Cut \/ \E q \in Rollouts : Write(q) \/ Discard(q)

Spec == Init /\ [][Next]_vars

-----------------------------------------------------------------------------
(***************************************************************************)
(* Properties.                                                             *)
(***************************************************************************)
\* create_snapshot, "versioned fixtures are immutable": once a fixture has its
\* manifest, no other call with the same id, however it is refused, fails or is
\* killed, removes it or changes its content; only damage to the files does.
FixtureImmutable ==
  [][Sealed => dir' # None /\ dir'.manifest = dir.manifest
                           /\ (damage' = damage => dir' = dir)]_vars

\* restore_fixture and apply_temporal_cut, "a corrupted fixture must never grade a
\* rollout": through failed and racing restores, damaged files, rollouts and their
\* discards, the target holds exactly the records the manifest vouches for, and after
\* the cut exactly those that occurred before it.  Damage that comes between the
\* verification of the hash and the reading of the files is not covered.
CorpusExact ==
  target # None /\ damage # "late" =>
    target.store = [r \in Rows |->
      IF target.cut /\ When[r] # "before" THEN 0 ELSE dir.manifest.store[r]]

\* _export_data and the foreign key: although the live store changes between the two
\* COPYs, a restored row always has a vector and a vector its row, so that nothing
\* restored is hidden from the searches; a snapshot that tore them apart is refused.
\* Again damage after the verification is not covered.
EveryRowSearchable ==
  target # None /\ damage # "late" =>
    \A r \in Rows : target.store[r] > 0 <=> target.store_vectors[r] > 0

\* discard_patterns, "cannot touch a sibling": a rollout that has written keeps its
\* records until its own discard or a cut, whatever other rollouts discard: those whose
\* ids begin like its own, hold an underscore or are no valid ids included.
RolloutsKept == \A q \in Rollouts : rollout[q] = "wrote" => q \in shelf

=============================================================================
