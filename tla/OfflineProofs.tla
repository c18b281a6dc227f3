---------------------------- MODULE OfflineProofs ----------------------------
(***************************************************************************)
(* Proofs about Fixture and Chronicler, for all rows, rollouts, snapshots, *)
(* restores, episodes, stories and numbers of failures.                    *)
(***************************************************************************)
EXTENDS Offline, Sequences, TLAPS

-----------------------------------------------------------------------------
(***************************************************************************)
(* Chronicler                                                              *)
(***************************************************************************)
\* The pass at work looks at the window that the watermark leaves, and has not lost
\* sight of any episode that it is due to harvest: one that was in the store, and not
\* late, for the moment it started.
Due(e) == e \in H!Stored /\ ~bound[e].late /\ H!Before(bound[e], pass.start)

\* Left out by the limit, in this pass or in an earlier one.
Counted(e) == e \in pass.cut \/ e \in crowded

PassOK ==
  /\ pass.phase # "idle" => pass.since = watermark
  /\ pass.phase = "scanning" =>
       \A e \in Episodes : Due(e) =>
         H!Harvested(e) \/ Counted(e) \/ e \in pass.read \/ e.space \in pass.spaces
  /\ pass.phase = "telling" =>
       \A e \in Episodes : Due(e) =>
         \/ H!Harvested(e) \/ Counted(e)
         \/ e \in pass.read /\ e.story \in pass.left /\ (e.teaches => e \in rows)

PassType ==
  /\ pass \in [phase : {"idle", "listing", "scanning", "telling"}, start : Int, since : Int,
               spaces : SUBSET H!Spaces, read : SUBSET Episodes, cut : SUBSET Episodes,
               left : SUBSET H!Stories]
  /\ bound \in [Episodes -> {None} \cup [sec : Int, zulu : BOOLEAN, late : BOOLEAN]]
  /\ now \in Int /\ watermark \in Int

ChroniclerInv == PassType /\ PassOK /\ H!WindowCovered

LEMMA ChroniclerInit == H!Init => ChroniclerInv
  BY DEF H!Init, H!Idle, ChroniclerInv, PassType, PassOK, H!WindowCovered,
         H!Stored, Due

\* While no episode arrives, and the pass keeps its start, the same are stored and due.
LEMMA SameWindow ==
  ASSUME UNCHANGED bound
  PROVE  /\ H!Stored' = H!Stored
         /\ UNCHANGED watermark =>
              \A e \in Episodes : H!Before(bound[e], watermark)' = H!Before(bound[e], watermark)
         /\ pass'.start = pass.start => \A e \in Episodes : Due(e)' = Due(e)
  BY DEF H!Stored, H!Before, Due

LEMMA ArriveStep ==
  ASSUME ChroniclerInv, NEW f \in Episodes, NEW sec \in 1 .. now, NEW zulu \in BOOLEAN,
         H!Arrive(f, sec, zulu)
  PROVE  ChroniclerInv'
  <1> USE DEF ChroniclerInv
  <1>0. UNCHANGED <<now, watermark, pass, failures, rows, told, crowded>>
    BY DEF H!Arrive, H!outVars
  <1>1. PassType'
    BY <1>0 DEF PassType, H!Arrive, H!Before
  <1>2. bound'[f] # None => bound'[f].late = (H!Before(bound'[f], watermark)
                               \/ (pass.phase # "idle" /\ H!Before(bound'[f], pass.start)))
    BY DEF H!Arrive, H!Before, PassType
  <1>3. \A e \in Episodes : e # f => bound'[e] = bound[e]
    BY DEF H!Arrive, PassType
  <1>4. \A e \in Episodes : H!Harvested(e)' <=> H!Harvested(e)
    BY <1>0 DEF H!Harvested
  <1>5. H!WindowCovered'
    BY <1>0, <1>2, <1>3, <1>4 DEF H!WindowCovered, H!Stored, H!Before, PassType
  <1>6. PassOK'
    <2>1. \A e \in Episodes : pass.phase # "idle" /\ Due(e)' => e # f /\ Due(e)
      BY <1>0, <1>2, <1>3 DEF Due, H!Stored, H!Before, PassType
    <2>2. QED
      BY <1>0, <1>4, <2>1 DEF PassOK, Counted
  <1>7. QED
    BY <1>1, <1>5, <1>6

\* The steps that harvest nothing.
LEMMA IdleStep ==
  ASSUME ChroniclerInv, H!Begin \/ H!Tick \/ H!FailPass
  PROVE  ChroniclerInv'
  <1> USE DEF ChroniclerInv
  <1>0. UNCHANGED <<bound, watermark, rows, told, crowded>>
    BY DEF H!Begin, H!Tick, H!FailPass, H!outVars
  <1>a. H!Begin => pass' = [phase |-> "listing", start |-> now, since |-> watermark,
                            spaces |-> {}, read |-> {}, cut |-> {}, left |-> {}]
    BY DEF H!Begin, H!Idle
  <1>1. PassType'
    <2>1. CASE H!Begin
      BY <1>0, <1>a, <2>1 DEF PassType, H!Begin
    <2>2. CASE H!Tick \/ H!FailPass
      BY <1>0, <2>2 DEF PassType, H!Tick, H!FailPass, H!Idle
    <2>3. QED
      BY <2>1, <2>2
  <1>2. H!WindowCovered'
    BY <1>0, SameWindow DEF H!WindowCovered, H!Harvested, H!Stored
  <1>3. PassOK'
    <2>1. CASE H!Tick
      BY <1>0, <2>1, SameWindow DEF H!Tick, PassOK, Counted, H!Harvested
    <2>2. CASE H!Begin \/ H!FailPass
      BY <1>0, <1>a, <2>2 DEF H!FailPass, H!Idle, PassOK
    <2>3. QED
      BY <2>1, <2>2
  <1>4. QED
    BY <1>1, <1>2, <1>3

\* What the watermark has passed is harvested or was left out by the limit; the rest of
\* what is due has not been read.
LEMMA DueIsUnread ==
  ASSUME ChroniclerInv, pass.phase # "idle", NEW e \in Episodes, Due(e)
  PROVE  H!Harvested(e) \/ e \in crowded \/ e \in H!Unread
  BY DEF ChroniclerInv, PassOK, Due, H!WindowCovered, H!Unread, H!Stored

LEMMA ListStep ==
  ASSUME ChroniclerInv, H!List
  PROVE  ChroniclerInv'
  <1> USE DEF ChroniclerInv
  <1>0. UNCHANGED <<now, bound, watermark, rows, told, crowded>>
    BY DEF H!List, H!outVars
  <1>1. PICK listed \in SUBSET {e.space : e \in H!Stored} :
          pass' = [pass EXCEPT !.phase = "scanning", !.spaces = listed,
                               !.cut = {e \in H!Unread : e.space \notin listed}]
    BY DEF H!List, H!Page
  <1>2. PassType'
    <2>1. listed \in SUBSET H!Spaces /\ {e \in H!Unread : e.space \notin listed} \in SUBSET Episodes
      BY DEF H!Spaces, H!Stored, H!Unread
    <2>2. QED
      BY <1>0, <1>1, <2>1 DEF PassType
  <1>3. pass'.start = pass.start /\ pass'.since = pass.since /\ pass.phase = "listing"
        /\ pass'.phase = "scanning" /\ pass'.spaces = listed
        /\ pass'.cut = {e \in H!Unread : e.space \notin listed}
    BY <1>1 DEF PassType, H!List
  <1>4. H!WindowCovered'
    BY <1>0, SameWindow DEF H!WindowCovered, H!Harvested, H!Stored
  <1>5. PassOK'
    BY <1>0, <1>3, SameWindow, DueIsUnread DEF PassOK, Counted, H!Harvested
  <1>6. QED
    BY <1>2, <1>4, <1>5

\* The scan of a namespace reads every episode of it that is due, or counts it as left
\* out by the limit.
LEMMA ScanStep ==
  ASSUME ChroniclerInv, NEW n \in H!Spaces, H!Scan(n)
  PROVE  ChroniclerInv'
  <1> USE DEF ChroniclerInv
  <1> DEFINE there == {e \in H!Stored : e.space = n}
  <1>0. UNCHANGED <<now, bound, watermark, rows, told, crowded>>
    BY DEF H!Scan, H!outVars
  <1>1. PICK found \in SUBSET there :
          pass' = [pass EXCEPT !.spaces = @ \ {n}, !.read = @ \cup (found \cap H!Unread),
                               !.cut = @ \cup ((there \ found) \cap H!Unread)]
    BY DEF H!Scan, H!Page
  <1>2. PassType'
    BY <1>0, <1>1 DEF PassType, H!Stored, H!Unread
  <1>3. /\ pass'.start = pass.start /\ pass'.since = pass.since
        /\ pass.phase = "scanning" /\ pass'.phase = "scanning"
        /\ pass'.spaces = pass.spaces \ {n}
        /\ pass'.read = pass.read \cup (found \cap H!Unread)
        /\ pass'.cut = pass.cut \cup ((there \ found) \cap H!Unread)
    BY <1>1 DEF PassType, H!Scan
  <1>4. H!WindowCovered'
    BY <1>0, SameWindow DEF H!WindowCovered, H!Harvested, H!Stored
  <1>5. \A e \in Episodes :
          Due(e) /\ e.space = n
            => H!Harvested(e) \/ e \in crowded \/ e \in pass'.cut \/ e \in pass'.read
    BY <1>3, DueIsUnread DEF Due
  <1>6. PassOK'
    BY <1>0, <1>3, <1>5, SameWindow DEF PassOK, Counted, H!Harvested
  <1>7. QED
    BY <1>2, <1>4, <1>6

LEMMA WriteRowsStep ==
  ASSUME ChroniclerInv, H!WriteRows
  PROVE  ChroniclerInv'
  <1> USE DEF ChroniclerInv
  <1>0. /\ UNCHANGED <<bound, watermark, told, crowded>> /\ pass'.start = pass.start
        /\ rows \subseteq rows'
    BY DEF H!WriteRows, PassType
  <1>1. PassType'
    BY <1>0 DEF PassType, H!WriteRows, H!Stories
  <1>2. H!WindowCovered'
    BY <1>0, SameWindow DEF H!WindowCovered, H!Harvested, H!Stored
  <1>3. PassOK'
    BY <1>0, SameWindow DEF H!WriteRows, H!DatasetRows, PassOK, Counted, PassType, H!Harvested
  <1>4. QED
    BY <1>1, <1>2, <1>3

LEMMA WriteCardStep ==
  ASSUME ChroniclerInv, NEW s \in H!Stories, H!WriteCard(s)
  PROVE  ChroniclerInv'
  <1> USE DEF ChroniclerInv
  <1>0. /\ UNCHANGED <<bound, watermark, rows, crowded>> /\ pass'.start = pass.start
        /\ told \subseteq told'
    BY DEF H!WriteCard, PassType
  <1>1. PassType'
    BY <1>0 DEF PassType, H!WriteCard
  <1>2. H!WindowCovered'
    BY <1>0, SameWindow DEF H!WindowCovered, H!Harvested, H!Stored
  <1>3. PassOK'
    BY <1>0, SameWindow DEF H!WriteCard, PassOK, Counted, PassType, H!Harvested
  <1>4. QED
    BY <1>1, <1>2, <1>3

\* The only step that moves the watermark: everything that is due has been harvested, or
\* is counted as left out by the limit.
LEMMA AdvanceStep ==
  ASSUME ChroniclerInv, H!Advance
  PROVE  ChroniclerInv'
  <1> USE DEF ChroniclerInv
  <1>0. UNCHANGED <<now, bound, rows, told>>
    BY DEF H!Advance, H!outVars
  <1>1. PassType'
    BY <1>0 DEF PassType, H!Advance, H!Idle
  <1>2. H!WindowCovered'
    <2>1. \A e \in Episodes : Due(e) => H!Harvested(e) \/ e \in crowded'
      BY DEF H!Advance, PassOK, Counted
    <2>2. QED
      BY <1>0, <2>1 DEF H!Advance, Due, H!WindowCovered, H!Harvested, H!Stored, H!Before
  <1>3. PassOK'
    BY <1>0 DEF H!Advance, H!Idle, PassOK
  <1>4. QED
    BY <1>1, <1>2, <1>3

LEMMA ChroniclerStep == ChroniclerInv /\ [H!Next]_(H!vars) => ChroniclerInv'
  <1> SUFFICES ASSUME ChroniclerInv, [H!Next]_(H!vars)
               PROVE  ChroniclerInv'
    OBVIOUS
  <1>1. CASE UNCHANGED H!vars
    <2>1. UNCHANGED <<now, bound, watermark, pass, rows, told, crowded>>
      BY <1>1 DEF H!vars
    <2>2. QED
      BY <2>1, SameWindow
         DEF ChroniclerInv, PassType, PassOK, Counted, H!WindowCovered, H!Harvested, H!Stored
  <1>2. CASE H!Next
    BY <1>2, ArriveStep, IdleStep, ListStep, ScanStep, WriteRowsStep, WriteCardStep, AdvanceStep
       DEF H!Next, H!Work
  <1>3. QED
    BY <1>1, <1>2

\* The watermark of the Chronicler: for any episodes, arrivals and failed passes, it never
\* passes an episode that has not been harvested, unless the episode came too late or the
\* scan limit left it out.
THEOREM WatermarkPassesNothing == H!Spec => []WindowCovered
  <1>1. ChroniclerInv => H!WindowCovered
    BY DEF ChroniclerInv
  <1>2. QED
    BY <1>1, ChroniclerInit, ChroniclerStep, PTL DEF H!Spec, WindowCovered

-----------------------------------------------------------------------------
(***************************************************************************)
(* Fixture                                                                 *)
(***************************************************************************)
FixtureType ==
  /\ live \in F!Table
  /\ dir \in {None} \cup F!Directory
  /\ snap \in [Snapshots -> {"new", "dumping", "refused", "exporting", "done", "failed",
                            "killed"}]
  /\ restore \in [Restores -> {"new", "verified", "loading", "done", "failed"}]
  /\ target \in {None} \cup [store : F!Table, store_vectors : F!Table, cut : BOOLEAN]
  /\ shelf \subseteq Rollouts
  /\ rollout \in [Rollouts -> {"new", "wrote", "discarded", "cut"}]
  /\ damage \in {None, "early", "late"}

\* The directory belongs to the one snapshot that is exporting, until it has a manifest.
Owned ==
  \A a \in Snapshots :
    snap[a] = "exporting" => /\ dir # None /\ dir.manifest = None
                             /\ \A b \in Snapshots : snap[b] = "exporting" => a = b

\* The rows are exported before the vectors, from a store that only grows, so that every
\* row in the files has its vector there once both are written.
Exported ==
  dir # None =>
    /\ dir.data.store_vectors # None => dir.data.store # None
    /\ dir.manifest = None /\ dir.data.store # None =>
         \A r \in Rows : dir.data.store[r] <= live[r]
    /\ dir.manifest = None /\ dir.data.store_vectors # None =>
         \A r \in Rows : dir.data.store[r] > 0 => dir.data.store_vectors[r] > 0

\* A fixture with a manifest is complete, and as the manifest says until it is damaged;
\* the manifest vouches for no row without a vector.
SealedOK ==
  F!Sealed => /\ dir.data \in [store : F!Table, store_vectors : F!Table]
              /\ dir.manifest \in [store : F!Table, store_vectors : F!Table]
              /\ damage = None => dir.data = dir.manifest
              /\ \A r \in Rows :
                   dir.manifest.store[r] > 0 => dir.manifest.store_vectors[r] > 0

\* What a restore under way relies on.
VerifiedOK ==
  /\ target # None => F!Sealed
  /\ \A x \in Restores :
       restore[x] \in {"verified", "loading"} =>
         F!Sealed /\ (damage # "late" => dir.data = dir.manifest)

\* Only ids that make a valid project have records.
ShelfOK == \A q \in shelf : F!Valid(q)

FixtureInv ==
  /\ FixtureType /\ ShelfOK /\ Owned /\ Exported /\ SealedOK /\ VerifiedOK
  /\ F!CorpusExact /\ F!EveryRowSearchable /\ F!RolloutsKept

LEMMA FixtureInit ==
  ASSUME F!FixtureAssumption, F!Init PROVE FixtureInv
  BY DEF F!Init, F!FixtureAssumption, F!Absent, F!Table, F!Sealed, FixtureInv, FixtureType,
         ShelfOK, Owned, Exported, SealedOK, VerifiedOK, F!CorpusExact, F!EveryRowSearchable,
         F!RolloutsKept

\* The steps that leave the directory alone, its damage and the restored store too.
LEMMA LiveStep ==
  ASSUME FixtureInv, (\E r \in Rows : F!Put(r)) \/ (\E a \in Snapshots : F!Check(a) \/ F!Kill(a))
  PROVE  FixtureInv'
  <1> USE DEF FixtureInv
  <1>0. UNCHANGED <<dir, restore, target, shelf, rollout, damage>>
    BY DEF F!Put, F!Check, F!Kill, F!runVars
  <1>1. FixtureType' /\ Owned'
    BY <1>0 DEF F!Put, F!Check, F!Kill, FixtureType, Owned, F!Table
  <1>2. Exported'
    BY <1>0 DEF F!Put, F!Check, F!Kill, FixtureType, Exported, F!Table, F!Directory, F!Files
  <1>3. QED
    BY <1>0, <1>1, <1>2
       DEF ShelfOK, SealedOK, VerifiedOK, F!Sealed, F!CorpusExact, F!EveryRowSearchable, F!RolloutsKept

\* The steps of a snapshot that has, or makes, the directory: there is no finished fixture
\* then, so that nothing is restored from it.
LEMMA ExportStep ==
  ASSUME F!FixtureAssumption, FixtureInv, NEW a \in Snapshots,
         \/ F!MakeDir(a) \/ F!Fail(a) \/ F!Seal(a)
         \/ \E k \in DOMAIN F!Tables : F!CopyOut(a, k)
  PROVE  FixtureInv' /\ (F!Sealed => dir' = dir)
  <1> USE DEF FixtureInv
  <1>0. UNCHANGED <<live, restore, target, shelf, rollout, damage>>
    BY DEF F!MakeDir, F!Fail, F!Seal, F!CopyOut, F!runVars
  <1>1. CASE F!Sealed
    <2>1. dir' = dir
      BY <1>1 DEF F!MakeDir, F!Fail, F!Seal, F!CopyOut, F!Exporting, Owned, F!Sealed
    <2>2. snap' \in [Snapshots -> {"new", "dumping", "refused", "exporting", "done",
                                   "failed", "killed"}]
      BY DEF F!MakeDir, F!Fail, F!Seal, F!CopyOut, FixtureType
    <2>3. \A b \in Snapshots : snap'[b] # "exporting"
      BY <1>1 DEF F!MakeDir, F!Fail, F!Seal, F!CopyOut, F!Exporting, FixtureType, Owned,
                  F!Sealed
    <2>4. QED
      BY <1>0, <2>1, <2>2, <2>3
         DEF FixtureType, Owned, Exported, ShelfOK, SealedOK, VerifiedOK, F!Sealed, F!CorpusExact,
             F!EveryRowSearchable, F!RolloutsKept
  <1>2. CASE ~F!Sealed
    <2>0. target = None /\ \A x \in Restores : restore[x] \notin {"verified", "loading"}
      BY <1>2 DEF VerifiedOK
    <2>a. snap[a] = "exporting" => /\ dir \in F!Directory /\ dir.manifest = None
                                   /\ \A b \in Snapshots : snap[b] = "exporting" => a = b
      BY DEF Owned, FixtureType
    <2>b. FixtureType' /\ Owned' /\ Exported' /\ SealedOK'
      <3>1. CASE F!MakeDir(a) /\ dir = None
        <4>1. dir' = [data |-> [store |-> None, store_vectors |-> None], manifest |-> None]
          BY <3>1 DEF F!MakeDir
        <4>2. dir' \in F!Directory /\ dir' # None
          BY <4>1 DEF F!Directory, F!Files, F!FixtureAssumption
        <4>3. snap' = [snap EXCEPT ![a] = "exporting"]
              /\ \A b \in Snapshots : snap[b] # "exporting"
          BY <3>1 DEF F!MakeDir, Owned
        <4>4. QED
          BY <1>0, <4>1, <4>2, <4>3 DEF FixtureType, Owned, Exported, SealedOK, F!Sealed
      <3>2. CASE F!MakeDir(a) /\ dir # None
        BY <1>0, <1>2, <3>2 DEF F!MakeDir, FixtureType, Owned, Exported, SealedOK, F!Sealed
      <3>3. CASE F!Fail(a)
        BY <1>0, <1>2, <2>a, <3>3
           DEF F!Fail, FixtureType, Owned, Exported, SealedOK, F!Sealed
      <3>4. CASE F!Seal(a)
        <4>1. dir \in F!Directory /\ dir # None
          BY <2>a, <3>4 DEF F!Seal, F!Exporting
        <4>2. dir.data.store # None /\ dir.data.store_vectors # None
          BY <3>4 DEF F!Seal, F!Tables
        <4>3. dir.data \in [store : F!Table, store_vectors : F!Table]
          BY <4>1, <4>2 DEF F!Directory, F!Files
        <4>4. dir' = [data |-> dir.data, manifest |-> dir.data] /\ dir' \in F!Directory
          BY <3>4, <4>1 DEF F!Seal, F!Directory, F!Files
        <4>5. snap' = [snap EXCEPT ![a] = "done"] /\ snap[a] = "exporting"
          BY <3>4 DEF F!Seal, F!Exporting
        <4>6. FixtureType' /\ Owned'
          BY <1>0, <2>a, <4>4, <4>5 DEF FixtureType, Owned
        <4>7. dir'.data = dir.data /\ dir'.manifest = dir.data
          BY <4>4
        <4>8. SealedOK'
          BY <2>a, <4>1, <4>2, <4>3, <4>5, <4>7 DEF SealedOK, Exported
        <4>9. Exported'
          BY <1>0, <2>a, <4>1, <4>2, <4>3, <4>5, <4>7 DEF Exported
        <4>10. QED
          BY <4>6, <4>8, <4>9
      <3>5. ASSUME NEW k \in DOMAIN F!Tables, F!CopyOut(a, k)
            PROVE  FixtureType' /\ Owned' /\ Exported' /\ SealedOK'
        <4>1. snap[a] = "exporting" /\ dir \in F!Directory /\ dir # None
          BY <2>a, <3>5 DEF F!CopyOut, F!Exporting
        <4>2. k \in {1, 2}
          BY <3>5 DEF F!Tables
        <4>3. CASE k = 1
          <5>1. dir.data.store = None /\ dir.data.store_vectors = None
            BY <3>5, <4>1, <4>3 DEF F!CopyOut, F!Tables, Exported
          <5>2. dir' = [data |-> [store |-> live, store_vectors |-> None], manifest |-> None]
            BY <2>a, <3>5, <4>1, <4>3, <5>1 DEF F!CopyOut, F!Tables, F!Directory, F!Files
          <5>3. dir' \in F!Directory /\ dir' # None
            BY <5>2 DEF FixtureType, F!Directory, F!Files, F!FixtureAssumption
          <5>4. \A r \in Rows : live[r] \in Nat
            BY DEF FixtureType, F!Table
          <5>5. QED
            BY <1>0, <2>a, <3>5, <4>1, <5>2, <5>3, <5>4
               DEF F!CopyOut, FixtureType, Owned, Exported, SealedOK, F!Sealed
        <4>4. CASE k = 2
          <5>1. dir.data.store # None
            BY <3>5, <4>1, <4>4 DEF F!CopyOut, F!Tables
          <5>2. dir' = [data |-> [store |-> dir.data.store, store_vectors |-> live],
                        manifest |-> None]
            BY <2>a, <3>5, <4>1, <4>4 DEF F!CopyOut, F!Tables, F!Directory, F!Files
          <5>3. dir' \in F!Directory /\ dir' # None
            BY <4>1, <5>2 DEF FixtureType, F!Directory, F!Files, F!FixtureAssumption
          <5>4. \A r \in Rows : live[r] \in Nat /\ dir.data.store[r] \in Nat
                                /\ dir.data.store[r] <= live[r]
            BY <2>a, <4>1, <5>1 DEF FixtureType, F!Table, F!Directory, F!Files, Exported
          <5>5. QED
            BY <1>0, <2>a, <3>5, <4>1, <5>1, <5>2, <5>3, <5>4
               DEF F!CopyOut, FixtureType, Owned, Exported, SealedOK, F!Sealed
        <4>5. QED
          BY <4>2, <4>3, <4>4
      <3>6. QED
        BY <3>1, <3>2, <3>3, <3>4, <3>5
    <2>c. QED
      BY <1>0, <1>2, <2>0, <2>b
         DEF ShelfOK, VerifiedOK, F!CorpusExact, F!EveryRowSearchable, F!RolloutsKept
  <1>3. QED
    BY <1>1, <1>2

\* Damage to the files leaves the manifest as it is.  It is early only while no restore
\* relies on the files.
LEMMA DamageStep ==
  ASSUME F!FixtureAssumption, FixtureInv, NEW r \in Rows,
         NEW files \in SUBSET {"store", "store_vectors"}, F!Damage(r, files)
  PROVE  FixtureInv' /\ F!Sealed' /\ dir'.manifest = dir.manifest
  <1> USE DEF FixtureInv
  <1>0. UNCHANGED <<live, snap, restore, target, shelf, rollout>>
    BY DEF F!Damage, F!runVars
  <1>1. /\ F!Sealed /\ dir \in F!Directory
        /\ dir.data \in [store : F!Table, store_vectors : F!Table]
    BY DEF F!Damage, F!Sealed, SealedOK, FixtureType
  <1> DEFINE lost(f) == IF f \in files THEN [dir.data[f] EXCEPT ![r] = 0] ELSE dir.data[f]
             left == [store |-> lost("store"), store_vectors |-> lost("store_vectors")]
  <1>2. left \in [store : F!Table, store_vectors : F!Table]
    BY <1>1 DEF F!Table
  <1>3. dir' = [data |-> left, manifest |-> dir.manifest]
    BY <1>1 DEF F!Damage, F!Directory
  <1>4. dir' \in F!Directory /\ dir' # None /\ dir'.manifest = dir.manifest
        /\ dir'.data = left
    <2>1. left \in F!Files /\ dir.manifest \in F!Files \cup {None}
      BY <1>1, <1>2 DEF F!Directory, F!Files
    <2> HIDE DEF left
    <2>2. dir' \in F!Directory /\ dir'.manifest = dir.manifest /\ dir'.data = left
      BY <1>3, <2>1 DEF F!Directory
    <2>3. QED
      BY <2>2 DEF F!FixtureAssumption
  <1>5. damage' \in {"early", "late"} /\ damage' # None /\ damage = None
    BY DEF F!Damage, F!FixtureAssumption
  <1>6. F!Sealed'
    BY <1>1, <1>4 DEF F!Sealed
  <1>7. FixtureType' /\ Owned'
    BY <1>0, <1>1, <1>4, <1>5 DEF FixtureType, Owned, F!Sealed
  <1>8. SealedOK'
    BY <1>1, <1>2, <1>4, <1>5 DEF SealedOK
  <1>9. Exported'
    BY <1>1, <1>2, <1>4, <1>6 DEF Exported, F!Sealed, F!FixtureAssumption
  <1>10. VerifiedOK'
    BY <1>0, <1>6 DEF VerifiedOK, F!Damage
  <1>11. F!CorpusExact' /\ F!EveryRowSearchable'
    BY <1>0, <1>4, <1>5 DEF F!CorpusExact, F!EveryRowSearchable, F!FixtureAssumption
  <1>12. QED
    BY <1>0, <1>4, <1>6, <1>7, <1>8, <1>9, <1>10, <1>11 DEF ShelfOK, F!RolloutsKept

\* A restore loads what it has verified; the foreign key gives every vector its row.
LEMMA RestoreStep ==
  ASSUME F!FixtureAssumption, FixtureInv, NEW x \in Restores,
         F!Verify(x) \/ F!Open(x) \/ F!Load(x) \/ F!Abort(x)
  PROVE  FixtureInv'
  <1> USE DEF FixtureInv
  <1>0. UNCHANGED <<live, dir, snap, shelf, rollout, damage>>
    BY DEF F!Verify, F!Open, F!Load, F!Abort
  <1>1. Owned' /\ ShelfOK' /\ Exported' /\ SealedOK' /\ F!RolloutsKept'
    BY <1>0 DEF Owned, ShelfOK, Exported, SealedOK, F!Sealed, F!RolloutsKept
  <1>2. CASE UNCHANGED target
    <2>1. FixtureType'
      BY <1>0, <1>2 DEF F!Verify, F!Open, F!Load, F!Abort, FixtureType
    <2>2. VerifiedOK'
      BY <1>0, <1>2 DEF F!Verify, F!Open, F!Load, F!Abort, F!HashMatches, F!Sealed,
                        FixtureType, VerifiedOK
    <2>3. QED
      BY <1>0, <1>1, <1>2, <2>1, <2>2 DEF F!CorpusExact, F!EveryRowSearchable
  <1>3. CASE F!Load(x) /\ F!KeysExist
             /\ target' = [store |-> dir.data.store, store_vectors |-> dir.data.store_vectors,
                           cut |-> FALSE]
             /\ restore' = [restore EXCEPT ![x] = "done"]
    <2>1. /\ F!Sealed /\ (damage # "late" => dir.data = dir.manifest)
          /\ dir.data \in [store : F!Table, store_vectors : F!Table]
      BY <1>3 DEF F!Load, VerifiedOK, SealedOK
    <2>2. FixtureType'
      BY <1>0, <1>3, <2>1 DEF FixtureType
    <2>3. VerifiedOK'
      BY <1>0, <1>3, <2>1 DEF VerifiedOK, FixtureType, F!Sealed
    <2>4. F!CorpusExact'
      BY <1>0, <1>3, <2>1 DEF F!CorpusExact, F!Table
    <2>5. F!EveryRowSearchable'
      <3>1. damage # "late" =>
              \A r \in Rows : dir.data.store[r] > 0 <=> dir.data.store_vectors[r] > 0
        BY <1>3, <2>1 DEF F!KeysExist, SealedOK
      <3>2. QED
        BY <1>0, <1>3, <3>1 DEF F!EveryRowSearchable
    <2>6. QED
      BY <1>1, <2>2, <2>3, <2>4, <2>5
  <1>4. QED
    BY <1>2, <1>3 DEF F!Verify, F!Open, F!Load, F!Abort

LEMMA Concat ==
  ASSUME NEW S, NEW a \in Seq(S), NEW b \in Seq(S)
  PROVE  /\ a \o b \in Seq(S) /\ Len(a \o b) = Len(b) + Len(a)
         /\ \A k \in 1 .. Len(a) : (a \o b)[k] = a[k]
         /\ \A k \in 1 .. Len(b) : (a \o b)[k + Len(a)] = b[k]
  OBVIOUS

\* The characters of a rollout's project: no dot among them, so that the first dot of its
\* prefix ends the project.
LEMMA ProjectCharacters ==
  ASSUME F!FixtureAssumption, NEW q \in Rollouts, F!Valid(q)
  PROVE  /\ F!Project(q) \in Seq(Letters \cup {"underscore"})
         /\ Len(F!Project(q)) = Len(q) + 2
         /\ \A k \in 1 .. Len(F!Project(q)) : F!Project(q)[k] # "."
         /\ \A k \in 1 .. Len(q) : F!Project(q)[k + 2] = q[k]
  <1>1. q \in Seq(Letters \cup {"underscore"})
    BY DEF F!FixtureAssumption, F!Meta, F!Valid
  <1>2. F!Scratch \in Seq(Letters \cup {"underscore"}) /\ Len(F!Scratch) = 2
    BY DEF F!Scratch, F!FixtureAssumption, F!Meta
  <1>3. F!Project(q) \in Seq(Letters \cup {"underscore"}) /\ Len(F!Project(q)) = Len(q) + 2
    BY <1>1, <1>2, Concat DEF F!Project
  <1>4. \A k \in 1 .. Len(F!Project(q)) : F!Project(q)[k] \in Letters \cup {"underscore"}
    BY <1>3
  <1>5. "." \notin Letters \cup {"underscore"}
    BY DEF F!FixtureAssumption, F!Meta
  <1>6. \A k \in 1 .. Len(q) : F!Project(q)[k + 2] = q[k]
    <2> DEFINE scratch == F!Scratch
               S == Letters \cup {"underscore"}
    <2>1. scratch \in Seq(S) /\ q \in Seq(S)
      BY <1>1, <1>2
    <2>2. Len(scratch) = 2
      BY <1>2
    <2> HIDE DEF scratch, S
    <2>3. \A k \in 1 .. Len(q) : (scratch \o q)[k + Len(scratch)] = q[k]
      BY <2>1, Concat
    <2>4. \A k \in 1 .. Len(q) : (scratch \o q)[k + 2] = q[k]
      BY <2>2, <2>3
    <2>5. QED
      BY <2>4 DEF F!Project, scratch
  <1>7. QED
    BY <1>3, <1>4, <1>5, <1>6

\* discard_patterns: what is selected is the project itself, or begins with the project
\* and a dot.
LEMMA SelectedBegins ==
  ASSUME F!FixtureAssumption, NEW q \in Rollouts, F!Valid(q),
         NEW prefix \in Seq(Letters \cup {".", "underscore"}), F!Selects(q, prefix)
  PROVE  \/ prefix = F!Project(q)
         \/ /\ Len(prefix) > Len(F!Project(q))
            /\ prefix[Len(F!Project(q)) + 1] = "."
            /\ \A k \in 1 .. Len(F!Project(q)) : prefix[k] = F!Project(q)[k]
  <1> DEFINE project == F!Project(q)
             escaped == [k \in DOMAIN project |-> F!Escape(project[k])]
             dot == [char |-> ".", escaped |-> FALSE]
             T == [char : Letters \cup {".", "underscore"}, escaped : BOOLEAN]
  <1>0. project \in Seq(Letters \cup {"underscore"})
    BY ProjectCharacters
  <1>1. escaped \in Seq(T) /\ Len(escaped) = Len(project)
    <2>1. \A k \in DOMAIN project : F!Escape(project[k]) \in T
      <3> SUFFICES ASSUME NEW k \in DOMAIN project PROVE F!Escape(project[k]) \in T
        OBVIOUS
      <3>1. project[k] \in Letters \cup {".", "underscore"}
        BY <1>0
      <3>2. QED
        BY <3>1 DEF F!Escape
    <2>2. DOMAIN project = 1 .. Len(project) /\ Len(project) \in Nat
      BY <1>0
    <2>3. QED
      BY <2>1, <2>2
  <1>2. F!Literal(q) = Append(escaped, dot)
    BY DEF F!Literal
  <1>3. dot \in T
    OBVIOUS
  <1>4. /\ Len(F!Literal(q)) = Len(project) + 1
        /\ DOMAIN F!Literal(q) = 1 .. Len(project) + 1
        /\ F!Literal(q)[Len(project) + 1] = dot
        /\ \A k \in 1 .. Len(project) : F!Literal(q)[k] = F!Escape(project[k])
    BY <1>0, <1>1, <1>2, <1>3
  <1>5. SUFFICES ASSUME F!Like(prefix, F!Literal(q))
                 PROVE  /\ Len(prefix) > Len(project)
                        /\ prefix[Len(project) + 1] = "."
                        /\ \A k \in 1 .. Len(project) : prefix[k] = project[k]
    BY DEF F!Selects
  <1>6. Len(prefix) >= Len(project) + 1 /\ Len(project) \in Nat /\ Len(prefix) \in Nat
    BY <1>0, <1>4, <1>5 DEF F!Like
  <1>7. prefix[Len(project) + 1] = "."
    BY <1>4, <1>5, <1>6 DEF F!Like
  <1>8. \A k \in 1 .. Len(project) : prefix[k] = project[k]
    <2> SUFFICES ASSUME NEW k \in 1 .. Len(project) PROVE prefix[k] = project[k]
      OBVIOUS
    <2>1. F!Literal(q)[k] = [char |-> project[k], escaped |-> project[k] \in F!Meta]
      BY <1>4 DEF F!Escape
    <2>a. F!Literal(q)[k].char = project[k]
      BY <2>1
    <2>b. ASSUME project[k] = "underscore" PROVE F!Literal(q)[k].escaped
      <3>1. project[k] \in F!Meta
        BY <2>b DEF F!Meta
      <3>2. (project[k] \in F!Meta) = TRUE
        BY <3>1
      <3>3. F!Literal(q)[k] = [char |-> project[k], escaped |-> TRUE]
        BY <2>1, <3>2
      <3>4. QED
        BY <3>3
    <2>2. \/ F!Literal(q)[k].char = prefix[k]
          \/ F!Literal(q)[k].char = "underscore" /\ ~F!Literal(q)[k].escaped
      BY <1>4, <1>5, <1>6 DEF F!Like
    <2>3. QED
      BY <2>a, <2>b, <2>2
  <1>9. QED
    BY <1>6, <1>7, <1>8

\* So a discard removes the records of its own rollout and no others, and nothing of the
\* corpus.
LEMMA DiscardIsExact ==
  ASSUME F!FixtureAssumption, NEW q \in Rollouts, F!Valid(q)
  PROVE  /\ \A p \in Rollouts :
              F!Valid(p) /\ F!Selects(q, F!ScratchPrefix(p)) => p = q
         /\ \A r \in Rows : ~F!Selects(q, Prefix[r])
  <1> DEFINE project == F!Project(q)
  <1>1. ASSUME NEW p \in Rollouts, F!Valid(p), F!Selects(q, F!ScratchPrefix(p))
        PROVE  p = q
    <2> DEFINE other == F!Project(p)
               prefix == F!ScratchPrefix(p)
    <2>1. /\ project \in Seq(Letters \cup {"underscore"}) /\ other \in Seq(Letters \cup {"underscore"})
          /\ Len(project) = Len(q) + 2 /\ Len(other) = Len(p) + 2
          /\ \A k \in 1 .. Len(project) : project[k] # "."
          /\ \A k \in 1 .. Len(other) : other[k] # "."
          /\ \A k \in 1 .. Len(q) : project[k + 2] = q[k]
          /\ \A k \in 1 .. Len(p) : other[k + 2] = p[k]
      BY <1>1, ProjectCharacters
    <2>2. p \in Seq(Letters \cup {"underscore"}) /\ q \in Seq(Letters \cup {"underscore"})
      BY <1>1 DEF F!FixtureAssumption, F!Meta, F!Valid
    <2>3. /\ prefix \in Seq(Letters \cup {".", "underscore"})
          /\ Len(prefix) = Len(other) + 2
          /\ \A k \in 1 .. Len(other) : prefix[k] = other[k]
          /\ prefix[Len(other) + 1] = "." /\ prefix[Len(other) + 2] = "t"
      <3>1. other \in Seq(Letters \cup {".", "underscore"})
        BY <2>1
      <3>2. <<".", "t">> \in Seq(Letters \cup {".", "underscore"})
        BY DEF F!FixtureAssumption, F!Meta
      <3>3. QED
        BY <3>1, <3>2, Concat DEF F!ScratchPrefix
    <2>4. \/ prefix = project
          \/ /\ Len(prefix) > Len(project)
             /\ prefix[Len(project) + 1] = "."
             /\ \A k \in 1 .. Len(project) : prefix[k] = project[k]
      BY <1>1, <2>3, SelectedBegins
    <2>5. prefix # project
      BY <2>1, <2>3
    <2>6. Len(project) = Len(other)
      <3>1. Len(project) \in Nat /\ Len(other) \in Nat
        BY <2>1
      <3>2. ~(Len(project) < Len(other))
        BY <2>1, <2>3, <2>4, <2>5, <3>1
      <3>3. ~(Len(project) = Len(other) + 1)
        BY <2>3, <2>4, <2>5, <3>1
      <3>4. QED
        BY <2>3, <2>4, <2>5, <3>1, <3>2, <3>3
    <2>7. Len(p) = Len(q) /\ \A k \in 1 .. Len(q) : p[k] = q[k]
      BY <2>1, <2>2, <2>3, <2>4, <2>5, <2>6
    <2>8. QED
      BY <2>2, <2>7
  <1>2. ASSUME NEW r \in Rows, F!Selects(q, Prefix[r])
        PROVE  FALSE
    <2> DEFINE prefix == Prefix[r]
    <2>1. prefix \in Seq(Letters \cup {".", "underscore"}) /\ prefix # project
      BY DEF F!FixtureAssumption, F!Meta
    <2>2. project \in Seq(Letters \cup {"underscore"})
      BY ProjectCharacters
    <2>3. /\ Len(prefix) > Len(project)
          /\ prefix[Len(project) + 1] = "."
          /\ \A k \in 1 .. Len(project) : prefix[k] = project[k]
      BY <1>2, <2>1, SelectedBegins
    <2>4. SubSeq(prefix, 1, Len(project) + 1) = Append(project, ".")
      <3>1. /\ Append(project, ".") \in Seq(Letters \cup {".", "underscore"})
            /\ Len(Append(project, ".")) = Len(project) + 1
            /\ Append(project, ".")[Len(project) + 1] = "."
            /\ \A k \in 1 .. Len(project) : Append(project, ".")[k] = project[k]
        BY <2>2
      <3>2. /\ SubSeq(prefix, 1, Len(project) + 1) \in Seq(Letters \cup {".", "underscore"})
            /\ Len(SubSeq(prefix, 1, Len(project) + 1)) = Len(project) + 1
            /\ \A k \in 1 .. Len(project) + 1 :
                 SubSeq(prefix, 1, Len(project) + 1)[k] = prefix[k]
        BY <2>1, <2>2, <2>3
      <3>3. \A k \in 1 .. Len(project) + 1 :
              SubSeq(prefix, 1, Len(project) + 1)[k] = Append(project, ".")[k]
        BY <2>2, <2>3, <3>1, <3>2
      <3>4. QED
        BY <3>1, <3>2, <3>3
    <2>5. Len(prefix) <= Len(project)
            \/ SubSeq(prefix, 1, Len(project) + 1) # Append(project, ".")
      BY DEF F!FixtureAssumption
    <2>6. Len(prefix) \in Nat /\ Len(project) \in Nat
      BY <2>1, <2>2
    <2>7. QED
      BY <2>3, <2>4, <2>5, <2>6
  <1>3. QED
    BY <1>1, <1>2

\* The cut keeps exactly what occurred before it, and rollouts keep to themselves.
LEMMA RunStep ==
  ASSUME F!FixtureAssumption, FixtureInv,
         F!Cut \/ \E q \in Rollouts : F!Write(q) \/ F!Discard(q)
  PROVE  FixtureInv'
  <1> USE DEF FixtureInv
  <1>0. UNCHANGED <<live, dir, snap, restore, damage>>
    BY DEF F!Cut, F!Write, F!Discard
  <1>1. Owned' /\ Exported' /\ SealedOK'
    BY <1>0 DEF Owned, Exported, SealedOK, F!Sealed
  <1>2. CASE F!Cut
    <2> DEFINE kept(table) == [r \in Rows |-> IF F!Excluded(r) THEN 0 ELSE table[r]]
    <2>1. /\ target \in [store : F!Table, store_vectors : F!Table, cut : BOOLEAN]
          /\ target' = [store |-> kept(target.store),
                        store_vectors |-> kept(target.store_vectors), cut |-> TRUE]
          /\ target # None
      BY <1>2 DEF F!Cut, FixtureType
    <2>2. kept(target.store) \in F!Table /\ kept(target.store_vectors) \in F!Table
      BY <2>1 DEF F!Table
    <2>3. FixtureType' /\ ShelfOK' /\ VerifiedOK' /\ F!RolloutsKept'
      BY <1>0, <1>2, <2>1, <2>2 DEF F!Cut, FixtureType, ShelfOK, VerifiedOK, F!Sealed, F!RolloutsKept
    <2>4. F!CorpusExact'
      <3>1. \A r \in Rows : F!Excluded(r) <=> When[r] # "before"
        BY DEF F!Excluded, F!FixtureAssumption
      <3>2. QED
        BY <1>0, <2>1, <3>1 DEF F!CorpusExact
    <2>5. F!EveryRowSearchable'
      BY <1>0, <2>1 DEF F!EveryRowSearchable
    <2>6. QED
      BY <1>1, <2>3, <2>4, <2>5
  <1>3. CASE \E q \in Rollouts : F!Write(q)
    <2>1. UNCHANGED target
      BY <1>3 DEF F!Write
    <2>2. FixtureType' /\ ShelfOK' /\ F!RolloutsKept'
      BY <1>0, <1>3, <2>1 DEF F!Write, FixtureType, ShelfOK, F!RolloutsKept
    <2>3. QED
      BY <1>0, <1>1, <2>1, <2>2
         DEF VerifiedOK, F!Sealed, F!CorpusExact, F!EveryRowSearchable
  <1>4. ASSUME NEW q \in Rollouts, F!Discard(q)
        PROVE  FixtureInv'
    <2>1. target \in [store : F!Table, store_vectors : F!Table, cut : BOOLEAN] /\ F!Valid(q)
      BY <1>4 DEF F!Discard, FixtureType
    <2>2. \A r \in Rows : ~F!Selects(q, Prefix[r])
      BY <2>1, DiscardIsExact
    <2> DEFINE kept(table) == [r \in Rows |-> IF F!Selects(q, Prefix[r]) THEN 0 ELSE table[r]]
    <2>3. kept(target.store) = target.store /\ kept(target.store_vectors) = target.store_vectors
      BY <2>1, <2>2 DEF F!Table
    <2>4. target' = [target EXCEPT !.store = kept(target.store),
                                   !.store_vectors = kept(target.store_vectors)]
      BY <1>4 DEF F!Discard
    <2>5. UNCHANGED target
      BY <2>1, <2>3, <2>4
    <2>6. /\ shelf' = {p \in shelf : ~F!Selects(q, F!ScratchPrefix(p))}
          /\ rollout' = [rollout EXCEPT ![q] = "discarded"]
      BY <1>4 DEF F!Discard
    <2>7. FixtureType' /\ ShelfOK'
      BY <1>0, <2>5, <2>6 DEF FixtureType, ShelfOK
    <2>8. F!RolloutsKept'
      BY <2>1, <2>6, DiscardIsExact DEF FixtureType, ShelfOK, F!RolloutsKept
    <2>9. QED
      BY <1>0, <1>1, <2>5, <2>7, <2>8
         DEF VerifiedOK, F!Sealed, F!CorpusExact, F!EveryRowSearchable
  <1>5. QED
    BY <1>2, <1>3, <1>4

LEMMA FixtureStep ==
  ASSUME F!FixtureAssumption, FixtureInv, [F!Next]_(F!vars)
  PROVE  FixtureInv'
  <1>1. CASE UNCHANGED F!vars
    BY <1>1 DEF F!vars, FixtureInv, FixtureType, ShelfOK, Owned, Exported, SealedOK, VerifiedOK, F!Sealed,
                F!CorpusExact, F!EveryRowSearchable, F!RolloutsKept
  <1>2. CASE F!Next
    BY <1>2, LiveStep, ExportStep, DamageStep, RestoreStep, RunStep DEF F!Next
  <1>3. QED
    BY <1>1, <1>2

\* restore_fixture and apply_temporal_cut, for any rows and dates and any number of racing
\* snapshots and restores: the target holds exactly what the manifest vouches for, and
\* after the cut exactly what occurred before it.
THEOREM RestoredCorpusIsExact == F!Spec => []CorpusExact
  <1>0. F!FixtureAssumption
    BY OfflineAssumption
  <1> USE <1>0
  <1>1. F!Init => FixtureInv
    BY FixtureInit
  <1>2. FixtureInv /\ [F!Next]_(F!vars) => FixtureInv'
    BY FixtureStep
  <1>3. FixtureInv => F!CorpusExact
    BY DEF FixtureInv
  <1>4. QED
    BY <1>1, <1>2, <1>3, PTL DEF F!Spec, CorpusExact

\* _export_data and the foreign key: whatever the live store does between the two COPYs,
\* every restored row has a vector and every vector its row, unless a file was damaged
\* after its hash was verified.
THEOREM RestoredRowsAreSearchable == F!Spec => []EveryRowSearchable
  <1>0. F!FixtureAssumption
    BY OfflineAssumption
  <1> USE <1>0
  <1>1. F!Init => FixtureInv
    BY FixtureInit
  <1>2. FixtureInv /\ [F!Next]_(F!vars) => FixtureInv'
    BY FixtureStep
  <1>3. FixtureInv => F!EveryRowSearchable
    BY DEF FixtureInv
  <1>4. QED
    BY <1>1, <1>2, <1>3, PTL DEF F!Spec, EveryRowSearchable

\* discard_patterns: for any rollout ids, of whatever characters and one the beginning of
\* another included, only its own discard or a cut removes what a rollout wrote.
THEOREM RolloutsKeepTheirRecords == F!Spec => []RolloutsKept
  <1>0. F!FixtureAssumption
    BY OfflineAssumption
  <1> USE <1>0
  <1>1. F!Init => FixtureInv
    BY FixtureInit
  <1>2. FixtureInv /\ [F!Next]_(F!vars) => FixtureInv'
    BY FixtureStep
  <1>3. FixtureInv => F!RolloutsKept
    BY DEF FixtureInv
  <1>4. QED
    BY <1>1, <1>2, <1>3, PTL DEF F!Spec, RolloutsKept

\* create_snapshot, for any number of racing calls with one fixture id: once there is a
\* manifest, no call removes the fixture or changes anything of it.
THEOREM FixturesAreImmutable == F!Spec => FixtureImmutable
  <1>0. F!FixtureAssumption
    BY OfflineAssumption
  <1> USE <1>0
  <1> DEFINE Immutable == F!Sealed => /\ dir' # None /\ dir'.manifest = dir.manifest
                                      /\ (damage' = damage => dir' = dir)
  <1>1. F!Init => FixtureInv
    BY FixtureInit
  <1>2. FixtureInv /\ [F!Next]_(F!vars) => FixtureInv'
    BY FixtureStep
  <1>3. FixtureInv /\ [F!Next]_(F!vars) => [Immutable]_(F!vars)
    <2> SUFFICES ASSUME FixtureInv, F!Next, F!Sealed
                 PROVE  Immutable
      BY DEF F!Sealed
    <2>1. CASE dir' = dir
      BY <2>1 DEF F!Sealed
    <2>2. ASSUME NEW r \in Rows, NEW files \in SUBSET {"store", "store_vectors"},
                 F!Damage(r, files)
          PROVE  Immutable
      <3>1. dir' # None /\ dir'.manifest = dir.manifest
        BY <2>2, DamageStep DEF F!Sealed
      <3>2. damage' # damage
        BY <2>2 DEF F!Damage, F!FixtureAssumption
      <3>3. QED
        BY <3>1, <3>2
    <2>3. \/ dir' = dir
          \/ \E r \in Rows, files \in SUBSET {"store", "store_vectors"} : F!Damage(r, files)
      BY ExportStep DEF F!Next, F!Put, F!Check, F!Kill, F!Verify, F!Open, F!Load, F!Abort,
                        F!Cut, F!Write, F!Discard
    <2>4. QED
      BY <2>1, <2>2, <2>3
  <1>4. QED
    BY <1>1, <1>2, <1>3, PTL DEF F!Spec, FixtureImmutable, F!FixtureImmutable

=============================================================================
