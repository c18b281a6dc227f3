------------------------------ MODULE Offline ------------------------------
(***************************************************************************)
(* The two jobs beside the services, Fixture and Chronicler, which share no *)
(* state, side by side, with the properties of each.                       *)
(***************************************************************************)
EXTENDS Integers

CONSTANTS
  Rows, When, Snapshots, Restores, Rollouts, Letters, Prefix,         \* Fixture
  MaxVersion,
  Episodes, Others, OtherSpaces, ScanLimit, MaxNow, MaxFailures,      \* Chronicler
  None

VARIABLES
  live, dir, snap, restore, target, shelf, rollout, damage,
  now, bound, watermark, pass, rows, told, failures, crowded

F == INSTANCE Fixture
H == INSTANCE Chronicler

ASSUME OfflineAssumption == F!FixtureAssumption /\ H!ChroniclerAssumption

\* No call of create_snapshot changes a finished fixture.
FixtureImmutable == F!FixtureImmutable

\* The per-run store is what the manifest vouches for, less what the cut excludes.
CorpusExact == F!CorpusExact

\* A restored row has a vector, and a vector its row.
EveryRowSearchable == F!EveryRowSearchable

\* Only its own discard or a cut removes what a rollout wrote.
RolloutsKept == F!RolloutsKept

\* The watermark passes no episode that has not been harvested, but for late ones and
\* those beyond the scan limit.
WindowCovered == H!WindowCovered

=============================================================================
