# fleet-memory in TLA+

TLA+ models of the core of fleet-memory, the TLC runs that check them on small
instances, and TLAPS proofs of the most important properties for instances of any
size. Paths below are relative to `src/src/fleet_memory/` unless they begin with
`src/`. `PROJECT.json` lists, for every definition, the lines it models.

## 1. Inventory

fleet-memory keeps typed records and prose chunks in Postgres (through langgraph's
store). Records arrive as *episodes* over NATS JetStream and through MCP tools, and
are read back by an MCP search tool.

| component | state it keeps | operations | talks to | what makes it correct |
|---|---|---|---|---|
| deterministic writer (`writer/`) | records under natural keys: content, hash, version, `superseded_by` | `write`, `write_batch`, forward lookup, `apply_supersessions` | store, embeddings | idempotent under redelivery, versions count content changes, declared links get applied |
| `memory_supersede` (`mcp/tools/supersede.py`) | none | declare a successor | writer's supersession code | a declaration takes effect |
| relay (`relay/`, `app.py`) | the message in hand; JetStream keeps delivery counts | handle, ingest, ack / nak / term, dead-letter | JetStream, writer, chunker, marker | ack only after the commit, no silent loss, certain failures are not retried |
| progress marker (`fence/marker.py`) | start and last-ingest time, in memory and in a file | `record_start`, `record_ingest`, `record_message` | read by the fence | never claims progress that did not happen |
| liveness fence (`fence/`) | an acknowledgement file | one run: store, builds, marker, verdict | store, build receipts, marker | silence is always reported, no false comfort |
| chunker (`relay/chunker.py`) | loop state | `chunk_prose` | called by the relay | nothing lost where characters are cut, order, bounded size, termination |
| embedding client (`embed.py`) | loop state | `_pack_batches`, `embed` with one retry | embedding server | one embedding per text, batches within budget |
| retrieval (`retrieval/core.py`) | offsets and accepted items of a running search | paging, filter, merge | store, concurrently with writers | no match is crowded out, no double result, termination |
| composition and assembly (`retrieval/composition.py`, `assembly.py`) | loop state | `compose_by_complexity`, `assemble_context` | called by `memory_search` | rank order, budget used |
| role scope, probe harness (`retrieval/`) | none | scope a request; evaluate | retrieval | a role sees its types only |
| MCP server and doors (`mcp/`) | the shared store context, lifespans, calls in flight | start, serve, stop; the tools of the main server and of each sandbox door | all of the above | doors isolated from each other, one open pool, errors blamed on the right side, the process ends together |
| reindex (`reindex/`) | the report being built and the report file | publish run, backfill, census, audit | JetStream, store, corpus checkout, dead letters | every document reported once, nothing published vanishes, safe to rerun, stored lessons kept, exact audit |
| fixture tooling (`fixture/`) | fixture directory with its manifest, per-run database | snapshot, restore, temporal cut, scratch projects | Postgres | a finished fixture never changes, the per-run store is exact and searchable, a rollout keeps what it wrote |
| chronicler (`chronicler/`, `src/ops/chronicler/`) | watermark file, intake, story cards | a scheduled pass: list, scan, rows, cards, watermark | store, files | the watermark passes nothing that could have been harvested |
| payload registry (`payloads/`), settings, store context | definitions | validation, connection | everyone | |

Hard behaviours: every `await` is a point where another process runs or where the
call fails; there is no lock and no compare-and-set on a record. JetStream delivers
at least once, up to `max_deliver` times, and may redeliver while the first handler
is still at work. The marker file can fail to be written, be lost, or be older than
the process. A search reads several pages while writers reorder what it reads. Servers
of one process share a pool that one of them opens and closes. A snapshot copies its
tables one by one from a store that goes on changing, and a harvest pass reads a limited
part of a store into which episodes go on arriving. The audit takes two quiet seconds for
the end of the dead letters. The list of hazards, each at its line and with the
properties aimed at it, is in `PROJECT.json`.

## 2. Modules

| module | models | actions |
|---|---|---|
| `Writer` | `writer/core.py`, `writer/supersession.py`, `mcp/tools/supersede.py` | `Begin`, `ReadExisting`, `SearchPage`, `SearchRaises`, `PutRecord`, `ReadPredecessor`, `MarkPredecessor`, `Fail`, `Retry`, `GiveUp` |
| `Relay` | `relay/handler.py`, `relay/service.py`, `relay/chunk_writer.py`, the marker calls; JetStream and FastStream as external | `Publish`, `Deliver`, `AckWaitExpires`, `WriteUnit`, `IngestRaises`, `IngestReturns`, `RoutePoison`, `RouteTransient`, `PublishRaises`, `Ack`, `Term`, `Nak`, `Crash` |
| `Delivery` | nothing: the promise of the relay to a publisher, which `Relay` implements | `Send`, `Keep`, `Bury`, `Strike`, `Settle` |
| `Fence` | `fence/marker.py`, `check.py`, `ack.py`, `store_age.py`, `builds.py`, `__main__.py` | `Start`, `Commit`, `RecordIngest`, `RecordMessage`, `Die`, `LoseMarker`, `OtherWrite`, `FinishBuild`, `Tick`, `PutAck`, `RemoveAck`, `Scheduled`, `ByHand` |
| `Chunker` | `relay/chunker.py` | `LargeSection`, `Split`, `FullChunk`, `AddSection`, `Finish` |
| `Embed` | `embed.py` | `Pack`, `Packed`, `Send`, `Return` |
| `Search` | `retrieval/core.py`, `search_request.py` | `FetchPage`, `SearchRaises`, `WriteRecord`, `Supersede` |
| `Assembly` | `retrieval/composition.py`, `assembly.py` | `Skip`, `Compose`, `PlaceNext`, `AddItem`, `Return` |
| `Reindex` | `reindex/`; the relay, JetStream's duplicate window, other writers and the checkout as external | `StartRun`, `ReadLessons`, `PublishWinner`, `CorpusDone`, `PublishBackfill`, `RefuseBackfill`, `RunDone`, `RunFails`, `Census`, `StartAudit`, `AuditKey`, `AskLetters`, `AuditDone`, `AuditFails`, `Ingest`, `DeadLetter`, `Lose`, `OtherWrite`, `Forget`, `Edit` |
| `Doors` | `mcp/`: settings, `server.py`, `__main__.py`, the tools with their checks, `degradation.py` | `Build`, `Enter`, `Opened`, `OpenFails`, `Stop`, `Reset`, `Close`, `Quit`, `GraceOver`, `Cancel`, `End`, `Invoke`, `Succeed`, `Fault`, `Drop` |
| `Fixture` | `fixture/` | `Put`, `Check`, `MakeDir`, `CopyOut`, `Seal`, `Fail`, `Kill`, `Damage`, `Verify`, `Open`, `Load`, `Abort`, `Cut`, `Write`, `Discard` |
| `Chronicler` | `chronicler/` and its script | `Arrive`, `Tick`, `Begin`, `List`, `Scan`, `WriteRows`, `WriteCard`, `Advance`, `FailPass` |

Each `MCx` module gives the constants of `x` values for TLC. Parts that share no state are
put side by side, `Chunker`, `Embed` and `Assembly` in `Loops`, `Fixture` and `Chronicler`
in `Offline`, with the properties of each; `MCJobs` sums these and `Search`, so that a
behaviour runs one of the six, while the proofs are about each one's own `Spec`. The theorems
are in `WriterProofs`, `RelayProofs`, `FenceProofs`, `DoorsProofs`, `ReindexProofs`,
`OfflineProofs` (`Fixture` and `Chronicler`), `IngestProofs` (`Chunker` and `Embed`) and
`RetrievalProofs` (`Search` and `Assembly`). Definitions named as mutants, placed before the
definition they replace, are plausible bugs: with one in place of its original, TLC
violates the property `PROJECT.json` names, which shows that the property depends on
that line of the code.

**Writer.** `store[k]` is the record under natural key `k`, or `None`. A process runs
one call at a time; `pc` names the await it stands at (`get`, `search`, `put`, `pget`,
`pput`), and everything between two awaits is one action. The content hash of
`identity.py` excludes the version only, so a record keeps the payload instead of
content and hash. `newer` is the `updated_at` order by which the forward lookup pages
through a namespace; every `aput` refreshes it. A failed call is retried from the top
(redelivery) or given up. The payload constructor's guarantees are the assumption on
`Payloads`.

**Relay.** An episode is a number of store writes plus, possibly, a defect met after
some of them. `Clauses` is the list of `except` clauses of `RelayService.ingest` in
their order and `Bases` the class hierarchy in `errors.py` and the standard library;
`IsPoison` takes the first clause that matches. `js` is JetStream's view of a message;
an answer that comes after `ack_wait` may be accepted or dropped. What FastStream does
with a message whose handler raised is a constant (`EscapeOutcomes`).

**Delivery** says what a publisher may rely on, without deliveries, handlers or
exceptions: a message is settled as acknowledged only while it is kept and not among the
dead letters, as rejected only when it is among them or a fault struck it, as exhausted
only when a fault struck it; and a settlement is not revised, except that a late answer may
still settle a message that had run out of deliveries. `Relay` maps to it by the state of
the message (`FateOf`), the episodes all of whose writes are stored (`kept`), those with a
dead letter (`dead`), and those of which a delivery was cut short or whose dead-letter
publish raised (`struck`). A redelivery, an attempt that fails and a marker update are
hidden steps.

**Fence.** Time is discrete and a timestamp is an age, capped at `Far`, which lies
beyond every threshold. The verdict is computed as in `evaluate`: store checks per
project and overall, the relay check from builds, marker and rows, then the
acknowledgement. The `Commit`/`RecordIngest` pair has no await between its halves, so
no tick passes between them.

**Chunker, Embed, Assembly** are deterministic loops over enumerated inputs, one
iteration per step; only the server's answers in `Embed` are nondeterministic. In
`Chunker` a text is a sequence of tokens, and a character may take several of them. The
chunks are slices of the token list that are decoded one by one, so that a character of
which a slice holds only a part becomes U+FFFD there (`Decode`). Token counts are additive,
and `strip()` is taken to drop white space only.

**Search.** `score` is the store's order. The vector query ranks a window of
`2 * limit + 1` candidates and applies the offset inside that window, which is why
`_search_partition` asks for `offset + size`. Writers insert, rewrite and supersede
records between two pages. Records have distinct scores.

**Reindex.** A document is what the walk, `classify_document` and the parser make of
it; the walk is one step, since nothing between its reads depends on the store. Each
winner takes two steps, the read of its stored lessons and the publish, because the
relay and other writers run in between. The relay is seen from outside: a message is
stored, dead-lettered or lost, which is what `LossIsAttributable` leaves, and may be
delivered again; `window` holds the message ids JetStream remembers. An audit asks the
store about one key a step and, for a key that is not there, the dead letters, which it
reads once (`AskLetters`): the drain ends after two seconds without a message, so what it
gets is any part of them. Later keys are looked for in that reading without a further await. `stream` is a set
of payloads: two messages in flight with one payload count as one that may be delivered
again. Audits only read, so one at a time stands for all. `sent`, `lost`, `raced`,
`seeded` (the version a record had at first) and `settled` are history that only the
properties read.

**Doors.** Server 0 is the main server, server `i` the `i`-th sandbox door; `settings` is
what `parse_sandbox_doors` and `build_servers` accept or refuse. A lifespan goes through
`entering`, `opening`, `owner`, `closing` and `stopped`, or `serving` for a server that
opened no pool. A tool call takes two steps, its checks up to the first await with the
store it then holds, and its work on that store, between which the pool may be closed. A
record is known by its project; `Extends` says which project names begin with another one,
because the store selects namespaces by prefix.

**Fixture.** A table is the version of each row. Each `COPY` is a statement of its own,
between which the live store changes; what a transaction does is one step. Snapshots race
for one fixture id, restores for one target. The manifest holds the hash, that is the
content, of the files it vouches for; damage loses a record of one file or of both. A
rollout id and the prefix column of a row are sequences of characters, and a discard
selects rows by the exact prefix or by a LIKE operand whose characters are escaped or act
as wild cards (`Escape`, `Like`), among the corpus as well as among the other rollouts.

**Chronicler.** Time is in whole seconds, as the script writes it into the watermark. The
bound of an episode is compared with it as a string, so that within one second a time
with a fraction or an offset comes before one with a `Z`: this is `zulu`. A pass lists
namespaces, scans them one by one, writes its rows, then card after card, then the
watermark, and may fail at any point. The listing and each scan return at most `ScanLimit`
entries (`Page`), the most recently updated ones: since any record may be written again at
any time, which entries these are is left open. `late` and `crowded` are history: the
episode arrived when a pass had already been started for the time after it, or a pass that
succeeded left it out because of the limit.

## 3. Runs

| run | expects | shows |
|---|---|---|
| `writer_single` | pass | one writer, two failures: `DeclaredLinksApplied` in any order of arrival, `VersionDiscipline`, and `EventuallyRetired`: a retry that finds its own content already stored still marks the predecessors |
| `writer_race` | pass | two writers, the tool, a failing lookup: `LinksDeclared`, `DuplicatesConverge` |
| `writer_race_version` | violation | `VersionNeverDecreases` fails (finding 1) |
| `writer_tool` | violation | `ToolLinksApplied` fails (finding 2) |
| `relay` | pass | a good episode and one whose second chunk is rejected, with a crash, outages, slow ingests, late answers, failing dead-letter publishes: `AckedIsStored`, `LossIsAttributable`, `PoisonNeverNaked`, `MarkerProgressReal`, `ImplementsDelivery` (from which `AckedNotParked` follows), `EventuallyClosed` |
| `relay_selfsup` | violation | `DeterministicNeverNaked` fails (finding 3) |
| `fence` | pass | `NoFalseComfort`, `AckIsBounded`, `SilenceIsLoud` |
| `reindex` | pass | two publish runs, interrupted or complete, a refused backfill, audits, a census, and one edit, foreign write or redelivery: `EveryDocumentOnce`, `NothingVanishes`, `RerunIsIdempotent`, `AuditIsExact`, `LessonsKept` |
| `doors` | pass | settings good and malformed, servers starting and stopping in any order, a store that may not open, calls on every server: `DoorsIsolated`, `ContextIsOpen`, `BlameIsRight`, `StopsTogether` |
| `doors_degraded` | violation | `DegradedIsReported` fails (finding 5) |
| `jobs` | pass | all bodies of up to 7 tokens: `ChunksFollowBody`, `ChunksBounded`, `ChunksLimited`; all lists of up to 3 texts: `OneToOne`, `RequestsBounded`; all rankings of up to 4 results: `NothingFitsLeft`, `RelevanceKept`; racing snapshots and restores with live writes, failures, kills, damage, cuts, rollouts and discards: `FixtureImmutable`, `CorpusExact`, `EveryRowSearchable`, `RolloutsKept`; harvest passes with one failure, a scan limit and episodes arriving meanwhile: `WindowCovered`, `EventuallyHarvested`; nine requests over five records with one concurrent write: `BestMatchesReturned`, `OneState`, `PagesBounded` |
| `assembly_order` | violation | `LowestOmittedFirst` fails (finding 4) |

The type invariants of `Writer`, `Relay` and `Fence` are in no run: section 4 proves them.

### Bounds

* Writer: three keys in two namespaces, a page of one record so that the lookup needs
  several pages, four calls (a predecessor, its successor, and a further write of
  each), at most two failures. Two processes are enough for every read-write race the
  code has, since each races over one record at a time.
* Relay: two deliveries is the least that has both a retry and a last delivery; two
  writes the least that can be cut in the middle; two episodes the least in which one
  message waits while another is handled.
* Fence: ages "within the threshold", "beyond it" and "never" are all the checks tell
  apart; one watched and one unwatched project; acknowledgements of one day and ones
  beyond the limit. The proofs cover all other thresholds.
* Chunker: target 3 and overlap 1 put several sections into a chunk, one over it, and
  leave a rest, within 7 tokens; characters of two tokens are cut and given back by the
  overlap, wider ones are lost, which `ChunksFollowBody` excepts.
* Embed: lengths 0, 4, 5, 8, 9, 13 are the boundaries of the estimate (4 characters a
  token) and of the budget (3 tokens).
* Search: page size and result limit 2 and a scan bound of 3 over five records make
  full results, exhausted partitions and the scan bound all happen; the bound is no
  multiple of the page, so that its last page is a short one.
* Assembly: four results of sizes 0, 1, 3 around budgets 0, 2, 4, in every band.
* Reindex: two runs are the least that can overlap in the stream, two keys the least for
  which the audit uses a snapshot of the dead letters taken for another key. The corpus
  has copies of one task, then an oversized one and two tasks with one id, beside a
  draft and a broken file; a drain of the dead letters may get any part of them; the
  store is empty or already holds lessons (`MaxEvents` = 1 edit, foreign write or
  redelivery).
* Doors: the main server and up to two doors are the least in which one door can reach
  what belongs to another; two projects of which one name begins with the other, one
  factory project; one call in flight at a time beside the lifespans, since calls do not
  read each other's state. The settings also have a port used twice, a project listed
  twice or in two doors, a reserved, an empty and a missing name, and both forms at once.
* Fixture: one record that the cut keeps and one that it removes; one write of each is
  enough for two COPYs to differ, since what matters is whether a row is there; two
  snapshots and two restores to race. Rollout `1_`, whose pattern is like the project of
  rollout `12` and the one of a record of the corpus unless its underscores are escaped,
  and `12.t`, which is no valid id but would name the records of rollout `12`.
* Chronicler: a story over two namespaces and another one, dated and undated; a scan
  limit of 2, which the larger namespace exceeds by one record and the listing by one
  namespace; two seconds tell an earlier, the same and a later second apart; one failed
  pass, after which the window must be covered again.

### Fairness

Safety runs assume none. `writer_single` assumes that a process that runs a call keeps
running it and that a failed call is tried again (JetStream redelivers); giving up is
allowed and excepted in the property, failures are bounded by `MaxFails`. `relay`
assumes that the handler and the pull loop run on, that a crashed relay comes back
(the service is restarted by its supervisor; crashes are bounded), and that JetStream
counts `ack_wait` down. `fence` assumes that time passes, that the timer runs the fence
and that a committed ingest is recorded (the two are not separated by an await);
neither builds, nor operators, nor the relay are assumed to do anything. `doors` assumes
that the event loop runs on: a server that was told to stop leaves its lifespan, the grace
period passes, cancelled tasks and calls end, and `gather` returns. Nothing is assumed to
stop a server in the first place. `jobs` assumes that the timer starts another pass
(the unit is persistent) and that a pass that does not fail gets to its end; failures are
bounded by `MaxFailures`.

Deadlock is checked in `fence`. The other systems may stop: calls, episodes and
inputs are bounded and end.

## 4. Proofs

`tlapm` checks every proof below; nothing is assumed but the named `ASSUME`s of the
modules, which TLC evaluates in each run. Each theorem rests on an inductive invariant that
is stronger than the property, given below with the reason for its parts.

**WriterProofs**, for any keys, namespaces, payloads, number of processes, page size,
and with failing lookups.
`TypeCorrect` needs `WellFormed` = `TypeOK` and `StoreOK` (a record is filed under its
own key) and `ProcOK` (what each process may rely on at each await: the draft belongs
to the payload, the predecessor read is the one about to be written).
`LinksAreDeclared` adds `LinksInFlight`: not only stored records but also drafts and
values read back carry declared links only, without which a stale write-back could
introduce one. `DuplicatesDoConverge` adds `FirstVersions`, the same for the version of
a key with one content.

The next two are about calls that do not overlap: `Serial` says that no two calls run at
once, whichever processes they are of; a failed call may wait for its retry meanwhile, and
with one process it always holds (`SoleWriterVersions`, `SoleWriterLinks`). `SerialVersions`
is the action property `VersionDiscipline`; its invariant `Fresh` says that what the running
call read is still in the store. That hypothesis is necessary: see finding 1.
`SerialLinks` is `DeclaredLinksApplied`, under `~SearchMayFail` as well. Its invariant
`LinkInv` is

* `RecencyOK`: the order of the store by last write is a strict total order of a finite
  namespace, so the places in it are 1, 2, ... without a gap (`PositionIsNumber`), a page
  that is not full is the last one (`ShortPageIsLast`), and a write moves only the record
  written (`TouchKeepsOrder`);
* `TodoOK`: a write that has not reached `apply_supersessions` has every predecessor of
  its payload to visit;
* `LookupOK`: the forward lookup has not gone past a record that declares the one being
  written, and when it is over and there is such a record, the draft has a link;
* `LinksOK`: a stored predecessor that a stored record of its namespace declares has its
  link, or is still to be visited by the write of that record (`Pending`), running or waiting
  for its retry; writes that were given up are excepted.

`LinksAreOwed` states `LinksOK` for itself: it is what the property becomes at every moment
rather than when all calls are done. Both hypotheses are necessary; TLC finds the link
missing with two overlapping writers, and with one writer whose lookup fails, since the
writer takes a failed lookup for an empty one.

**RelayProofs**, for any episodes, defects, outages, `max_deliver`, and number of
crashes. One inductive invariant, `RelayInv`, carries all seven theorems: `HandlerOK`
(the delivery in hand is the latest one, the writes counted are stored), `AnswerOK`
(what each answer rests on before it is given), `StreamOK` (what each final state of a
message rests on), `DlqOK` (an exhausted dead letter belongs to the last delivery, a
poison one to a defect, so neither can still be acknowledged) and `NakOK`.
`AckImpliesStored`, `DeadLettersAreFailures`, `LossesAreAttributable`,
`PoisonIsNeverNaked`, `MarkerIsReal` follow from it. `RelayImplementsDelivery` is the
safety half of the refinement: `DeliveryInit` maps the initial states, and `DeliveryStep`
maps every step that satisfies `RelayInv`, one lemma per kind of step (`WriteIsKeep`,
`ParkIsBury`, `RaiseIsStrike`, `AnswerIsSettle`, `StreamIsDelivery`, `HiddenStep`). For the
late answers `StreamOK` also says that a message counts as exhausted only when its
deliveries are used up, and so that whatever is at hand is not settled yet
(`AtHandIsUnsettled`).

**FenceProofs**, for any projects, builds and thresholds. `FenceInv` adds `MarkerOK`
(an age the marker states, in memory or on disk, is at least the age of the event it
stands for; restarts, lost files and failed writes keep that) and `AckOK` (days in
force and days left add up). From it: `ComfortIsReal` and `AckBounded`.
`SilenceIsReported` is the liveness property `SilenceIsLoud` under `FairSpec`: while a
watched project is silent beyond the threshold and not held, every scheduled run ends in an
alarm, whatever it can and cannot read (`SilenceTrips`, `ScheduledOutcome`), and weak fairness
of `Scheduled` brings about a run as long as the report is another one. The proof system
cannot expand ENABLED, so that a run is enabled when its outcome differs from the present
report (`CanReport`) is the hypothesis `RunIsEnabled`, true by the meaning of ENABLED; TLC has
found the two equivalent in every state of the run `fence`.

**OfflineProofs**, for any rows, dates, projects, rollouts, episodes, scan limit and number
of racing snapshots and restores. `FixtureInv` adds to the three properties what makes them stable:
one snapshot owns the directory (`Owned`), its files are written in the order of `Tables`
and a copy made later is of a later store (`Exported`), a sealed directory has all of its
files and equals its manifest unless it was damaged (`SealedOK`), and a restore that has
verified it still sees that content (`VerifiedOK`). `FixturesAreImmutable` is an action
property; it needs `Owned`, without which a failing snapshot could remove the directory of
another. `RolloutsKeepTheirRecords` and the corpus in `RestoredCorpusIsExact` rest on
`SelectedBegins`, what the escaped operand is like begins with the project and a dot, and
`DiscardIsExact`: no character of a valid id is a dot, so what begins with two such projects
is of one rollout. `ChroniclerInv` adds `PassOK`: at each stage of a pass, every episode due
in its window is harvested already, read, in a namespace or story still to come, or among
those the limit left out. From it `WatermarkPassesNothing` follows at the step that moves
the watermark.

**DoorsProofs**, for any settings, doors, projects and calls. `DoorsInv`: only server 0
opens a pool, the pools and the context are a function of its state (`PoolOK`), a process
that serves has passed the checks of its settings (`BuiltOK`), a call in flight has passed
those of its door (`CallOK`), and what a door saw and changed is within its list
(`HistoryOK`). `DoorsAreIsolated` then rests on well-formed lists being disjoint and on
search results being filtered by project after the store has selected by prefix.
`EndIsClean` is the safety half of `StopsTogether`: when the process has ended, every server
has stopped, no pool is open, the context is empty and no call is in flight.

**ReindexProofs**, for any checkout, store, number of runs, edits and foreign writes.
`TallyOK` says that a run's three lists and what it has still to do partition the walked
documents, which gives `ReportsAddUp`; `WindowOK`, that a message id in JetStream's window
belongs to an episode that is accounted for, without which a publish dropped as a duplicate
could vanish; `SettlingOK`, that without edits and foreign writes a record, the messages in
flight and what the checkout would publish agree on its content, hence `RerunsConverge`;
`LessonsOK`, that no message without lessons is on its way to a record that has some and was
not raced, hence the action property `LessonsSurvive`; `AuditOK`, that what was stored when
an audit began stays so, and that it asks for the dead letters once, before it has found
anything missing.

**IngestProofs.** For `Embed`, over any list of texts: the batches, the current one and the
rest are a partition of the inputs into consecutive stretches (`Consecutive`), each within
the budget (`BudgetOK`), and the log of requests ends in what the retry flag says (`LogOK`).
For `Chunker`, over any body, target and overlap: everything before the cursor has been told
or is in the chunk at hand, and nothing after it (`SectionOK`); inside a large section the
same holds up to the last position written, less a character that is cut there (`SplitOK`),
which the overlap gives back when it is not wider than that (`Narrow`). From these and the
bounds on the chunk at hand, `ChunksTellTheBody` and `ChunksAreBounded`. `ChunksAreLimited`
counts the chunks against the tokens passed; it holds for an overlap below the target only,
see the deviation about `overlap_ratio` below.

**RetrievalProofs.** For `Assembly`, over any results: what is placed, and what waits in
each of the two queues, is increasing in rank, and the composition holds each at most once
(`CompositionInv`); every result passed so far is included, empty or too large, and since the
block only grows, it stays too large (`PackingInv`). For `Search`, over any store, request,
page size, result limit, scan bound and writes between the pages, `SearchInv` says:

* the offset is a number of whole pages below the scan bound (`Paged`), hence
  `ScansAreBounded`;
* the partitions left do not overlap (`PartsOK`), and the items read so far are of different
  records, those of the partition at hand and of the ones done with apart (`ReadOK`);
* a score that was read is the present score of a record nobody wrote since (`Current`);
* a settled match of the partition at hand has been accepted, or its place in the ranking is
  still beyond the offset and everything accepted ranks before it (`Tracked`); one of a
  partition done with was gathered or is beaten by enough gathered items (`ScanOK`).

A write keeps `Tracked` because a record that does not sink can only push others down
(`WriteStep`); a page keeps it because the window of `2 * limit + 1` with
`limit = offset + size` never hides the end of the page (`PageFacts`); and the merge keeps
it because an item beaten by `ResultLimit` others sorts after them (`MergeFacts`).

No proof needs an induction over data. Where a definition counts (places in a ranking, the
sorted order, the items picked by a filter, the pages of a lookup), a numbering of a finite
set that repeats no number uses all of them, by the pigeonhole theorem (`NumberingIsOnto`,
`OrderNumbers`); where a list is walked, the loop itself is the induction; and where a sum
is recursive, `IngestProofs` takes a least counterexample.

Only model-checked: the liveness properties whose progress takes an unknown number of steps
(failures before a call succeeds, deliveries of a message, servers that stop, stories of a
pass), which would need an induction inside a temporal formula. The safety half of each is
proved:

| property | proved half |
|---|---|
| `EventuallyRetired` | `LinksAreOwed`: a missing link is owed by a call that is not done |
| `EventuallyClosed` | `RelayImplementsDelivery`: every step is one of `Delivery` or hidden |
| `StopsTogether` | `EndIsClean`: when the process has ended, nothing is left open |
| `EventuallyHarvested` | `WatermarkPassesNothing`: no pass moves beyond a due episode |

## 5. Findings

1. `writer_race_version`. `write` reads the record, awaits the forward lookup, and puts a
   draft made from that reading without looking again (`writer/core.py:96`). In the trace
   one process reads no record, the other stores versions 1 and 2, and the first then puts
   its version 1, although the feature file calls the version "a monotonic integer". The
   write-back of a predecessor in `apply_supersessions` (`writer/supersession.py:85`) undoes
   a write in between in the same way.
2. `writer_tool`. `memory_supersede` says that declaring against a predecessor that is
   not written yet "takes effect once the predecessor is written". The tool stores
   nothing about such a predecessor, and the forward lookup reads the `supersedes`
   lists of records only.
3. `relay_selfsup`. `SupersessionValidationError` is a `ValueError` named by no poison
   clause, so a payload that supersedes itself fails on every delivery, and is retried
   until its deliveries are used up, against "Deterministic failures →
   PoisonEpisodeError (DLQ)".
4. `assembly_order`. `assemble_context` skips a result that does not fit and still tries
   lower-ranked ones (`retrieval/assembly.py:145`), as a comment there explains and
   `NothingFitsLeft` checks. Its docstring (`assembly.py:75`), the feature file
   (`retrieval-api.feature:122`) and a test (`test_assembly.py:246`) still say that the
   lowest-ranked results are the ones omitted: with ranked sizes 3 and 1 and a budget of 2
   it is the highest-ranked one.
5. `doors_degraded`. A main server that could not open the store serves without it. The
   searches then raise `ValueError` (`mcp/tools/search.py:182`), which `degradation.py`
   reports as the client's mistake, against "tools return structured infrastructure errors"
   (`mcp/server.py:101`) and `memory-mcp-server.feature:200`. `BlameIsRight` excepts it.

Further deviations met while modelling, which explain the conditions in the properties:

* With two writers, a predecessor may look for its successor before the successor is
  put and be put after the successor has looked for it; then neither sets the link.
  `DeclaredLinksApplied` is therefore required of calls that do not overlap.
* The forward lookup reads the namespace of the record being written only, so a
  predecessor of another namespace that is written after its successor stays current;
  hence the namespace condition in `DeclaredLinksApplied` and `EventuallyRetired`.
* A relay that dies, or outlasts `ack_wait`, during the final delivery leaves the
  episode neither stored nor dead-lettered: the exception `cut` in
  `LossIsAttributable`. `handler.py:212` says "never silently dropped".
* Chunks are put one by one, so an episode dead-lettered at a later chunk leaves its
  earlier ones; `src/features/relay-integration/relay-integration.feature:285` says a
  partial failure leaves no incomplete set.
* After a failed marker write the old file stays and the fence reads it; it does not
  report BLIND as `fence/marker.py:214` says. `NoFalseComfort` holds all the same.
* A relay restarted within every grace period keeps the relay check at
  `RELAY_RESTART_GRACE`; only the store checks (`SilenceIsLoud`) still report it.
* With `overlap_ratio = 1.0`, which `settings.py:287` admits, the splitting loop does
  not advance and never ends; `ChunksLimited` requires an overlap below the target.
* A character whose tokens a chunk boundary cuts is U+FFFD in both chunks. The overlap
  gives it back as a whole unless the character takes more tokens than the overlap and one,
  as with `overlap_ratio = 0`; then it is lost, although
  `src/features/relay-integration/relay-integration.feature:302` asks for the text
  byte-for-byte. This is `Narrow` in `ChunksFollowBody`; the default overlap is 150 tokens.
* `compose_by_complexity` cuts each category to its share of the results and so drops
  results, although it "only shapes the input ordering" (`composition.py:191`).
* A publish run that fails before `reindex_corpus` returns writes no report, though
  `reindex/__main__.py:4` says "report always written"; the next audit reads the report
  of an earlier run, or of a census, which has the same default path and counts every
  winner as published.
* Backfill episodes are in no list of the report, so the audit does not cover them; they
  are published without `_preserve_existing_lessons`, hence `OfCorpus` in the properties;
  and unreviewed files are counted in "Backfill published".
* The audit asks whether a key is stored. A changed document that JetStream dropped as a
  duplicate, or whose episode was lost, passes the audit on its older record.
* Lessons stored after `_preserve_existing_lessons` has read the record, and before its
  episode is ingested, are overwritten with nothing: the exception in `LessonsKept`.
* The drain of the dead letters ends after two seconds without one
  (`reindex/dlq_client.py:121`); from a slow broker the audit then lists a dead-lettered
  key as missing. `AuditIsExact` speaks of the letters the drain has read.
* An `EmbedRequestError` is retryable infrastructure in `memory_write_payload` and the
  client's in `memory_publish_envelope`. An `EmbedDimensionError` is the client's in both,
  which can do nothing about it: the configured dimension does not fit the model.
* "A stopped server never leaves tools holding a closed pool" (`mcp/server.py:126`) is true
  of the calls that come later; a call in flight keeps the store it read, whose pool is
  closed under it.
* The port of a single narrow door is not compared with the main port. A main server that
  could not open the store never tries again.
* The tables of a snapshot are copied by one statement each, so a write in between tears
  them: a vector without its row is refused by the restore, an older row with a newer
  vector is restored without notice; neither is a state the store was ever in, and the
  reproducibility that `fixture/snapshot.py:10` asks for does not reveal it. The row counts
  of the manifest come from later statements still.
  `default_transaction_read_only` takes effect from the next transaction on.
* The restore reads the files again after it has verified their hash: the exception in
  `CorpusExact` and `EveryRowSearchable`. A killed snapshot blocks its fixture id for good. A cut that runs during a
  rollout removes the rollout's records.
* A pass overwrites the card of a story with the episodes of its own window, so a story
  that had a confidential part may become public once a later window has none
  (`chronicler/harvest.py:292`); two stories with one slug overwrite each other.
* An episode that reaches the store after a pass was started for a time later than its
  `occurred_at` is never harvested, and neither is one of the very second in which a pass
  starts, since `...:05+00:00` sorts before `...:05Z`; the script says that "the missed
  window is re-covered". This is `late` in `WindowCovered`. A record without a date that is
  written again keeps its `created_at` and is not harvested again.
* A namespace with more records than the scan limit, or a store with more namespaces, is
  cut (`chronicler/store_source.py:71-79`) while the watermark advances, and what was cut
  off is not harvested: the exception `crowded` in `WindowCovered` and
  `EventuallyHarvested`.
* A record that loses rank between two pages of a search
  moves another one across the boundary, which is then never read: the exception `sank` in
  `BestMatchesReturned`.

## 6. Not modelled

* Wording and files of the fence's reports, malformed or clock-skewed receipts.
* URL normalisation, error-body parsing and the test fake of the embedding client.
* The wording of front matter and lessons sections, the manifest's validation and the
  probe-set report of the reindex; that carried-over lessons may push a body over the
  size limit.
* The Host header guard and the stdio transport of the MCP server, upper-case project
  names, and the wording that error messages are reduced to.
* Row counts, dry runs and listings of the fixture tooling, which change nothing, and an
  interrupt between the writing of the manifest and the return.
* The text of dataset rows and story cards, and with it the confidentiality of a card,
  which within one pass is a definition, and cards that overwrite each other.
* A message whose envelope does not parse: FastStream fails it before the body of
  `handle_memory_episode`, so none of the answers in `Relay` is given and what happens to it
  is the framework's decision alone. `Deliver` hands over parsed episodes only.
* Role scope (a pure filter of a request) and the probe harness (an evaluation that only
  reads).
* Payload definitions and string validation (`payloads/`) and most of `settings.py`: they
  declare fields and check their form; what they guarantee is stated as assumptions and
  constants.
* Records of equal score. `retrieval/core.py:308` and `retrieval-api.feature:219` promise
  an order by natural key among them, which the merge gives; but the order in which one
  query returns them, and so which of them a page holds, is Postgres's, and `Search` has
  distinct scores only.
* An embedding server that answers out of order, and chunks of white space only. Nothing in
  the repository says what is to happen then.
* An older episode redelivered over newer content, and an episode ingested again with
  fewer chunks, whose old tail stays: the writer keeps no order of episodes, and no document
  promises more than that the last one to be ingested wins.

## 7. Plan

1. The external relay of `Reindex` shown to be an abstraction of `Relay`: `Reindex`
   publishes one id again after a change, while `Delivery` settles each message once, so
   `Delivery` has to tell the publications of an id apart first.
2. `Relay` composed with `Writer`.
3. Ties between scores as a constant of `Search`.
