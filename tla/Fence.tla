-------------------------------- MODULE Fence --------------------------------
(***************************************************************************)
(* The liveness fence (fence/) and the relay's progress marker it reads.   *)
(*                                                                         *)
(* Time passes in ticks; every timestamp of the code is kept as its age,   *)
(* counted up to Far, beyond every threshold.  Never is the age of what    *)
(* does not exist.  The fence is run by a timer and by hand, at any        *)
(* moment; each run reads the store, the build receipts, the marker and    *)
(* the acknowledgement file and leaves a verdict.                          *)
(***************************************************************************)
EXTENDS Integers, FiniteSets

CONSTANTS
  Projects,     \* projects with rows in the store
  Watch,        \* fence_watch_projects
  Builds,       \* build receipts (one out of the window may be reused)
  StoreMaxAge,  \* fence_store_max_age_hours
  BuildWindow,  \* fence_build_window_hours
  MinBuilds,    \* fence_min_builds_in_window
  Grace,        \* fence_relay_restart_grace_minutes
  AckMaxDays,   \* _ACK_MAX_DAYS
  Spans,        \* how many days ahead operators set 'until'
  Lists,        \* the lists of checks they acknowledge
  Far           \* bound: the oldest age told apart

CheckNames == {"relay_idle", "store_age"} \cup Watch

ASSUME FenceAssumption ==
  /\ Watch \subseteq Projects
  /\ "relay_idle" \notin Projects /\ "store_age" \notin Projects
  /\ StoreMaxAge \in Nat /\ BuildWindow \in Nat /\ MinBuilds \in Nat /\ Grace \in Nat
  /\ AckMaxDays \in Nat /\ Spans \subseteq Nat /\ Lists \subseteq SUBSET CheckNames
  /\ Far \in Nat /\ Far > StoreMaxAge /\ Far > BuildWindow /\ Far >= Grace

Never == Far + 1
Ages == 0 .. Never
Older(a) == IF a >= Far THEN a ELSE a + 1

VARIABLES
  rows,     \* age of the newest row of each project
  finished, \* age of each build receipt
  up,       \* whether the relay runs
  pending,  \* whether it has committed an ingest and not yet recorded it
  mem,      \* RelayMarker: ages of started_at and last_ingest_at
  file,     \* the marker file: readable, and the same two
  ack,      \* the acknowledgement file: present, days to 'until', checks
  report,   \* the last run: its verdict, and what it said of the relay
  commit,   \* history: age of the relay's latest committed ingest
  started,  \* history: age of its latest start
  held      \* history: days the present acknowledgement has been in force

vars == <<rows, finished, up, pending, mem, file, ack, report, commit, started, held>>
worldVars == <<rows, finished>>
relayVars == <<up, pending, mem, file, commit, started>>
fenceVars == <<ack, report, held>>

Down == [start |-> Never, ingest |-> Never]
NoAck == [present |-> FALSE, left |-> 0, checks |-> {}]

Init ==
  /\ rows = [p \in Projects |-> Never]
  /\ finished = [b \in Builds |-> Never]
  /\ up = FALSE /\ pending = FALSE /\ mem = Down
  /\ file = [ok |-> FALSE, start |-> Never, ingest |-> Never]
  /\ ack = NoAck
  /\ report = [status |-> "none", relay |-> "none"]
  /\ commit = Never /\ started = Never /\ held = 0

-----------------------------------------------------------------------------
(***************************************************************************)
(* RelayMarker.                                                            *)
(***************************************************************************)

\* _write: the file is replaced, or the failure is swallowed and the old one stays.
Write(m) == file' \in {file, [ok |-> TRUE, start |-> m.start, ingest |-> m.ingest]}

\* record_start, in the lifespan: the ingest time of the previous process is kept
\* when its file can be read.
Start ==
  /\ ~up /\ up' = TRUE
  /\ mem' = [start |-> 0, ingest |-> IF file.ok THEN file.ingest ELSE Never]
  /\ Write(mem')
  /\ started' = 0
  /\ UNCHANGED <<worldVars, pending, commit, fenceVars>>

\* An ingest returns.  A no-op write and an empty body leave no row behind.
Commit(p) ==
  /\ up /\ ~pending /\ pending' = TRUE
  /\ commit' = 0
  /\ rows' \in {rows, [rows EXCEPT ![p] = 0]}
  /\ UNCHANGED <<finished, up, mem, file, started, fenceVars>>

\* record_ingest
RecordIngest ==
  /\ pending /\ pending' = FALSE
  /\ mem' = [mem EXCEPT !.ingest = 0]
  /\ Write(mem')
  /\ UNCHANGED <<worldVars, up, commit, started, fenceVars>>

\* Mutant: any message counts as progress.
RecordAnyMessage ==
  /\ up /\ ~pending
  /\ mem' = [mem EXCEPT !.ingest = 0]
  /\ Write(mem')
  /\ UNCHANGED <<worldVars, up, pending, commit, started, fenceVars>>

\* record_message: a message that did not become an ingest.
RecordMessage ==
  /\ up /\ ~pending
  /\ Write(mem)
  /\ UNCHANGED <<worldVars, up, pending, mem, commit, started, fenceVars>>

Die ==
  /\ up /\ up' = FALSE /\ pending' = FALSE /\ mem' = Down
  /\ UNCHANGED <<worldVars, file, commit, started, fenceVars>>

\* The file is removed, truncated, or its directory is not mounted.
LoseMarker ==
  /\ file.ok
  /\ file' = [ok |-> FALSE, start |-> Never, ingest |-> Never]
  /\ UNCHANGED <<worldVars, up, pending, mem, commit, started, fenceVars>>

-----------------------------------------------------------------------------
(***************************************************************************)
(* The rest of the world: other writers of the store, builds, time.        *)
(***************************************************************************)
OtherWrite(p) ==
  /\ rows' = [rows EXCEPT ![p] = 0]
  /\ UNCHANGED <<finished, relayVars, fenceVars>>

FinishBuild(b) ==
  /\ finished[b] > BuildWindow
  /\ finished' = [finished EXCEPT ![b] = 0]
  /\ UNCHANGED <<rows, relayVars, fenceVars>>

\* Mutant: 'until' may be any date.
ActiveUnbounded == ack.present /\ ack.left >= 0

\* read_ack: in force unless 'until' is too far away or over.
Active == ack.present /\ ack.left <= AckMaxDays /\ ack.left >= 0

\* A committed ingest is recorded without an await in between, so no tick passes.
Tick ==
  /\ ~pending
  /\ rows' = [p \in Projects |-> Older(rows[p])]
  /\ finished' = [b \in Builds |-> Older(finished[b])]
  /\ mem' = [start |-> Older(mem.start), ingest |-> Older(mem.ingest)]
  /\ file' = [file EXCEPT !.start = Older(@), !.ingest = Older(@)]
  /\ commit' = Older(commit) /\ started' = Older(started)
  /\ ack' = [ack EXCEPT !.left = IF @ < 0 THEN @ ELSE @ - 1]
  /\ held' = IF Active THEN held + 1 ELSE held
  /\ UNCHANGED <<up, pending, report>>

PutAck(n, checks) ==
  /\ ack' = [present |-> TRUE, left |-> n, checks |-> checks]
  /\ held' = 0
  /\ UNCHANGED <<worldVars, relayVars, report>>

RemoveAck ==
  /\ ack.present
  /\ ack' = NoAck /\ held' = 0
  /\ UNCHANGED <<worldVars, relayVars, report>>

-----------------------------------------------------------------------------
(***************************************************************************)
(* The checks (check.py).  reachable: read_store_facts could query the     *)
(* store; readable: scan_builds could list the receipts.                   *)
(***************************************************************************)
Newer(ps, age) == \E p \in ps : rows[p] <= age

Freshness(name, ps) ==
  [name |-> name,
   reason |-> IF Newer(ps, StoreMaxAge) THEN "OK"
              ELSE IF Newer(ps, Far) THEN "STORE_STALE" ELSE "STORE_EMPTY"]

\* Mutant: the newest row of any project stands for all of them.
StoreChecksPooled(reachable) ==
  IF ~reachable THEN {[name |-> "store_age", reason |-> "STORE_UNREACHABLE"]}
  ELSE {Freshness("store_age", Projects)}

StoreChecks(reachable) ==
  IF ~reachable THEN {[name |-> "store_age", reason |-> "STORE_UNREACHABLE"]}
  ELSE {Freshness("store_age", Projects)}
         \cup (IF Newer(Projects, Far) THEN {Freshness(p, {p}) : p \in Watch} ELSE {})

Busy == Cardinality({b \in Builds : finished[b] <= BuildWindow}) >= MinBuilds

\* No evidence of work within the build window: neither the marker nor, when the
\* store was read, a row of a watched project.
Quiet(reachable) ==
  file.ingest > BuildWindow /\ ~(reachable /\ Newer(Watch, BuildWindow))

RelayReason(reachable, readable) ==
  IF ~file.ok \/ ~readable THEN "BLIND"
  ELSE IF ~(Busy /\ Quiet(reachable)) THEN "OK"
  ELSE IF file.start < Grace THEN "RELAY_RESTART_GRACE" ELSE "RELAY_IDLE"

RelayCheck(reachable, readable) ==
  [name |-> "relay_idle", reason |-> RelayReason(reachable, readable)]

Tripped(c) == c.reason \notin {"OK", "RELAY_RESTART_GRACE"}

\* _apply_ack and the overall status of evaluate.
Held(name) == Active /\ name \in ack.checks
Verdict(checks) ==
  IF \E c \in checks : Tripped(c) /\ ~Held(c.name) THEN "alarm" ELSE "ok"

\* One run: both checks, --store-only or --relay-only (which does not read the store).
RunFence(scope, reachable, readable) ==
  LET sees == scope # "relay" /\ reachable
      store == IF scope = "relay" THEN {} ELSE StoreChecks(reachable)
      relay == IF scope = "store" THEN {} ELSE {RelayCheck(sees, readable)}
  IN
  /\ report' = [status |-> Verdict(store \cup relay),
                relay |-> IF scope = "store" THEN "none" ELSE RelayReason(sees, readable)]
  /\ UNCHANGED <<worldVars, relayVars, ack, held>>

Scheduled == \E reachable, readable \in BOOLEAN : RunFence("both", reachable, readable)
ByHand ==
  \E scope \in {"store", "relay"}, reachable, readable \in BOOLEAN :
    RunFence(scope, reachable, readable)

Next ==
  \/ Start \/ RecordIngest \/ RecordMessage \/ Die \/ LoseMarker
  \/ Tick \/ RemoveAck \/ Scheduled \/ ByHand
  \/ \E p \in Projects : Commit(p) \/ OtherWrite(p)
  \/ \E b \in Builds : FinishBuild(b)
  \/ \E n \in Spans, checks \in Lists : PutAck(n, checks)

Spec == Init /\ [][Next]_vars

\* Fairness: time passes, the timer keeps running the fence, and an ingest that was
\* committed is recorded.  Nothing obliges the relay, the builds or the operators.
FairSpec == Spec /\ WF_vars(Tick) /\ WF_vars(Scheduled) /\ WF_vars(RecordIngest)

-----------------------------------------------------------------------------
(***************************************************************************)
(* Properties.                                                             *)
(***************************************************************************)
Reasons == {"none", "OK", "BLIND", "RELAY_IDLE", "RELAY_RESTART_GRACE"}

\* Type invariant; a relay that is down holds nothing.
TypeOK ==
  /\ rows \in [Projects -> Ages] /\ finished \in [Builds -> Ages]
  /\ up \in BOOLEAN /\ pending \in BOOLEAN
  /\ mem \in [start : Ages, ingest : Ages]
  /\ file \in [ok : BOOLEAN, start : Ages, ingest : Ages]
  /\ ack \in [present : BOOLEAN, left : Int, checks : SUBSET CheckNames]
  /\ report \in [status : {"none", "ok", "alarm"}, relay : Reasons]
  /\ commit \in Ages /\ started \in Ages
  /\ held \in Nat
  /\ ~up => mem = Down /\ ~pending

\* No false comfort from the marker: whenever the relay check would pass while enough
\* builds finished, the relay really committed an ingest within the window, or a
\* watched project really got a row in it, or the relay really started within the
\* grace period; whatever restarts, lost files and failed marker writes came before.
NoFalseComfort ==
  \A reachable, readable \in BOOLEAN :
    Busy /\ RelayReason(reachable, readable) \in {"OK", "RELAY_RESTART_GRACE"}
      => commit <= BuildWindow \/ Newer(Watch, BuildWindow) \/ started < Grace

\* ack.py, "cannot become a mute button": one acknowledgement file, left alone, is in
\* force on at most the 14 days ahead of a day and that day, however far away its
\* 'until' was when it was written.
AckIsBounded == held <= AckMaxDays + 1

\* A watched project that memory has stopped learning about is always reported again:
\* rows of other projects, a relay that restarts for ever and manual runs cannot hide
\* it; only an acknowledgement of that very check can hold it.
SilenceIsLoud ==
  \A p \in Watch :
    <>[](rows[p] > StoreMaxAge) /\ <>[]~(Held(p) \/ Held("store_age"))
      => []<>(report.status = "alarm")

=============================================================================
