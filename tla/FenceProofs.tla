---------------------------- MODULE FenceProofs ----------------------------
(***************************************************************************)
(* Proofs about Fence, for all projects, thresholds and operators.         *)
(***************************************************************************)
EXTENDS Fence, TLAPS

\* The marker never runs ahead of the truth, in memory or on disk: an age it states
\* is at least the age of the event it stands for.
MarkerOK ==
  /\ mem.ingest >= commit /\ mem.start >= started
  /\ file.ingest >= commit /\ file.start >= started
  /\ pending => commit = 0

\* The days an acknowledgement has been in force and the days left add up to its
\* limit; one that is still too far away has not been in force at all.
AckOK ==
  /\ ack.left >= -1
  /\ IF ack.left > AckMaxDays THEN held = 0
     ELSE ack.present => held <= AckMaxDays - ack.left
  /\ ~ack.present => held = 0

FenceInv == TypeOK /\ MarkerOK /\ AckOK

-----------------------------------------------------------------------------
LEMMA AgeFacts ==
  /\ Never \in Ages /\ 0 \in Ages
  /\ \A a \in Ages : a \in Nat /\ a <= Never /\ Older(a) \in Ages
  /\ \A a, b \in Ages : a >= b => Older(a) >= Older(b)
  BY FenceAssumption DEF Never, Ages, Older

LEMMA InitInv == Init => FenceInv
  <1> SUFFICES ASSUME Init PROVE FenceInv
    OBVIOUS
  <1>1. /\ rows \in [Projects -> Ages] /\ finished \in [Builds -> Ages]
        /\ mem \in [start : Ages, ingest : Ages] /\ commit \in Ages /\ started \in Ages
    BY AgeFacts DEF Init, Down
  <1>2. file \in [ok : BOOLEAN, start : Ages, ingest : Ages]
    BY AgeFacts DEF Init
  <1>3. ack \in [present : BOOLEAN, left : Int, checks : SUBSET CheckNames]
    BY DEF Init, NoAck
  <1>4. report \in [status : {"none", "ok", "alarm"}, relay : Reasons] /\ held \in Nat
    BY DEF Init, Reasons
  <1>5. up \in BOOLEAN /\ pending \in BOOLEAN
    BY DEF Init
  <1>6. TypeOK
    BY <1>1, <1>2, <1>3, <1>4, <1>5 DEF Init, TypeOK
  <1>7. MarkerOK
    BY AgeFacts DEF Init, MarkerOK, Down
  <1>8. AckOK
    BY FenceAssumption DEF Init, AckOK, NoAck
  <1>9. QED
    BY <1>6, <1>7, <1>8 DEF FenceInv

\* The relay's steps.
LEMMA RelayStep ==
  ASSUME FenceInv,
         Start \/ RecordIngest \/ RecordMessage \/ Die \/ LoseMarker
           \/ \E p \in Projects : Commit(p)
  PROVE  FenceInv'
  <1> USE DEF FenceInv
  <1>0. AckOK'
    BY DEF Start, RecordIngest, RecordMessage, Die, LoseMarker, Commit, fenceVars, AckOK
  <1>w. ASSUME NEW m \in [start : Ages, ingest : Ages], Write(m)
        PROVE  /\ file' \in [ok : BOOLEAN, start : Ages, ingest : Ages]
               /\ \/ file' = file
                  \/ file'.ingest = m.ingest /\ file'.start = m.start
    <2>1. CASE file' = file
      BY <2>1 DEF TypeOK
    <2>2. CASE file' = [ok |-> TRUE, start |-> m.start, ingest |-> m.ingest]
      <3>1. m.start \in Ages /\ m.ingest \in Ages
        OBVIOUS
      <3>2. file' \in [ok : BOOLEAN, start : Ages, ingest : Ages]
        BY <2>2, <3>1
      <3>3. QED
        BY <2>2, <3>2
    <2>3. QED
      BY <1>w, <2>1, <2>2 DEF Write
  <1>1. CASE Start
    <2>1. mem' \in [start : Ages, ingest : Ages]
          /\ mem'.start = 0 /\ mem'.ingest \in {file.ingest, Never}
      BY <1>1, AgeFacts DEF Start, TypeOK
    <2>2. Write(mem') /\ started' = 0 /\ up' = TRUE
          /\ UNCHANGED <<rows, finished, pending, commit, ack, report, held>>
      BY <1>1 DEF Start, worldVars, fenceVars
    <2>3. TypeOK'
      BY <1>w, <2>1, <2>2, AgeFacts DEF TypeOK
    <2>4. MarkerOK'
      BY <1>w, <2>1, <2>2, AgeFacts DEF TypeOK, MarkerOK
    <2>5. QED
      BY <1>0, <2>3, <2>4
  <1>2. CASE RecordIngest
    <2>1. mem' = [mem EXCEPT !.ingest = 0] /\ mem' \in [start : Ages, ingest : Ages]
          /\ mem'.start = mem.start /\ mem'.ingest = 0
      BY <1>2, AgeFacts DEF RecordIngest, TypeOK
    <2>2. Write(mem') /\ pending /\ pending' = FALSE
          /\ UNCHANGED <<rows, finished, up, commit, started, ack, report, held>>
      BY <1>2 DEF RecordIngest, worldVars, fenceVars
    <2>3. up
      BY <2>2 DEF TypeOK
    <2>4. TypeOK'
      BY <1>w, <2>1, <2>2, <2>3, AgeFacts DEF TypeOK
    <2>5. MarkerOK'
      BY <1>w, <2>1, <2>2, AgeFacts, SMTT(30) DEF TypeOK, MarkerOK
    <2>6. QED
      BY <1>0, <2>4, <2>5
  <1>3. CASE RecordMessage
    <2>1. Write(mem) /\ UNCHANGED <<rows, finished, up, pending, mem, commit, started, ack,
                                    report, held>>
      BY <1>3 DEF RecordMessage, worldVars, fenceVars
    <2>2. TypeOK'
      BY <1>w, <2>1 DEF TypeOK
    <2>3. MarkerOK'
      BY <1>w, <2>1 DEF TypeOK, MarkerOK
    <2>4. QED
      BY <1>0, <2>2, <2>3
  <1>4. CASE Die
    <2>1. TypeOK'
      BY <1>4, AgeFacts DEF Die, TypeOK, Down, worldVars, fenceVars
    <2>2. MarkerOK'
      BY <1>4, AgeFacts DEF Die, TypeOK, MarkerOK, Down
    <2>3. QED
      BY <1>0, <2>1, <2>2
  <1>5. CASE LoseMarker
    <2>1. TypeOK'
      BY <1>5, AgeFacts DEF LoseMarker, TypeOK, worldVars, fenceVars
    <2>2. MarkerOK'
      BY <1>5, AgeFacts DEF LoseMarker, TypeOK, MarkerOK
    <2>3. QED
      BY <1>0, <2>1, <2>2
  <1>6. ASSUME NEW p \in Projects, Commit(p) PROVE FenceInv'
    <2>1. TypeOK'
      BY <1>6, AgeFacts DEF Commit, TypeOK, fenceVars
    <2>2. MarkerOK'
      BY <1>6, AgeFacts DEF Commit, TypeOK, MarkerOK
    <2>3. QED
      BY <1>0, <2>1, <2>2
  <1>7. QED
    BY <1>1, <1>2, <1>3, <1>4, <1>5, <1>6

\* A tick ages everything at once and so keeps every order of ages.
LEMMA TickStep ==
  ASSUME FenceInv, Tick
  PROVE  FenceInv'
  <1> USE DEF FenceInv
  <1>1. mem' \in [start : Ages, ingest : Ages]
        /\ mem'.start = Older(mem.start) /\ mem'.ingest = Older(mem.ingest)
    BY AgeFacts DEF Tick, TypeOK
  <1>2. file' \in [ok : BOOLEAN, start : Ages, ingest : Ages]
        /\ file'.start = Older(file.start) /\ file'.ingest = Older(file.ingest)
    BY AgeFacts DEF Tick, TypeOK
  <1>3. MarkerOK'
    BY <1>1, <1>2, AgeFacts DEF Tick, TypeOK, MarkerOK
  <1>4. /\ ack' \in [present : BOOLEAN, left : Int, checks : SUBSET CheckNames]
        /\ ack'.present = ack.present
        /\ ack'.left = IF ack.left < 0 THEN ack.left ELSE ack.left - 1
    BY DEF Tick, TypeOK
  <1>5. held' \in Nat /\ held' = IF Active THEN held + 1 ELSE held
    BY DEF Tick, TypeOK
  <1>6. AckOK'
    BY <1>4, <1>5, FenceAssumption DEF AckOK, Active, TypeOK
  <1>7. ~up => mem' = Down
    BY AgeFacts, FenceAssumption DEF Tick, TypeOK, Down, Older, Never
  <1>8. rows' \in [Projects -> Ages] /\ finished' \in [Builds -> Ages]
    BY AgeFacts DEF Tick, TypeOK
  <1>9. TypeOK'
    BY <1>1, <1>2, <1>4, <1>5, <1>7, <1>8, AgeFacts DEF Tick, TypeOK
  <1>10. QED
    BY <1>3, <1>6, <1>9

\* The steps that leave the relay and the clock alone.
LEMMA OtherStep ==
  ASSUME FenceInv,
         \/ \E p \in Projects : OtherWrite(p)
         \/ \E b \in Builds : FinishBuild(b)
         \/ \E n \in Spans, checks \in Lists : PutAck(n, checks)
         \/ RemoveAck \/ Scheduled \/ ByHand
  PROVE  FenceInv'
  <1> USE DEF FenceInv
  <1>0. MarkerOK' /\ UNCHANGED relayVars
    <2>1. UNCHANGED relayVars
      BY DEF OtherWrite, FinishBuild, PutAck, RemoveAck, Scheduled, ByHand, RunFence
    <2>2. QED
      BY <2>1 DEF relayVars, MarkerOK
  <1>1. CASE \E p \in Projects : OtherWrite(p)
    BY <1>0, <1>1, AgeFacts DEF OtherWrite, fenceVars, relayVars, TypeOK, AckOK
  <1>2. CASE \E b \in Builds : FinishBuild(b)
    BY <1>0, <1>2, AgeFacts DEF FinishBuild, fenceVars, relayVars, TypeOK, AckOK
  <1>3. ASSUME NEW n \in Spans, NEW checks \in Lists, PutAck(n, checks) PROVE FenceInv'
    <2>1. /\ ack' = [present |-> TRUE, left |-> n, checks |-> checks] /\ held' = 0
          /\ n \in Nat /\ checks \in SUBSET CheckNames
      BY <1>3, FenceAssumption DEF PutAck
    <2>2. AckOK'
      BY <2>1, FenceAssumption DEF AckOK
    <2>3. TypeOK'
      BY <1>0, <1>3, <2>1 DEF PutAck, worldVars, relayVars, TypeOK
    <2>4. QED
      BY <1>0, <2>2, <2>3
  <1>4. CASE RemoveAck
    <2>1. AckOK'
      BY <1>4, FenceAssumption DEF RemoveAck, NoAck, AckOK
    <2>2. TypeOK'
      BY <1>0, <1>4 DEF RemoveAck, NoAck, worldVars, relayVars, TypeOK
    <2>3. QED
      BY <1>0, <2>1, <2>2
  <1>5. ASSUME NEW scope \in {"both", "store", "relay"}, NEW reachable \in BOOLEAN,
               NEW readable \in BOOLEAN, RunFence(scope, reachable, readable)
        PROVE  FenceInv'
    <2>1. report' \in [status : {"none", "ok", "alarm"}, relay : Reasons]
      BY <1>5 DEF RunFence, Verdict, RelayReason, Reasons
    <2>2. AckOK' /\ TypeOK'
      BY <1>0, <1>5, <2>1 DEF RunFence, worldVars, relayVars, TypeOK, AckOK
    <2>3. QED
      BY <1>0, <2>2
  <1>6. CASE Scheduled \/ ByHand
    BY <1>5, <1>6 DEF Scheduled, ByHand
  <1>7. QED
    BY <1>1, <1>2, <1>3, <1>4, <1>6

LEMMA InvHolds == Spec => []FenceInv
  <1>1. FenceInv /\ UNCHANGED vars => FenceInv'
    BY DEF vars, FenceInv, TypeOK, MarkerOK, AckOK
  <1>2. FenceInv /\ [Next]_vars => FenceInv'
    BY <1>1, RelayStep, TickStep, OtherStep DEF Next
  <1>3. QED
    BY <1>2, InitInv, PTL DEF Spec

-----------------------------------------------------------------------------
\* Type correctness.
THEOREM TypeCorrect == Spec => []TypeOK
  BY InvHolds, PTL DEF FenceInv

\* The marker cannot make the relay check pass without real work or a real restart.
THEOREM ComfortIsReal == Spec => []NoFalseComfort
  <1>1. FenceInv => NoFalseComfort
    <2> SUFFICES ASSUME FenceInv, NEW reachable \in BOOLEAN, NEW readable \in BOOLEAN, Busy,
                        RelayReason(reachable, readable) \in {"OK", "RELAY_RESTART_GRACE"}
                 PROVE  commit <= BuildWindow \/ Newer(Watch, BuildWindow) \/ started < Grace
      BY DEF NoFalseComfort
    <2>1. /\ file.ingest \in Nat /\ file.start \in Nat /\ commit \in Nat /\ started \in Nat
          /\ file.ingest >= commit /\ file.start >= started
      BY AgeFacts DEF FenceInv, TypeOK, MarkerOK
    <2>2. CASE ~Quiet(reachable)
      BY <2>1, <2>2, FenceAssumption DEF Quiet
    <2>3. CASE file.start < Grace
      BY <2>1, <2>3, FenceAssumption
    <2>4. QED
      BY <2>2, <2>3 DEF RelayReason
  <1>2. QED
    BY <1>1, InvHolds, PTL

\* One acknowledgement file holds a check for at most AckMaxDays + 1 days in all.
THEOREM AckBounded == Spec => []AckIsBounded
  <1>1. FenceInv => AckIsBounded
    BY FenceAssumption DEF FenceInv, TypeOK, AckOK, AckIsBounded
  <1>2. QED
    BY <1>1, InvHolds, PTL


-----------------------------------------------------------------------------
(***************************************************************************)
(* Silence is loud.                                                        *)
(***************************************************************************)
\* The checks of a scheduled run, and what it would report.
Checks(reachable, readable) == StoreChecks(reachable) \cup {RelayCheck(reachable, readable)}
Outcome(reachable, readable) ==
  [status |-> Verdict(Checks(reachable, readable)),
   relay |-> RelayReason(reachable, readable)]

\* Project p has been silent for too long and nobody acknowledged that.
Silent(p) == rows[p] > StoreMaxAge
Muted(p) == Held(p) \/ Held("store_age")

\* Whatever a run can and cannot read, silence of a watched project trips one of its
\* checks: its own, or the one of the whole store when that is unreachable or empty.
LEMMA SilenceTrips ==
  ASSUME TypeOK, NEW p \in Watch, Silent(p), ~Muted(p),
         NEW reachable \in BOOLEAN, NEW readable \in BOOLEAN
  PROVE  Verdict(Checks(reachable, readable)) = "alarm"
  <1> SUFFICES \E c \in Checks(reachable, readable) : Tripped(c) /\ ~Held(c.name)
    BY DEF Verdict
  <1>1. p \in Projects /\ rows[p] \in Ages /\ ~Newer({p}, StoreMaxAge)
    BY FenceAssumption, AgeFacts DEF TypeOK, Silent, Newer
  <1>2. CASE ~reachable
    <2> DEFINE c == [name |-> "store_age", reason |-> "STORE_UNREACHABLE"]
    <2>1. c \in Checks(reachable, readable)
      BY <1>2 DEF Checks, StoreChecks
    <2>2. Tripped(c) /\ ~Held(c.name)
      BY DEF Tripped, Muted
    <2>3. QED BY <2>1, <2>2
  <1>3. CASE reachable /\ Newer(Projects, Far)
    <2> DEFINE c == Freshness(p, {p})
    <2>1. c \in Checks(reachable, readable)
      BY <1>3 DEF Checks, StoreChecks
    <2>2. c.name = p /\ c.reason \in {"STORE_STALE", "STORE_EMPTY"}
      BY <1>1 DEF Freshness
    <2>3. Tripped(c) /\ ~Held(c.name)
      BY <2>2 DEF Tripped, Muted
    <2>4. QED BY <2>1, <2>3
  <1>4. CASE reachable /\ ~Newer(Projects, Far)
    <2> DEFINE c == Freshness("store_age", Projects)
    <2>1. c \in Checks(reachable, readable)
      BY <1>4 DEF Checks, StoreChecks
    <2>2. ~Newer(Projects, StoreMaxAge)
      BY <1>4, FenceAssumption, AgeFacts DEF Newer, TypeOK
    <2>3. c.name = "store_age" /\ c.reason = "STORE_EMPTY"
      BY <1>4, <2>2 DEF Freshness
    <2>4. Tripped(c) /\ ~Held(c.name)
      BY <2>3 DEF Tripped, Muted
    <2>5. QED BY <2>1, <2>4
  <1>5. QED BY <1>2, <1>3, <1>4

LEMMA ScheduledOutcome ==
  ASSUME Scheduled
  PROVE  \E reachable, readable \in BOOLEAN : report' = Outcome(reachable, readable)
  BY DEF Scheduled, RunFence, Outcome, Checks

\* Some run of the timer would change the report.  This is what ENABLED <<Scheduled>>_vars
\* comes to, since a run assigns the report and nothing else; the prover does not know
\* ENABLED, so that one direction of it, which holds by the meaning of ENABLED, is a
\* hypothesis of the theorem.
CanReport == \E reachable, readable \in BOOLEAN : report # Outcome(reachable, readable)
RunIsEnabled == CanReport => ENABLED <<Scheduled>>_vars

\* A watched project that has gone silent is reported again and again, for any projects,
\* thresholds and builds: whatever the relay, other projects' rows, restarts, failures to
\* read the store or the receipts and runs by hand do, only an acknowledgement of that
\* check or of the whole store's can hold it.
THEOREM SilenceIsReported == FairSpec /\ []RunIsEnabled => SilenceIsLoud
  <1>1. ASSUME NEW p \in Watch
        PROVE  FairSpec /\ []RunIsEnabled =>
                 (<>[](rows[p] > StoreMaxAge) /\ <>[]~(Held(p) \/ Held("store_age"))
                   => []<>(report.status = "alarm"))
    <2> DEFINE A == rows[p] > StoreMaxAge
               B == Held(p) \/ Held("store_age")
               C == report.status = "alarm"
    <2>1. TypeOK /\ A /\ ~B /\ <<Scheduled>>_vars => C'
      BY SilenceTrips, ScheduledOutcome DEF Silent, Muted, Outcome
    <2>2. TypeOK /\ A /\ ~B /\ ~C => CanReport
      <3> SUFFICES ASSUME TypeOK, A, ~B, ~C PROVE CanReport
        OBVIOUS
      <3>1. Verdict(Checks(TRUE, TRUE)) = "alarm"
        BY SilenceTrips DEF Silent, Muted
      <3>2. Outcome(TRUE, TRUE).status = "alarm"
        BY <3>1 DEF Outcome
      <3>3. report # Outcome(TRUE, TRUE)
        BY <3>2
      <3>4. QED
        BY <3>3 DEF CanReport
    <2> HIDE DEF A, B, C
    <2>3. FairSpec /\ []RunIsEnabled => (<>[]A /\ <>[]~B => []<>C)
      BY <2>1, <2>2, TypeCorrect, PTL DEF FairSpec, RunIsEnabled
    <2>4. QED BY <2>3 DEF A, B, C
  <1>2. QED
    BY <1>1 DEF SilenceIsLoud
=============================================================================
