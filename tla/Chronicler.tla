----------------------------- MODULE Chronicler -----------------------------
(***************************************************************************)
(* The Chronicler (chronicler/): scheduled passes that harvest the typed   *)
(* episodes of the store since the last successful pass into dataset rows  *)
(* and story cards, while episodes go on arriving.                         *)
(*                                                                         *)
(* Time is in whole seconds, as `date` writes it into the watermark.  The  *)
(* bound of an episode is compared with it as a string: a time with a      *)
(* fraction or a numeric offset sorts before the same second with a "Z".   *)
(***************************************************************************)
EXTENDS Integers, FiniteSets

CONSTANTS
  Episodes,      \* typed episodes: [id, space, story, dated, teaches]
  Others,        \* number of records of each namespace that are no typed episodes
  OtherSpaces,   \* number of namespaces that hold none at all
  ScanLimit,     \* chronicler_scan_limit
  MaxNow,        \* bound: seconds
  MaxFailures,   \* bound: passes that fail
  None

Stories == {e.story : e \in Episodes}
Spaces == {e.space : e \in Episodes}

ChroniclerAssumption ==
  /\ Others \in [Spaces -> Nat] /\ OtherSpaces \in Nat
  /\ ScanLimit \in Nat \ {0} /\ MaxNow \in Nat /\ MaxFailures \in Nat

VARIABLES
  now,
  bound,       \* [sec, zulu, late] of the episodes in the store, None for the others
  watermark,   \* contents of chronicler.since; 0 when there is none
  pass,        \* [phase, start, since, spaces, read, cut, left]; cut: left out by the limit
  rows, told,  \* episodes with a row in the intake, and on a card that was written
  failures,
  crowded      \* history: episodes a pass that succeeded left out because of the limit

vars == <<now, bound, watermark, pass, rows, told, failures, crowded>>
outVars == <<rows, told>>

Idle == [phase |-> "idle", start |-> 0, since |-> 0,
         spaces |-> {}, read |-> {}, cut |-> {}, left |-> {}]
Stored == {e \in Episodes : bound[e] # None}

Init ==
  /\ now = 1 /\ watermark = 0 /\ failures = 0
  /\ bound = [e \in Episodes |-> None]
  /\ pass = Idle
  /\ rows = {} /\ told = {} /\ crowded = {}

-----------------------------------------------------------------------------
\* bound < since
Before(b, since) == since > 0 /\ (b.sec < since \/ (b.sec = since /\ ~b.zulu))

\* The writer stores an episode.  occurred_at is its producer's; without one the bound is
\* created_at, the present with a fraction and an offset.  History: an episode is late
\* when a pass has already been started for the time after it.
Arrive(e, sec, zulu) ==
  LET b == [sec |-> sec, zulu |-> zulu]
      passed == Before(b, watermark) \/ (pass.phase # "idle" /\ Before(b, pass.start)) IN
  /\ bound[e] = None
  /\ e.dated \/ (sec = now /\ ~zulu)
  /\ bound' = [bound EXCEPT ![e] = [sec |-> sec, zulu |-> zulu, late |-> passed]]
  /\ UNCHANGED <<now, watermark, pass, failures, crowded, outVars>>

Tick ==
  /\ now < MaxNow
  /\ now' = now + 1
  /\ UNCHANGED <<bound, watermark, pass, failures, crowded, outVars>>

-----------------------------------------------------------------------------
(***************************************************************************)
(* A pass: chronicler-run.sh and run_chronicler.                           *)
(***************************************************************************)
\* START is taken and the watermark read.
Begin ==
  /\ pass.phase = "idle"
  /\ pass' = [Idle EXCEPT !.phase = "listing", !.start = now, !.since = watermark]
  /\ UNCHANGED <<now, bound, watermark, failures, crowded, outVars>>

\* What a read with limit=ScanLimit returns of a set that lies among some others, without
\* saying whether there was more.  A search without a query returns what was updated last,
\* and any record may be written again at any time: which ones is left open.
Page(all, others) ==
  {some \in SUBSET all :
     IF Cardinality(all) + others <= ScanLimit THEN some = all
     ELSE Cardinality(some) \in ScanLimit - others .. ScanLimit}

\* The episodes that are not before since.
Unread == {e \in Stored : ~Before(bound[e], pass.since)}

\* alist_namespaces; an episode whose namespace is not listed is left out.
List ==
  /\ pass.phase = "listing"
  /\ \E listed \in Page({e.space : e \in Stored}, OtherSpaces) :
       pass' = [pass EXCEPT !.phase = "scanning", !.spaces = listed,
                            !.cut = {e \in Unread : e.space \notin listed}]
  /\ UNCHANGED <<now, bound, watermark, failures, crowded, outVars>>

\* read_episodes, one namespace: what asearch returns of it, less what is before since.
Scan(n) ==
  LET there == {e \in Stored : e.space = n} IN
  /\ pass.phase = "scanning" /\ n \in pass.spaces
  /\ \E found \in Page(there, Others[n]) :
       pass' = [pass EXCEPT
         !.spaces = @ \ {n},
         !.read = @ \cup (found \cap Unread), !.cut = @ \cup ((there \ found) \cap Unread)]
  /\ UNCHANGED <<now, bound, watermark, failures, crowded, outVars>>

\* The episodes the extractors make a row of: lessons, an approach, an assumption that
\* was not accepted.
DatasetRows(es) == {e \in es : e.teaches}

\* Mutant: a pass without dataset rows gives up before the cards.
WriteRowsOrQuit ==
  /\ pass.phase = "scanning" /\ pass.spaces = {}
  /\ rows' = rows \cup DatasetRows(pass.read)
  /\ pass' = IF DatasetRows(pass.read) = {} THEN Idle
             ELSE [pass EXCEPT !.phase = "telling", !.left = {e.story : e \in pass.read}]
  /\ UNCHANGED <<now, bound, watermark, failures, crowded, told>>

\* harvest, and write_dataset_rows into a file of this run.
WriteRows ==
  /\ pass.phase = "scanning" /\ pass.spaces = {}
  /\ rows' = rows \cup DatasetRows(pass.read)
  /\ pass' = [pass EXCEPT !.phase = "telling", !.left = {e.story : e \in pass.read}]
  /\ UNCHANGED <<now, bound, watermark, failures, crowded, told>>

\* write_story_cards, one card: the episodes of the story in this pass.
WriteCard(s) ==
  /\ pass.phase = "telling" /\ s \in pass.left
  /\ told' = told \cup {e \in pass.read : e.story = s}
  /\ pass' = [pass EXCEPT !.left = @ \ {s}]
  /\ UNCHANGED <<now, bound, watermark, failures, crowded, rows>>

Harvested(e) == e \in told /\ (e.teaches => e \in rows)

\* Mutant: the watermark is the end of the pass.
AdvanceToEnd ==
  /\ pass.phase = "telling" /\ pass.left = {}
  /\ watermark' = now /\ pass' = Idle
  /\ crowded' = crowded \cup {e \in pass.cut : ~Harvested(e)}
  /\ UNCHANGED <<now, bound, failures, outVars>>

\* The script ends: the watermark is the time the pass started.
Advance ==
  /\ pass.phase = "telling" /\ pass.left = {}
  /\ watermark' = pass.start /\ pass' = Idle
  /\ crowded' = crowded \cup {e \in pass.cut : ~Harvested(e)}
  /\ UNCHANGED <<now, bound, failures, outVars>>

\* The pass fails anywhere (set -e): what is written stays, the watermark too.
FailPass ==
  /\ pass.phase # "idle" /\ failures < MaxFailures
  /\ failures' = failures + 1 /\ pass' = Idle
  /\ UNCHANGED <<now, bound, watermark, crowded, outVars>>

-----------------------------------------------------------------------------
Work == Begin \/ List \/ WriteRows \/ Advance
          \/ (\E n \in Spaces : Scan(n)) \/ (\E s \in Stories : WriteCard(s))

Next ==
  \/ \E e \in Episodes, sec \in 1 .. now, zulu \in BOOLEAN : Arrive(e, sec, zulu)
  \/ Tick \/ Work \/ FailPass

Spec == Init /\ [][Next]_vars

\* Fairness: the timer fires again (Persistent=true), and a pass that does not fail
\* gets to its end.
FairSpec == Spec /\ WF_vars(Work)

-----------------------------------------------------------------------------
(***************************************************************************)
(* Properties.                                                             *)
(***************************************************************************)
\* chronicler-run.sh, "the missed window is re-covered by the next run": through failed
\* passes and arrivals between listing, scanning and writing, the watermark never
\* passes an episode that has not been harvested, unless it was late when it came or a
\* pass that went through left it out because of the limit.
WindowCovered ==
  \A e \in Stored :
    Harvested(e) \/ bound[e].late \/ e \in crowded \/ ~Before(bound[e], watermark)

\* An episode that is not late is harvested in the end, or a pass reaches its end that
\* left it out because of the limit.
EventuallyHarvested ==
  \A e \in Episodes : (e \in Stored /\ ~bound[e].late) ~> (Harvested(e) \/ e \in crowded)

=============================================================================
