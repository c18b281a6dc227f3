------------------------------- MODULE MCJobs -------------------------------
(***************************************************************************)
(* The loops of Loops, each on all of its small inputs, the jobs of        *)
(* Offline and a search: a behaviour picks one of them and runs it.        *)
(***************************************************************************)
EXTENDS Loops, Offline, Search, SequencesExt

CONSTANTS
  MaxTokens,         \* Chunker: bodies of up to MaxTokens tokens
  MaxTexts, Lengths, \* Embed: lists of up to MaxTexts texts
  MaxResults, Sizes, \* Assembly: rankings of up to MaxResults
  Count              \* Search: records

VARIABLE job

MCBodies ==
  {b \in BoundedSeq({"h", "w", "s", "c"}, MaxTokens) :
     \A i \in DOMAIN b : b[i] = "c" => i > 1 /\ b[i - 1] \in {"w", "c"}}
MCInputs == BoundedSeq(Lengths, MaxTexts)
MCRankings == BoundedSeq([pw : BOOLEAN, size : Sizes], MaxResults)

\* Fixture: a record on each side of the cut, in projects that the pattern of rollout 1_
\* is like when its characters are not escaped; rollout 12 as well.  The last id is that
\* of no rollout: it would be the exact prefix of what rollout 12 wrote.
MCWhen == [old |-> "before", undated |-> "undated"]
MCRows == DOMAIN MCWhen
MCPrefix == [old |-> <<"s", "x", "1", "underscore", ".", "t">>, undated |-> <<"t", ".", "t">>]
MCRollouts == {<<"1", "underscore">>, <<"1", "2">>, <<"1", "2", ".", "t">>}

\* Chronicler: a story over two namespaces; the larger one and the listing may have one
\* entry more than the limit.
Episode(id, space, story, dated) ==
  [id |-> id, space |-> space, story |-> story, dated |-> dated, teaches |-> dated]
MCEpisodes ==
  {Episode(1, "m", "a", TRUE), Episode(2, "m", "b", FALSE), Episode(3, "n", "a", FALSE)}
MCOthers == [m |-> 1, n |-> 0]

\* Search: records of two types, some of them tagged, one a shell without usable prose.
MCKeys == 1 .. Count
MCTypeOf == [k \in MCKeys |-> IF k % 3 = 0 THEN "warning" ELSE "pattern"]
MCTagsOf == [k \in MCKeys |-> IF k % 2 = 0 THEN {"t"} ELSE {}]
MCSubstantive == {k \in MCKeys : k # 2}

Request(query, types, tags, old, substantive) ==
  [query |-> query, types |-> types, tags |-> tags, retired |-> old,
   substantive |-> substantive]

Plain == Request(TRUE, <<>>, {}, FALSE, FALSE)
Ascending == [k \in MCKeys |-> 2 * k]

\* With a query, filters are optional.
MCRequests ==
  {Plain, Request(TRUE, <<>>, {}, TRUE, FALSE),
   Request(TRUE, <<>>, {"t"}, FALSE, FALSE), Request(TRUE, <<>>, {}, FALSE, TRUE),
   Request(TRUE, <<"pattern", "warning">>, {}, FALSE, FALSE),
   Request(FALSE, <<>>, {"t"}, FALSE, FALSE), Request(FALSE, <<"pattern">>, {}, TRUE, FALSE),
   Request(FALSE, <<"pattern", "warning">>, {}, FALSE, FALSE),
   Request(FALSE, <<"pattern">>, {}, FALSE, TRUE)}

\* Everything stored, in either order, and everything but the last record.
MCCorpora ==
  {Ascending, [k \in MCKeys |-> 2 * (Count - k + 1)],
   [k \in MCKeys |-> IF k = Count THEN Absent ELSE 2 * k]}
MCScores == 1 .. (2 * Count + 2)

chunkerVars == <<body, mode, at, start, cur, chunks>>
embedVars == <<texts, next, batches, current, tokens, phase, batch, retried, embedded, log>>
assemblyVars == <<ranked, band, budget, stage, pws, others, lead, composed, place, included,
                  size>>
fixtureVars == <<live, dir, snap, restore, target, shelf, rollout, damage>>
chroniclerVars == <<now, bound, watermark, pass, rows, told, failures, crowded>>
loopVars == <<chunkerVars, embedVars, assemblyVars>>
offlineVars == <<fixtureVars, chroniclerVars>>
searchVars == <<score, retired, req, parts, offset, accepted, gathered, outcome, result,
                changes, touched, sank, short, pages>>
jobVars == <<job, loopVars, offlineVars, searchVars>>

\* The jobs that do not run have the empty input, or one of their inputs.
JobInit ==
  /\ job \in {"chunker", "embed", "assembly", "fixture", "chronicler", "search"}
  /\ body \in (IF job = "chunker" THEN Bodies ELSE {<<>>})
  /\ texts \in (IF job = "embed" THEN Inputs ELSE {<<>>})
  /\ ranked \in (IF job = "assembly" THEN Rankings ELSE {<<>>})
  /\ score \in (IF job = "search" THEN Corpora ELSE {Ascending})
  /\ req \in (IF job = "search" THEN Requests ELSE {Plain})
  /\ retired \in (IF job = "search" THEN SUBSET Stored ELSE {{}})
  /\ C!Init /\ E!Init /\ A!Init /\ F!Init /\ H!Init /\ Init
  /\ job # "assembly" => band = A!NoBand /\ budget = 0

Run ==
  \/ job = "chunker" /\ C!Next /\ UNCHANGED <<embedVars, assemblyVars, offlineVars, searchVars>>
  \/ job = "embed" /\ E!Next /\ UNCHANGED <<chunkerVars, assemblyVars, offlineVars, searchVars>>
  \/ job = "assembly" /\ A!Next /\ UNCHANGED <<chunkerVars, embedVars, offlineVars, searchVars>>
  \/ job = "fixture" /\ F!Next /\ UNCHANGED <<loopVars, chroniclerVars, searchVars>>
  \/ job = "chronicler" /\ H!Next /\ UNCHANGED <<loopVars, fixtureVars, searchVars>>
  \/ job = "search" /\ Next /\ UNCHANGED <<loopVars, offlineVars>>

\* The fairness of FairSpec in Chronicler.
JobSpec ==
  /\ JobInit /\ [][Run /\ UNCHANGED job]_jobVars
  /\ WF_jobVars(job = "chronicler" /\ H!Work
                  /\ UNCHANGED <<job, loopVars, fixtureVars, searchVars>>)

\* Every episode that was not late is harvested, or lies beyond the scan limit.
EventuallyHarvested == job = "chronicler" => H!EventuallyHarvested

=============================================================================
