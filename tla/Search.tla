------------------------------- MODULE Search -------------------------------
(***************************************************************************)
(* search and _search_partition (retrieval/core.py): a search pages        *)
(* through one partition per requested payload type, filters what it       *)
(* reads, and merges the partitions, while writers change the store        *)
(* between its pages.                                                      *)
(*                                                                         *)
(* score is the store's order for the request at hand: the similarity to   *)
(* its query, or, without one, the time of the last update.  No two        *)
(* records share a score.  Absent is the score of a record that does not   *)
(* exist.                                                                  *)
(***************************************************************************)
EXTENDS Integers, Sequences, FiniteSets

CONSTANTS
  Keys,         \* natural keys of the project, numbers in their string order
  TypeOf,       \* the payload type of each key
  TagsOf,       \* the domain tags of each record
  Substantive,  \* the keys _has_substantive_content accepts
  Requests,     \* [query, types, tags, retired, substantive]
  Corpora,      \* initial scores
  Scores,       \* scores a write may give
  ResultLimit,  \* _RANKED_RESULT_LIMIT
  PageSize,     \* _LOGICAL_PAGE_SIZE
  MaxScanned,   \* _MAX_SCANNED_PER_PARTITION
  MaxChanges    \* bound: writes while the search runs

Absent == 0
AllTypes == "all"

\* What SearchRequest lets through: a query or at least one filter.
ValidRequest(r) == r.query \/ r.types # <<>> \/ r.tags # {}

ASSUME RequestAssumption ==
  /\ Requests \subseteq [query : BOOLEAN, types : Seq(STRING), tags : SUBSET STRING,
                         retired : BOOLEAN, substantive : BOOLEAN]
  /\ \A r \in Requests :
       /\ ValidRequest(r)
       /\ \A i, j \in DOMAIN r.types : r.types[i] = r.types[j] => i = j
       /\ \A i \in DOMAIN r.types : r.types[i] # AllTypes

ASSUME SearchAssumption ==
  /\ Keys \subseteq Nat /\ IsFiniteSet(Keys)
  /\ Absent \notin Scores /\ Scores \subseteq Nat
  /\ Corpora \subseteq [Keys -> Scores \cup {Absent}]
  /\ \A c \in Corpora : \A j, k \in Keys : c[j] = c[k] /\ c[j] # Absent => j = k
  /\ ResultLimit \in Nat \ {0} /\ PageSize \in Nat \ {0} /\ MaxScanned \in Nat \ {0}
  /\ MaxChanges \in Nat

VARIABLES
  score, retired,  \* the store: order, and the records that carry superseded_by
  req,
  parts,           \* partitions still to search, the first being searched
  offset,
  accepted,        \* items accepted in this partition: [key, score, retired]
  gathered,        \* items of the partitions before it
  outcome,         \* "running", "returned", "incomplete" (RuntimeError) or "failed"
  result,
  changes,
  touched,         \* history: records written while the search ran
  sank,            \* history: whether one of them lost rank
  short,           \* history: whether a partition ended at the scan bound
  pages            \* history: the queries sent for this partition

vars == <<score, retired, req, parts, offset, accepted, gathered, outcome, result,
          changes, touched, sank, short, pages>>
storeVars == <<score, retired, changes, touched, sank>>

Stored == {k \in Keys : score[k] # Absent}
Item(k) == [key |-> k, score |-> score[k], retired |-> k \in retired]

\* sorted(set(payload_types)), or one partition of all types.
Partitions(r) == IF r.types = <<>> THEN <<AllTypes>> ELSE r.types

Init ==
  /\ score \in Corpora
  /\ retired \in SUBSET Stored
  /\ req \in Requests
  /\ parts = Partitions(req)
  /\ offset = 0 /\ accepted = <<>> /\ gathered = <<>>
  /\ outcome = "running" /\ result = <<>>
  /\ changes = 0 /\ touched = {} /\ sank = FALSE /\ short = FALSE /\ pages = 0

-----------------------------------------------------------------------------
(***************************************************************************)
(* asearch.                                                                *)
(***************************************************************************)
Lesser(a, b) == IF a < b THEN a ELSE b

Candidates == {k \in Stored : Head(parts) \in {AllTypes, TypeOf[k]}}
Place(k) == Cardinality({x \in Candidates : score[x] > score[k]}) + 1
Ranked(i) == Item(CHOOSE k \in Candidates : Place(k) = i)

\* The vector query ranks a window of 2 * limit + 1 candidates, whatever the offset,
\* and cuts limit of them from the offset; without a query there is no window.
Asearch(limit) ==
  LET window == Lesser(Cardinality(Candidates),
                       IF req.query THEN 2 * limit + 1 ELSE Cardinality(Candidates))
      last == Lesser(offset + limit, window)
  IN  [i \in 1 .. (IF last > offset THEN last - offset ELSE 0) |-> Ranked(offset + i)]

-----------------------------------------------------------------------------
(***************************************************************************)
(* search.                                                                 *)
(***************************************************************************)
Matches(item) ==
  /\ req.tags = {} \/ TagsOf[item.key] \cap req.tags # {}
  /\ req.retired \/ ~item.retired
  /\ req.substantive => item.key \in Substantive

\* Mutant: two readings of a record are told apart by their whole value.
SameValue(x, y) == x = y

SameItem(x, y) == x.key = y.key

\* The items at the indices kept, in their order.
Picked(items, kept) ==
  [n \in 1 .. Cardinality(kept) |->
     items[CHOOSE i \in kept : Cardinality({j \in kept : j <= i}) = n]]

\* The items that pass the filters.
Matching(items) == Picked(items, {i \in DOMAIN items : Matches(items[i])})

\* The items that repeat none before them, nor one of seen.
Deduped(items, seen) ==
  Picked(items,
    {i \in DOMAIN items :
       /\ \A j \in DOMAIN seen : ~SameItem(seen[j], items[i])
       /\ \A j \in 1 .. (i - 1) : ~SameItem(items[j], items[i])})

Cut(items, n) == SubSeq(items, 1, Lesser(Len(items), n))

\* _sort_key: by score, which is None without a query, then by natural key.
Precedes(x, y) ==
  IF req.query /\ x.score # y.score THEN x.score > y.score ELSE x.key < y.key
Sorted(items) ==
  [n \in DOMAIN items |->
     items[CHOOSE i \in DOMAIN items :
             Cardinality({j \in DOMAIN items : Precedes(items[j], items[i])}) = n - 1]]

\* Mutant: the merged items are cut before they are sorted.
CutFirst(items) == Sorted(Cut(Deduped(items, <<>>), ResultLimit))

\* What search makes of the items of all partitions.
Merge(items) == Cut(Sorted(Deduped(items, <<>>)), ResultLimit)

\* The partition at hand is done with: the next one, or the end of the search.
PartitionDone(items) ==
  /\ parts' = Tail(parts)
  /\ offset' = 0 /\ accepted' = <<>>
  /\ IF Tail(parts) # <<>>
       THEN /\ gathered' = gathered \o items
            /\ UNCHANGED <<outcome, result>>
       ELSE /\ gathered' = <<>>
            /\ outcome' = "returned"
            /\ result' = Merge(gathered \o items)

\* Mutant: the bound is never an error.
NeverIncomplete == FALSE

\* _scan_bound_reached
MustBeComplete == req.substantive

ScanBoundReached(items) ==
  /\ short' = TRUE
  /\ \/ /\ MustBeComplete
        /\ outcome' = "incomplete"
        /\ UNCHANGED <<parts, offset, accepted, gathered, result>>
     \/ /\ ~MustBeComplete
        /\ PartitionDone(items)

\* What makes the window reach past the offset.
FetchLimit(size) == offset + size

\* Mutants: the offset skips a record, the offset counts what was accepted.
OffsetSkipsOne(page, new) == offset + Len(page) + 1
OffsetAfterAccepted(page, new) == offset + Len(new)

OffsetAfter(page, new) == offset + Len(page)

\* One iteration of the loop of _search_partition.
FetchPage ==
  LET size == Lesser(PageSize, MaxScanned - offset)
      fetched == Asearch(FetchLimit(size))
      page == Cut(fetched, size)
      new == Deduped(Matching(page), accepted)
      items == accepted \o Cut(new, ResultLimit - Len(accepted))
      next == OffsetAfter(page, new)
      exhausted == \/ Len(fetched) < offset + size /\ Len(fetched) <= size
                   \/ Len(page) < size
      full == Len(items) >= ResultLimit
  IN
  /\ outcome = "running"
  /\ \/ /\ full \/ exhausted
        /\ PartitionDone(items)
        /\ pages' = 0
        /\ UNCHANGED short
     \/ /\ ~full /\ ~exhausted /\ next >= MaxScanned
        /\ ScanBoundReached(items)
        /\ pages' = 0
     \/ /\ ~full /\ ~exhausted /\ next < MaxScanned
        /\ offset' = next /\ accepted' = items
        /\ pages' = pages + 1
        /\ UNCHANGED <<parts, gathered, outcome, result, short>>
  /\ UNCHANGED <<storeVars, req>>

\* The embedding server or the store fails, or _SEARCH_TIMEOUT_SECONDS pass.
SearchRaises ==
  /\ outcome = "running"
  /\ outcome' = "failed"
  /\ UNCHANGED <<storeVars, req, parts, offset, accepted, gathered, result, short, pages>>

-----------------------------------------------------------------------------
(***************************************************************************)
(* Writers, between two pages.                                             *)
(***************************************************************************)
Unused == {s \in Scores : \A k \in Keys : score[k] # s}
Top(s) == \A k \in Keys : score[k] < s

\* aput with the content re-embedded; without a query the order is that of updates.
Put(k, s) ==
  /\ outcome = "running" /\ changes < MaxChanges
  /\ changes' = changes + 1
  /\ s \in Unused /\ (~req.query => Top(s))
  /\ score' = [score EXCEPT ![k] = s]
  /\ touched' = touched \cup {k}
  /\ sank' = (sank \/ s < score[k])
  /\ UNCHANGED <<req, parts, offset, accepted, gathered, outcome, result, short, pages>>

\* A record is written, superseded already when its successor is there.
WriteRecord(k, s) == Put(k, s) /\ retired' \in {retired \ {k}, retired \cup {k}}

\* A record is marked superseded: its content, hence its similarity, stays.
Supersede(k) ==
  /\ k \in Stored \ retired
  /\ retired' = retired \cup {k}
  /\ \/ ~req.query /\ \E s \in Scores : Put(k, s)
     \/ /\ req.query /\ outcome = "running" /\ changes < MaxChanges
        /\ changes' = changes + 1
        /\ touched' = touched \cup {k}
        /\ UNCHANGED <<score, sank, req, parts, offset, accepted, gathered, outcome,
                       result, short, pages>>

Next ==
  \/ FetchPage \/ SearchRaises
  \/ \E k \in Keys : Supersede(k) \/ \E s \in Scores : WriteRecord(k, s)

Spec == Init /\ [][Next]_vars

-----------------------------------------------------------------------------
(***************************************************************************)
(* Properties.                                                             *)
(***************************************************************************)
Returned(k) == \E i \in DOMAIN result : result[i].key = k
Asked(k) == req.types = <<>> \/ \E i \in DOMAIN req.types : req.types[i] = TypeOf[k]

\* The matching records that nobody wrote while the search ran.
Settled == {k \in Stored \ touched : Asked(k) /\ Matches(Item(k))}

\* Every one of them is in the result, or was beaten by a full result of items that
\* are no less relevant.
Served ==
  \A k \in Settled :
    \/ Returned(k)
    \/ /\ Len(result) = ResultLimit
       /\ req.query => \A i \in DOMAIN result : result[i].score > score[k]

\* core.py, "page until each requested partition has enough accepted candidates for
\* the final global top ten": superseded, untagged and foreign records never crowd a
\* match out, and neither do records that are inserted, superseded or moved up
\* between two pages.  A partition that ended at the scan bound is excepted, but not
\* from a substantive search (_scan_bound_reached, "fails loudly rather than pass off
\* an incomplete scan as complete"); and so is a record that lost rank in between,
\* which moves others across the page boundary.
BestMatchesReturned ==
  outcome = "returned" /\ (req.substantive \/ ~short) /\ ~sank => Served

\* retrieval-api.feature, "it should never appear as both current and superseded in
\* the same result": a record read on two pages, in whichever states, is one result.
OneState ==
  \A i, j \in DOMAIN result : result[i].key = result[j].key => i = j

\* The loop ends whatever the filters reject and the writers do: a partition costs
\* no more queries than it takes to scan MaxScanned candidates.
PagesBounded == pages * PageSize < MaxScanned

=============================================================================
