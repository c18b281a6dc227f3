----------------------------- MODULE MCReindex -----------------------------
(***************************************************************************)
(* Small instances of Reindex: two task ids, b also in the backfill.       *)
(***************************************************************************)
EXTENDS Reindex

MCIds == {"a", "b"}

Doc(path, class, id, title, lessons, big) ==
  [path |-> path, class |-> class, id |-> id, title |-> title, lessons |-> lessons,
   big |-> big]

\* Two copies of one task, and another task; later only the deeper copy, grown too
\* large, and two tasks that claim one id, beside a draft and a broken file.
Copies ==
  {Doc(1, "ok", "a", "t", None, FALSE), Doc(2, "ok", "a", "t", None, FALSE),
   Doc(3, "ok", "b", "u", None, FALSE)}
Clash ==
  {Doc(2, "ok", "a", "t", "l", TRUE), Doc(3, "ok", "b", "u", None, FALSE),
   Doc(4, "ok", "b", "v", None, FALSE), Doc(5, "skip", "b", "w", None, FALSE),
   Doc(6, "bad", "b", "x", None, FALSE)}
MCCorpora == {Copies, Clash}

File(src, big) == [id |-> "b", src |-> src, lessons |-> None, big |-> big]
\* The second reviewed file is refused; the first has the content of the task b.
MCBackfills == {{}, {File(3, FALSE), File(9, TRUE)}}

Empty == [k \in MCIds |-> None]
MCSeeds ==
  {Empty, [Empty EXCEPT !["a"] = [pay |-> [id |-> "a", src |-> 1, lessons |-> "l"],
                                  version |-> 1]]}
=============================================================================
