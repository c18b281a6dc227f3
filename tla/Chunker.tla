------------------------------- MODULE Chunker -------------------------------
(***************************************************************************)
(* chunk_prose (relay/chunker.py): the loop over the sections of a body,   *)
(* and _split_large_section, one iteration a step.                         *)
(*                                                                         *)
(* A body is a sequence of tokens: "h" the first token of a heading line,  *)
(* "w" any other word, "s" white space, "c" one that goes on with the      *)
(* character of the token before it: a character of several bytes may take *)
(* several tokens.  A text is the sequence of the positions of its tokens  *)
(* in the body, 0 for the space that _extract_tail_tokens adds and -1 for  *)
(* the U+FFFD that a cut character decodes to.  Token counts are taken to  *)
(* be additive, and strip(), which only drops white space, to leave a text *)
(* as it is.                                                               *)
(***************************************************************************)
EXTENDS Integers, Sequences

CONSTANTS
  Bodies,   \* the bodies to chunk
  Target,   \* target_tokens
  Overlap   \* int(target_tokens * overlap_ratio)

\* What an overlap_ratio from 0.0 to 1.0 gives.
Overlaps == 0 .. Target

\* The parameters the loop is called with.
ChunkerAssumption ==
  /\ Bodies \subseteq Seq({"h", "w", "s", "c"})
  /\ \A b \in Bodies : \A i \in DOMAIN b :
       b[i] = "c" => i > 1 /\ b[i - 1] \in {"w", "c"}
  /\ Target \in Nat \ {0}
  /\ Overlap \in Overlaps

VARIABLES
  body,
  mode,    \* "section", "split" inside _split_large_section, "done"
  at,      \* where the section at hand begins
  start,   \* start, in _split_large_section
  cur,     \* current_chunk_text
  chunks

vars == <<body, mode, at, start, cur, chunks>>

Positions == DOMAIN body
Span(i, j) == [k \in 1 .. (j - i + 1) |-> i + k - 1]
HasWords(text) ==
  \E k \in DOMAIN text : text[k] # 0 /\ (text[k] = -1 \/ body[text[k]] # "s")

\* _split_into_sections: a section begins at the start of the body and at every
\* heading, and goes up to the next one.
IsStart(i) == i = 1 \/ i = Len(body) + 1 \/ body[i] = "h"
NextSection ==
  CHOOSE j \in (at + 1) .. (Len(body) + 1) :
    IsStart(j) /\ \A k \in (at + 1) .. (j - 1) : ~IsStart(k)

Section == Span(at, NextSection - 1)

\* The tokens p and q are of one character.
SameCharacter(p, q) ==
  \A k \in Positions : (p < k /\ k <= q) \/ (q < k /\ k <= p) => body[k] = "c"

\* _ENCODING.decode of some tokens: the bytes of a character that is not there as a
\* whole are replaced.
Decode(tokens) ==
  LET there == {tokens[k] : k \in DOMAIN tokens}
      Cut(p) == \E q \in Positions : SameCharacter(p, q) /\ q \notin there
  IN  [k \in DOMAIN tokens |->
         IF tokens[k] \in Positions /\ Cut(tokens[k]) THEN -1 ELSE tokens[k]]

\* Mutant: the tail is the whole text, as tokens[-0:] would be.
WholeText(text) == text

\* _extract_tail_tokens
TailTokens(text) ==
  IF Len(text) <= Overlap THEN text
  ELSE Decode(SubSeq(text, Len(text) - Overlap + 1, Len(text))) \o <<0>>

Init ==
  /\ body \in Bodies
  /\ mode = IF HasWords(Span(1, Len(body))) THEN "section" ELSE "done"
  /\ at = 1 /\ start = 0 /\ cur = <<>> /\ chunks = <<>>

\* Mutant: what has been accumulated is dropped.
Dropped == chunks

\* Finalize what has been accumulated, if anything.
Finalized == IF HasWords(cur) THEN Append(chunks, cur) ELSE chunks

\* Mutant: what has been accumulated is kept until after the large section.
LargeSectionFirst ==
  /\ mode = "section" /\ at <= Len(body)
  /\ Len(Section) > Target
  /\ start' = at
  /\ mode' = "split"
  /\ UNCHANGED <<body, at, cur, chunks>>

LargeSection ==
  /\ mode = "section" /\ at <= Len(body)
  /\ Len(Section) > Target
  /\ chunks' = Finalized
  /\ cur' = IF HasWords(cur) THEN <<>> ELSE cur
  /\ start' = at
  /\ mode' = "split"
  /\ UNCHANGED <<body, at>>

\* Mutant: the next chunk begins a whole target back.
NextStartTarget(end) == end + 1 - Target

NextStart(end) == end + 1 - Overlap

\* One iteration of the loop of _split_large_section.
Split ==
  LET last == NextSection - 1
      end == IF start + Target - 1 < last THEN start + Target - 1 ELSE last
  IN
  /\ mode = "split"
  /\ chunks' = Append(chunks, Decode(Span(start, end)))
  /\ \/ /\ end >= last
        /\ mode' = "section" /\ at' = NextSection /\ start' = 0
     \/ /\ end < last
        /\ start' = NextStart(end)
        /\ UNCHANGED <<mode, at>>
  /\ UNCHANGED <<body, cur>>

Overflows == cur # <<>> /\ Len(cur) + Len(Section) > Target

FullChunk ==
  /\ mode = "section" /\ at <= Len(body)
  /\ Len(Section) <= Target /\ Overflows
  /\ chunks' = Append(chunks, cur)
  /\ cur' = (IF Overlap > 0 THEN TailTokens(cur) ELSE <<>>) \o Section
  /\ at' = NextSection
  /\ UNCHANGED <<body, mode, start>>

AddSection ==
  /\ mode = "section" /\ at <= Len(body)
  /\ Len(Section) <= Target /\ ~Overflows
  /\ cur' = cur \o Section
  /\ at' = NextSection
  /\ UNCHANGED <<body, mode, start, chunks>>

Finish ==
  /\ mode = "section" /\ at > Len(body)
  /\ chunks' = Finalized
  /\ mode' = "done"
  /\ UNCHANGED <<body, at, start, cur>>

Next == LargeSection \/ Split \/ FullChunk \/ AddSection \/ Finish

Spec == Init /\ [][Next]_vars

-----------------------------------------------------------------------------
(***************************************************************************)
(* Properties.                                                             *)
(***************************************************************************)
\* White space aside, which strip() may take from either end.
WordsOf(text) == {i \in Positions : body[i] # "s" /\ \E k \in DOMAIN text : text[k] = i}
Before(i) == UNION {WordsOf(chunks[k]) : k \in 1 .. (i - 1)}

\* No character takes more tokens than the overlap and one.
Narrow == \A p, q \in Positions : SameCharacter(p, q) => q - p <= Overlap

\* Every word of the body is in a chunk, and not cut, when chunk_prose returns, unless
\* a character is too wide for the overlap to give it back.
NothingLost ==
  mode = "done" /\ Narrow =>
    \A i \in Positions : body[i] # "s" => \E k \in DOMAIN chunks : i \in WordsOf(chunks[k])

\* Apart from what it repeats, a chunk only holds text after everything in the chunks
\* before it.
ChunksInOrder ==
  \A i \in DOMAIN chunks :
    \A x \in WordsOf(chunks[i]) \ Before(i) : \A y \in Before(i) : x > y

\* The chunks follow the body: although they are cut between tokens, which may be inside
\* a character, no text is lost, and the indices that chunk_prose gives the chunks tell
\* the reading order.
ChunksFollowBody == NothingLost /\ ChunksInOrder

\* "Bounded by ~target_tokens": a chunk never exceeds the target by more than the
\* overlap carried into it and the space after it.
ChunksBounded == \A i \in DOMAIN chunks : Len(chunks[i]) <= Target + Overlap + 1

\* chunk_prose comes to an end, whatever is repeated, cut or finalized in between: there
\* are never more chunks than tokens, as long as the overlap is below the target.
ChunksLimited == Overlap < Target => Len(chunks) <= Len(body)

=============================================================================
