------------------------------- MODULE Loops -------------------------------
(***************************************************************************)
(* The three loops that share no state, Chunker, Embed and Assembly, side  *)
(* by side, with the properties of each.                                   *)
(***************************************************************************)
EXTENDS Integers, Sequences

CONSTANTS
  Bodies, Target, Overlap,          \* Chunker
  Inputs, CharsPerToken, Budget,    \* Embed
  Rankings, Budgets, Separator      \* Assembly

VARIABLES
  body, mode, at, start, cur, chunks,
  texts, next, batches, current, tokens, phase, batch, retried, embedded, log,
  ranked, band, budget, stage, pws, others, lead, composed, place, included, size

C == INSTANCE Chunker
E == INSTANCE Embed WITH result <- embedded
A == INSTANCE Assembly WITH phase <- stage, next <- place, tokens <- size

ASSUME LoopAssumption == C!ChunkerAssumption /\ E!EmbedAssumption /\ A!AssemblyAssumption

\* chunk_prose loses no word of the body, however its characters are cut, and keeps its
\* order.
ChunksFollowBody == C!ChunksFollowBody

\* No chunk exceeds the target by more than the overlap and a space.
ChunksBounded == C!ChunksBounded

\* chunk_prose makes no more chunks than there are tokens.
ChunksLimited == C!ChunksLimited

\* embed returns one embedding per text, in order.
OneToOne == E!OneToOne

\* The texts _pack_batches puts together fit the budget, and embed sends them twice at
\* most, and again only after a 5xx.
RequestsBounded == E!RequestsBounded

\* assemble_context leaves nothing out that would still fit.
NothingFitsLeft == A!NothingFitsLeft

\* assemble_context omits the lowest-ranked results, as its docstring says.
LowestOmittedFirst == A!LowestOmittedFirst

\* compose_by_complexity keeps the rank order of each category.
RelevanceKept == A!RelevanceKept

=============================================================================
