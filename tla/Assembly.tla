------------------------------ MODULE Assembly ------------------------------
(***************************************************************************)
(* compose_by_complexity (retrieval/composition.py), one iteration of the  *)
(* interleaving loop a step, then assemble_context                         *)
(* (retrieval/assembly.py), one result a step.                             *)
(*                                                                         *)
(* A result is [pw, size]: whether it is a pattern or a warning, and the   *)
(* tokens of its content, 0 for an empty one.  A block measures the sum of *)
(* its contents and of the separators between them.  A list of results is  *)
(* the sequence of their ranks.                                            *)
(***************************************************************************)
EXTENDS Integers, Sequences, FiniteSets

CONSTANTS
  Rankings,   \* the ranked results of a search
  Budgets,    \* token_budget
  Separator   \* tokens between two contents

\* _TYPE_MIX_WEIGHTS, in tenths; a caller may also leave the composition out.
Weight ==
  [simple |-> [pw |-> 3, other |-> 10],
   standard |-> [pw |-> 10, other |-> 10],
   complex |-> [pw |-> 20, other |-> 6]]
Bands == DOMAIN Weight
NoBand == "none"

\* The parameters the loops are called with.
AssemblyAssumption ==
  /\ Rankings \subseteq Seq([pw : BOOLEAN, size : Nat])
  /\ Budgets \subseteq Nat
  /\ Separator \in Nat

VARIABLES
  ranked, band, budget,
  phase,     \* "compose", "interleave", "assemble", "done"
  pws,       \* selected patterns and warnings not yet placed
  others,    \* the same for the rest
  lead,      \* pw_balance less other_balance, times the total weight
  composed,  \* the results handed to assemble_context
  next,      \* the one it looks at
  included,
  tokens     \* size of current_block

vars == <<ranked, band, budget, phase, pws, others, lead, composed, next, included, tokens>>
inputVars == <<ranked, band, budget>>

Ranks == 1 .. Len(ranked)
Patterns == {i \in Ranks : ranked[i].pw}

Init ==
  /\ ranked \in Rankings
  /\ band \in Bands \cup {NoBand}
  /\ budget \in Budgets
  /\ phase = "compose"
  /\ pws = <<>> /\ others = <<>> /\ lead = 0
  /\ composed = <<>> /\ next = 1 /\ included = <<>> /\ tokens = 0

-----------------------------------------------------------------------------
(***************************************************************************)
(* compose_by_complexity.                                                  *)
(***************************************************************************)
Total == Weight[band].pw + Weight[band].other
InRankOrder(s) ==
  [n \in 1 .. Cardinality(s) |-> CHOOSE i \in s : Cardinality({j \in s : j <= i}) = n]

\* int(len(items) * weight / total_weight + 0.5), between 1 and what there is; all of
\* one category when the other is empty.
Slots(weight, here, there) ==
  LET n == Cardinality(here)
      share == (2 * Len(ranked) * weight + Total) \div (2 * Total)
  IN  IF there = {} \/ share > n THEN n ELSE IF share < 1 THEN 1 ELSE share

Select(weight, here, there) ==
  IF here = {} THEN <<>> ELSE SubSeq(InRankOrder(here), 1, Slots(weight, here, there))

\* Without a band the results go to assemble_context as they are.
Skip ==
  /\ phase = "compose" /\ band = NoBand
  /\ composed' = [i \in Ranks |-> i]
  /\ phase' = "assemble"
  /\ UNCHANGED <<inputVars, pws, others, lead, next, included, tokens>>

Compose ==
  /\ phase = "compose" /\ band # NoBand
  /\ pws' = Select(Weight[band].pw, Patterns, Ranks \ Patterns)
  /\ others' = Select(Weight[band].other, Ranks \ Patterns, Patterns)
  /\ phase' = "interleave"
  /\ UNCHANGED <<inputVars, lead, composed, next, included, tokens>>

\* Mutant: the category that is ahead is taken from its end.
TakeLast(queue) == <<queue[Len(queue)], SubSeq(queue, 1, Len(queue) - 1)>>

\* The result placed next, and those left.
Take(queue) == <<Head(queue), Tail(queue)>>

\* Both balances grow by their ratio; the category that is placed pays one, whichever
\* of the two was ahead.
PlaceNext ==
  LET ahead == lead + Weight[band].pw - Weight[band].other
      pwNext == pws # <<>> /\ (ahead >= 0 \/ others = <<>>)
  IN
  /\ phase = "interleave"
  /\ \/ /\ pwNext
        /\ composed' = Append(composed, Take(pws)[1])
        /\ pws' = Take(pws)[2]
        /\ lead' = ahead - Total
        /\ UNCHANGED <<others, phase>>
     \/ /\ ~pwNext /\ others # <<>>
        /\ composed' = Append(composed, Take(others)[1])
        /\ others' = Take(others)[2]
        /\ lead' = ahead + Total
        /\ UNCHANGED <<pws, phase>>
     \/ /\ pws = <<>> /\ others = <<>>
        /\ phase' = "assemble"
        /\ UNCHANGED <<pws, others, lead, composed>>
  /\ UNCHANGED <<inputVars, next, included, tokens>>

-----------------------------------------------------------------------------
(***************************************************************************)
(* assemble_context.                                                       *)
(***************************************************************************)
Size(i) == ranked[i].size
WithItem(i) == Size(i) + (IF tokens = 0 THEN 0 ELSE tokens + Separator)

\* Mutant: the first result that does not fit ends the block.
AfterMisfit == Len(composed) + 1

\* An item over budget is skipped, and lower-ranked ones are still tried.
AfterSkip == next + 1

AddItem ==
  LET i == composed[next] IN
  /\ phase = "assemble" /\ budget > 0 /\ next <= Len(composed)
  /\ \/ /\ Size(i) > 0 /\ WithItem(i) <= budget
        /\ tokens' = WithItem(i)
        /\ included' = Append(included, i)
        /\ next' = next + 1
     \/ /\ Size(i) > 0 /\ WithItem(i) > budget
        /\ next' = AfterSkip
        /\ UNCHANGED <<included, tokens>>
     \/ /\ Size(i) = 0
        /\ next' = next + 1
        /\ UNCHANGED <<included, tokens>>
  /\ UNCHANGED <<inputVars, phase, pws, others, lead, composed>>

Return ==
  /\ phase = "assemble" /\ (budget = 0 \/ next > Len(composed))
  /\ phase' = "done"
  /\ UNCHANGED <<inputVars, pws, others, lead, composed, next, included, tokens>>

Next == Skip \/ Compose \/ PlaceNext \/ AddItem \/ Return

Spec == Init /\ [][Next]_vars

-----------------------------------------------------------------------------
(***************************************************************************)
(* Properties.                                                             *)
(***************************************************************************)
In(s, i) == \E k \in DOMAIN s : s[k] = i

\* Greedy packing: when the block is returned, no result that was handed over and
\* left out would still fit, so one oversized result cannot empty the block
\* (assembly.py, "SKIP this item and keep trying lower-ranked ones").  It follows the
\* code and that comment; what the docstring says instead is LowestOmittedFirst.
NothingFitsLeft ==
  phase = "done" =>
    \A k \in DOMAIN composed :
      LET i == composed[k] IN
      In(included, i) \/ Size(i) = 0 \/ WithItem(i) > budget

\* What the docstring of assemble_context says: "when the budget is exhausted, remaining
\* (lower-ranked) memories are omitted", so that nothing that is left out was handed over
\* before something that is in the block.  The code does not do so.
LowestOmittedFirst ==
  phase = "done" =>
    \A j, k \in DOMAIN composed :
      j < k /\ In(included, composed[k]) =>
        In(included, composed[j]) \/ Size(composed[j]) = 0

\* composition.py, "maintaining relevance order within each": patterns and warnings
\* come in rank order, and so do the others, in every band; none comes twice.
RelevanceKept ==
  \A j, k \in DOMAIN composed :
    j < k /\ ranked[composed[j]].pw = ranked[composed[k]].pw => composed[j] < composed[k]

=============================================================================
