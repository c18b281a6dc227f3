-------------------------------- MODULE Embed --------------------------------
(***************************************************************************)
(* embed (embed.py): _pack_batches, one text a step, then one request per  *)
(* sub-batch with the one retry of _embed_request_with_one_5xx_retry.      *)
(*                                                                         *)
(* A text is its length in characters; an embedding is the index of the    *)
(* text it was computed from.                                              *)
(***************************************************************************)
EXTENDS Integers, Sequences

CONSTANTS
  Inputs,         \* the lists of texts to embed
  CharsPerToken,  \* _CHARS_PER_TOKEN
  Budget          \* settings.embed_max_batch_tokens

\* The parameters the loop is called with.
EmbedAssumption ==
  /\ Inputs \subseteq Seq(Nat)
  /\ CharsPerToken \in Nat \ {0} /\ Budget \in Nat \ {0}

\* What a request comes back with, and what embed raises for it in the end.
Outcomes == {"200", "4xx", "408/429", "5xx", "malformed", "wrong_dims", "timeout", "transport"}
Raised ==
  [o \in Outcomes \ {"200"} |->
     CASE o = "4xx" -> "EmbedRequestError"
       [] o = "wrong_dims" -> "EmbedDimensionError"
       [] o = "timeout" -> "EmbedTimeoutError"
       [] OTHER -> "EmbedServiceError"]

VARIABLES
  texts,
  next,     \* the text _pack_batches looks at
  batches,  \* sub-batches: [items, tokens]; an item is [of, chars]
  current, tokens,
  phase,    \* "pack", "send", then "returned" or the exception raised
  batch,    \* the sub-batch being sent
  retried,  \* whether this is its second attempt
  result,   \* embeddings
  log       \* history: [batch, outcome] of the requests

vars == <<texts, next, batches, current, tokens, phase, batch, retried, result, log>>
packVars == <<texts, next, batches, current, tokens>>

\* _estimate_tokens
Estimate(chars) ==
  LET up == (chars + CharsPerToken - 1) \div CharsPerToken IN IF up < 1 THEN 1 ELSE up

Init ==
  /\ texts \in Inputs
  /\ next = 1 /\ batches = <<>> /\ current = <<>> /\ tokens = 0
  /\ phase = IF texts = <<>> THEN "returned" ELSE "pack"
  /\ batch = 1 /\ retried = FALSE /\ result = <<>> /\ log = <<>>

\* Mutant: an oversized text is sent as it is.
Uncut(chars) == chars

\* An oversized text is cut to the budget.
Fitted(chars) == IF Estimate(chars) > Budget THEN Budget * CharsPerToken ELSE chars

Pack ==
  LET chars == Fitted(texts[next])
      item == [of |-> next, chars |-> chars]
      full == current # <<>> /\ tokens + Estimate(chars) > Budget
  IN
  /\ phase = "pack" /\ next <= Len(texts)
  /\ batches' = IF full THEN Append(batches, [items |-> current, tokens |-> tokens]) ELSE batches
  /\ current' = IF full THEN <<item>> ELSE Append(current, item)
  /\ tokens' = IF full THEN Estimate(chars) ELSE tokens + Estimate(chars)
  /\ next' = next + 1
  /\ UNCHANGED <<texts, phase, batch, retried, result, log>>

\* Mutant: the last, unfilled sub-batch is forgotten.
PackedFull ==
  /\ phase = "pack" /\ next > Len(texts)
  /\ phase' = "send"
  /\ UNCHANGED <<texts, next, batches, current, tokens, batch, retried, result, log>>

Packed ==
  /\ phase = "pack" /\ next > Len(texts)
  /\ batches' = IF current # <<>> THEN Append(batches, [items |-> current, tokens |-> tokens])
                ELSE batches
  /\ phase' = "send"
  /\ UNCHANGED <<texts, next, current, tokens, batch, retried, result, log>>

\* Mutant: throttling is tried again too.
RetryableBusy(o) == o \in {"5xx", "408/429"} /\ ~retried

\* Only a 5xx on the first attempt is tried again.
Retryable(o) == o = "5xx" /\ ~retried

\* A request and its answer.
Send(o) ==
  LET items == batches[batch].items IN
  /\ phase = "send" /\ batch <= Len(batches)
  /\ log' = Append(log, [batch |-> batch, outcome |-> o])
  /\ \/ /\ o = "200"
        /\ result' = result \o [k \in DOMAIN items |-> items[k].of]
        /\ batch' = batch + 1 /\ retried' = FALSE
        /\ UNCHANGED phase
     \/ /\ Retryable(o)
        /\ retried' = TRUE
        /\ UNCHANGED <<result, batch, phase>>
     \/ /\ o # "200" /\ ~Retryable(o)
        /\ phase' = Raised[o]
        /\ UNCHANGED <<result, batch, retried>>
  /\ UNCHANGED packVars

Return ==
  /\ phase = "send" /\ batch > Len(batches)
  /\ phase' = "returned"
  /\ UNCHANGED <<packVars, batch, retried, result, log>>

Next == Pack \/ Packed \/ Return \/ \E o \in Outcomes : Send(o)

Spec == Init /\ [][Next]_vars

-----------------------------------------------------------------------------
(***************************************************************************)
(* Properties.                                                             *)
(***************************************************************************)

\* "The 1-input -> 1-embedding contract": when embed returns, the k-th embedding is
\* that of the k-th text, whatever sub-batches the texts were spread over and
\* whichever of them were retried.
OneToOne == phase = "returned" => result = [k \in DOMAIN texts |-> k]

\* The summed estimate of a sub-batch.
Weight(items) ==
  LET sum[k \in 0 .. Len(items)] == IF k = 0 THEN 0 ELSE sum[k - 1] + Estimate(items[k].chars)
  IN  sum[Len(items)]

\* The texts sent together fit the budget, a truncated one included, and no request
\* is empty.
BatchWithinBudget ==
  \A b \in DOMAIN batches :
    batches[b].items # <<>> /\ Weight(batches[b].items) <= Budget

\* A sub-batch is sent again only after a 5xx, and then never a third time.
RetriesBounded ==
  \A k \in 2 .. Len(log) :
    log[k].batch = log[k - 1].batch =>
      log[k - 1].outcome = "5xx" /\ (k > 2 => log[k - 2].batch # log[k].batch)

\* What embed asks of the server: "each batch's summed estimate is <=
\* max_batch_tokens", and "the total call budget is two attempts".
RequestsBounded == BatchWithinBudget /\ RetriesBounded

=============================================================================
