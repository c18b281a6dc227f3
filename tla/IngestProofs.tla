---------------------------- MODULE IngestProofs ----------------------------
(***************************************************************************)
(* Proofs about the two loops an episode's body goes through, Chunker and  *)
(* Embed, for bodies, lists of texts, targets and budgets of any size.     *)
(***************************************************************************)
EXTENDS Loops, WellFoundedInduction, TLAPS

-----------------------------------------------------------------------------
(***************************************************************************)
(* Sequences.                                                              *)
(***************************************************************************)
LEMMA SeqFacts ==
  ASSUME NEW T, NEW s \in Seq(T)
  PROVE  /\ Len(s) \in Nat /\ DOMAIN s = 1 .. Len(s) /\ \A i \in 1 .. Len(s) : s[i] \in T
         /\ s = <<>> <=> Len(s) = 0
  OBVIOUS

LEMMA EmptyFacts == Len(<<>>) = 0 /\ \A T : <<>> \in Seq(T)
  OBVIOUS

LEMMA AppendFacts ==
  ASSUME NEW T, NEW s \in Seq(T), NEW x \in T
  PROVE  /\ Append(s, x) \in Seq(T) /\ Len(Append(s, x)) = Len(s) + 1
         /\ Append(s, x)[Len(s) + 1] = x
         /\ \A i \in 1 .. Len(s) : Append(s, x)[i] = s[i]
  OBVIOUS

LEMMA ConcatFacts ==
  ASSUME NEW T, NEW s \in Seq(T), NEW t \in Seq(T)
  PROVE  /\ s \o t \in Seq(T) /\ Len(s \o t) = Len(s) + Len(t)
         /\ \A i \in 1 .. Len(s) : (s \o t)[i] = s[i]
         /\ \A i \in 1 .. Len(t) : (s \o t)[Len(s) + i] = t[i]
  OBVIOUS

LEMMA SingletonFacts ==
  ASSUME NEW T, NEW x \in T
  PROVE  <<x>> \in Seq(T) /\ Len(<<x>>) = 1 /\ <<x>>[1] = x
  OBVIOUS

-----------------------------------------------------------------------------
(***************************************************************************)
(* Embed: the texts and their embeddings.                                  *)
(***************************************************************************)
Item == [of : Nat, chars : Nat]
Batch == [items : Seq(Item), tokens : Nat]

EmbedType ==
  /\ texts \in Seq(Nat) /\ next \in Nat /\ tokens \in Nat
  /\ batches \in Seq(Batch) /\ current \in Seq(Item)
  /\ batch \in Nat \ {0} /\ retried \in BOOLEAN /\ embedded \in Seq(Nat)

\* The last text packed into the first b sub-batches.
Upto(b) == IF b = 0 THEN 0 ELSE batches[b].items[Len(batches[b].items)].of

\* The sub-batches continue one another.
Consecutive ==
  \A b \in 1 .. Len(batches) :
    /\ Len(batches[b].items) > 0
    /\ \A k \in 1 .. Len(batches[b].items) : batches[b].items[k].of = Upto(b - 1) + k

\* Before anything is sent the texts up to next are packed; then the embeddings of the
\* sub-batches already sent are there.
EmbedProgress ==
  /\ phase = "pack" =>
       /\ next = Upto(Len(batches)) + Len(current) + 1 /\ next <= Len(texts) + 1
       /\ \A k \in 1 .. Len(current) : current[k].of = Upto(Len(batches)) + k
       /\ (next > 1 => current # <<>>) /\ batch = 1 /\ embedded = <<>>
  /\ phase = "send" =>
       /\ Upto(Len(batches)) = Len(texts)
       /\ batch <= Len(batches) + 1
       /\ Len(embedded) = Upto(batch - 1) /\ \A k \in 1 .. Len(embedded) : embedded[k] = k
  /\ phase = "returned" =>
       Len(embedded) = Len(texts) /\ \A k \in 1 .. Len(embedded) : embedded[k] = k

EmbedInv == EmbedType /\ Consecutive /\ EmbedProgress

LEMMA EstimateType ==
  ASSUME E!EmbedAssumption, NEW chars \in Nat
  PROVE  /\ E!Estimate(chars) \in Nat \ {0}
         /\ E!Fitted(chars) \in Nat /\ E!Estimate(E!Fitted(chars)) <= Budget
  <1>1. \A n \in Nat : (n + CharsPerToken - 1) \div CharsPerToken \in Int
    BY DEF E!EmbedAssumption
  <1>2. \A n \in Nat : E!Estimate(n) \in Nat \ {0}
    BY <1>1 DEF E!Estimate
  <1>3. (Budget * CharsPerToken + CharsPerToken - 1) \div CharsPerToken = Budget
    BY DEF E!EmbedAssumption
  <1>4. Budget * CharsPerToken \in Nat /\ E!Estimate(Budget * CharsPerToken) <= Budget
    BY <1>3 DEF E!EmbedAssumption, E!Estimate
  <1>5. CASE E!Estimate(chars) > Budget
    <2>1. E!Fitted(chars) = Budget * CharsPerToken
      BY <1>5 DEF E!Fitted
    <2>2. QED
      BY <1>2, <1>4, <2>1
  <1>6. CASE ~(E!Estimate(chars) > Budget)
    <2>1. E!Fitted(chars) = chars
      BY <1>6 DEF E!Fitted
    <2>2. E!Estimate(chars) <= Budget
      BY <1>2, <1>6 DEF E!EmbedAssumption
    <2>3. QED
      BY <1>2, <2>1, <2>2
  <1>7. QED
    BY <1>5, <1>6

LEMMA EmbedInit ==
  ASSUME E!EmbedAssumption, E!Init
  PROVE  EmbedInv
  <1>1. texts \in Seq(Nat)
    BY DEF E!EmbedAssumption, E!Init
  <1>2. <<>> \in Seq(Batch) /\ <<>> \in Seq(Item) /\ <<>> \in Seq(Nat) /\ Len(<<>>) = 0
    BY EmptyFacts, Zenon
  <1>a. next \in Nat /\ tokens \in Nat /\ batch \in Nat \ {0}
    BY DEF E!Init
  <1>3. EmbedType
    BY <1>1, <1>2, <1>a, Zenon DEF E!Init, EmbedType
  <1>4. Len(texts) \in Nat /\ (texts = <<>> => Len(texts) = 0)
    BY <1>1, SeqFacts
  <1>5. Consecutive /\ EmbedProgress
    BY <1>2, <1>4 DEF E!Init, Consecutive, EmbedProgress, Upto
  <1>6. QED
    BY <1>3, <1>5 DEF EmbedInv

\* A sub-batch ends with the text after those before it.
LEMMA UptoGrows ==
  ASSUME EmbedType, Consecutive
  PROVE  /\ \A b \in 0 .. Len(batches) : Upto(b) \in Nat
         /\ \A b \in 1 .. Len(batches) : Upto(b) = Upto(b - 1) + Len(batches[b].items)
  <1>1. Len(batches) \in Nat /\ \A b \in 1 .. Len(batches) : batches[b] \in Batch
    BY SeqFacts DEF EmbedType
  <1>2. ASSUME NEW b \in 1 .. Len(batches)
        PROVE  Upto(b) \in Nat /\ Upto(b) = Upto(b - 1) + Len(batches[b].items)
    <2> DEFINE items == batches[b].items
    <2>1. items \in Seq(Item)
      BY <1>1, <1>2 DEF Batch
    <2>2. Len(items) > 0 /\ \A k \in 1 .. Len(items) : items[k].of = Upto(b - 1) + k
      BY <1>2 DEF Consecutive
    <2>3. Upto(b) = items[Len(items)].of
      BY <1>1, <1>2 DEF Upto
    <2> HIDE DEF items
    <2>4. Len(items) \in 1 .. Len(items) /\ items[Len(items)] \in Item
      BY <2>1, <2>2, SeqFacts
    <2>5. QED
      BY <2>2, <2>3, <2>4 DEF Item, items
  <1>3. Upto(0) \in Nat
    BY DEF Upto
  <1>4. QED
    BY <1>1, <1>2, <1>3

\* A sub-batch is closed: its texts continue those of the sub-batches before it.
LEMMA CloseBatch ==
  ASSUME EmbedType, Consecutive, Len(current) > 0,
         \A k \in 1 .. Len(current) : current[k].of = Upto(Len(batches)) + k,
         batches' = Append(batches, [items |-> current, tokens |-> tokens])
  PROVE  /\ batches' \in Seq(Batch) /\ Len(batches') = Len(batches) + 1
         /\ Consecutive' /\ Upto(Len(batches))' = Upto(Len(batches)) + Len(current)
         /\ batches'[Len(batches) + 1] = [items |-> current, tokens |-> tokens]
         /\ \A b \in 1 .. Len(batches) : batches'[b] = batches[b]
  <1> DEFINE n == Len(batches)
             new == [items |-> current, tokens |-> tokens]
  <1>1. new \in Batch /\ new.items = current
    BY DEF EmbedType, Batch
  <1>2. n \in Nat /\ Len(current) \in Nat
    BY SeqFacts DEF EmbedType
  <1> HIDE DEF new
  <1>3. /\ batches' \in Seq(Batch) /\ Len(batches') = n + 1
        /\ batches'[n + 1] = new /\ \A b \in 1 .. n : batches'[b] = batches[b]
    BY <1>1, AppendFacts DEF EmbedType, new
  <1> HIDE DEF n
  <1>4. \A b \in 0 .. n : Upto(b)' = Upto(b)
    BY <1>2, <1>3 DEF Upto
  <1>5. Upto(Len(batches))' = current[Len(current)].of
    <2>1. Len(batches') # 0 /\ batches'[Len(batches')].items = current
      BY <1>1, <1>2, <1>3
    <2>2. QED
      BY <2>1, Zenon DEF Upto
  <1>6. Upto(Len(batches))' = Upto(n) + Len(current)
    BY <1>2, <1>5 DEF n
  <1>7. ASSUME NEW b \in 1 .. n + 1
        PROVE  /\ Len(batches'[b].items) > 0
               /\ \A k \in 1 .. Len(batches'[b].items) :
                    batches'[b].items[k].of = Upto(b - 1)' + k
    <2>1. CASE b = n + 1
      <3>1. Upto(b - 1)' = Upto(n)
        BY <1>2, <1>4, <2>1
      <3>2. batches'[b].items = current
        BY <1>1, <1>3, <2>1
      <3>3. QED
        BY <3>1, <3>2 DEF n
    <2>2. CASE b \in 1 .. n
      <3>1. Upto(b - 1)' = Upto(b - 1) /\ batches'[b] = batches[b]
        BY <1>2, <1>3, <1>4, <2>2
      <3>2. QED
        BY <2>2, <3>1 DEF Consecutive, n
    <2>3. b = n + 1 \/ b \in 1 .. n
      BY <1>2
    <2>4. QED
      BY <2>1, <2>2, <2>3, Zenon
  <1>8. Consecutive'
    BY <1>3, <1>7 DEF Consecutive
  <1>9. QED
    BY <1>3, <1>6, <1>8 DEF n, new

\* What has been packed depends on the sub-batches only.
LEMMA SameBatches ==
  ASSUME UNCHANGED batches
  PROVE  Consecutive' = Consecutive /\ \A b : Upto(b)' = Upto(b)
  BY DEF Consecutive, Upto

LEMMA PackStep ==
  ASSUME E!EmbedAssumption, EmbedInv, E!Pack
  PROVE  EmbedInv'
  <1> DEFINE chars == E!Fitted(texts[next])
             item == [of |-> next, chars |-> chars]
             full == current # <<>> /\ tokens + E!Estimate(chars) > Budget
             u == Upto(Len(batches))
  <1>1. /\ phase = "pack" /\ phase' = "pack" /\ next <= Len(texts) /\ next' = next + 1
        /\ UNCHANGED <<texts, batch, retried, embedded>>
        /\ batches' = IF full THEN Append(batches, [items |-> current, tokens |-> tokens])
                      ELSE batches
        /\ current' = IF full THEN <<item>> ELSE Append(current, item)
        /\ tokens' = IF full THEN E!Estimate(chars) ELSE tokens + E!Estimate(chars)
    BY DEF E!Pack
  <1>2. /\ next = u + Len(current) + 1 /\ batch = 1 /\ embedded = <<>>
        /\ \A k \in 1 .. Len(current) : current[k].of = u + k
    BY <1>1 DEF EmbedInv, EmbedProgress
  <1>3. /\ Len(batches) \in Nat /\ Len(current) \in Nat /\ Len(texts) \in Nat
        /\ current # <<>> => Len(current) > 0
    BY SeqFacts DEF EmbedInv, EmbedType
  <1>4. u \in Nat
    BY <1>3, UptoGrows DEF EmbedInv
  <1>5. next \in 1 .. Len(texts)
    BY <1>1, <1>2, <1>3, <1>4
  <1>6. texts[next] \in Nat
    BY <1>5, SeqFacts DEF EmbedInv, EmbedType
  <1>7. chars \in Nat /\ E!Estimate(chars) \in Nat
    BY <1>6, EstimateType
  <1> HIDE DEF chars, u
  <1>8. item \in Item /\ item.of = next
    BY <1>5, <1>7 DEF Item
  <1> HIDE DEF item
  <1>9. CASE full
    <2>1. /\ batches' \in Seq(Batch) /\ Consecutive'
          /\ Upto(Len(batches))' = u + Len(current)
      BY <1>1, <1>2, <1>3, <1>9, CloseBatch DEF EmbedInv, u
    <2>2. current' \in Seq(Item) /\ Len(current') = 1 /\ current'[1] = item
      BY <1>1, <1>8, <1>9, SingletonFacts
    <2>3. EmbedType'
      BY <1>1, <1>5, <1>7, <1>9, <2>1, <2>2 DEF EmbedInv, EmbedType
    <2>4. next' = Upto(Len(batches))' + Len(current') + 1 /\ next' <= Len(texts') + 1
      BY <1>1, <1>2, <1>3, <1>4, <2>1, <2>2
    <2>5. \A k \in 1 .. Len(current') : current'[k].of = Upto(Len(batches))' + k
      BY <1>2, <1>3, <1>4, <1>8, <2>1, <2>2
    <2>6. current' # <<>>
      <3>1. Len(current') # 0
        BY <2>2
      <3>2. QED
        BY <3>1, EmptyFacts, Zenon
    <2>7. EmbedProgress'
      BY <1>1, <1>2, <2>4, <2>5, <2>6 DEF EmbedProgress
    <2>8. QED
      BY <2>1, <2>3, <2>7 DEF EmbedInv
  <1>10. CASE ~full
    <2>1. /\ current' \in Seq(Item) /\ Len(current') = Len(current) + 1
          /\ current'[Len(current) + 1] = item
          /\ \A k \in 1 .. Len(current) : current'[k] = current[k]
      BY <1>1, <1>8, <1>10, AppendFacts DEF EmbedInv, EmbedType
    <2>2. batches' = batches /\ tokens' = tokens + E!Estimate(chars)
      BY <1>1, <1>10
    <2>3. EmbedType'
      BY <1>1, <1>5, <1>7, <2>1, <2>2, SMTT(30) DEF EmbedInv, EmbedType
    <2>4. Consecutive' /\ Upto(Len(batches))' = u
      BY <2>2, SameBatches DEF EmbedInv, u
    <2>a. Len(texts') = Len(texts) /\ next' = next + 1 /\ next <= Len(texts)
      BY <1>1, Zenon
    <2>5. next' = Upto(Len(batches))' + Len(current') + 1 /\ next' <= Len(texts') + 1
      BY <1>2, <1>3, <1>4, <2>1, <2>4, <2>a
    <2>6. \A k \in 1 .. Len(current') : current'[k].of = Upto(Len(batches))' + k
      <3> SUFFICES ASSUME NEW k \in 1 .. Len(current') PROVE current'[k].of = u + k
        BY <2>4
      <3>1. CASE k = Len(current) + 1
        <4>1. current'[k] = item
          BY <2>1, <3>1, Zenon
        <4>2. QED
          BY <1>2, <1>3, <1>4, <1>8, <3>1, <4>1
      <3>2. CASE k \in 1 .. Len(current)
        BY <1>2, <2>1, <3>2, Zenon
      <3>3. k = Len(current) + 1 \/ k \in 1 .. Len(current)
        BY <1>3, <2>1
      <3>4. QED
        BY <3>1, <3>2, <3>3, Zenon
    <2>7. current' # <<>>
      BY <1>3, <2>1, SeqFacts
    <2>8. EmbedProgress'
      BY <1>1, <1>2, <2>5, <2>6, <2>7 DEF EmbedProgress
    <2>9. QED
      BY <2>3, <2>4, <2>8 DEF EmbedInv
  <1>11. QED
    BY <1>9, <1>10

LEMMA PackedStep ==
  ASSUME EmbedInv, E!Packed
  PROVE  EmbedInv'
  <1> DEFINE u == Upto(Len(batches))
  <1>1. /\ phase = "pack" /\ next > Len(texts) /\ phase' = "send"
        /\ UNCHANGED <<texts, next, current, tokens, batch, retried, embedded>>
        /\ batches' = IF current # <<>>
                        THEN Append(batches, [items |-> current, tokens |-> tokens])
                        ELSE batches
    BY DEF E!Packed
  <1>2. /\ next = u + Len(current) + 1 /\ next <= Len(texts) + 1 /\ batch = 1 /\ embedded = <<>>
        /\ \A k \in 1 .. Len(current) : current[k].of = u + k
    BY <1>1 DEF EmbedInv, EmbedProgress
  <1>3. /\ Len(batches) \in Nat /\ Len(current) \in Nat /\ Len(texts) \in Nat
        /\ current = <<>> <=> Len(current) = 0
    BY SeqFacts DEF EmbedInv, EmbedType
  <1>4. u \in Nat
    BY <1>3, UptoGrows DEF EmbedInv
  <1>5. u + Len(current) = Len(texts)
    BY <1>1, <1>2, <1>3, <1>4
  <1>6. /\ batches' \in Seq(Batch) /\ Consecutive' /\ Upto(Len(batches))' = Len(texts)
    <2>1. CASE current # <<>>
      <3>1. Len(current) > 0
        BY <1>3, <2>1
      <3>2. /\ batches' \in Seq(Batch) /\ Consecutive'
            /\ Upto(Len(batches))' = u + Len(current)
        BY <1>1, <1>2, <2>1, <3>1, CloseBatch DEF EmbedInv
      <3>3. QED
        BY <1>5, <3>2, Zenon
    <2>2. CASE current = <<>>
      <3>1. batches' = batches /\ u = Len(texts)
        BY <1>1, <1>3, <1>4, <1>5, <2>2
      <3>2. QED
        BY <3>1, SameBatches DEF EmbedInv, EmbedType
    <2>3. QED
      BY <2>1, <2>2, Zenon
  <1> HIDE DEF u
  <1>7. EmbedType'
    BY <1>1, <1>6, Zenon DEF EmbedInv, EmbedType
  <1>8. Len(batches') \in Nat
    BY <1>6, SeqFacts
  <1>9. /\ batch' <= Len(batches') + 1 /\ batch' - 1 = 0
    BY <1>1, <1>2, <1>8
  <1>10. Upto(batch - 1)' = 0
    BY <1>9, Zenon DEF Upto
  <1>11. Len(embedded') = 0 /\ \A k \in 1 .. Len(embedded') : embedded'[k] = k
    BY <1>1, <1>2, EmptyFacts
  <1>12. Len(texts') = Len(texts)
    BY <1>1, Zenon
  <1>13. EmbedProgress'
    BY <1>1, <1>6, <1>9, <1>10, <1>11, <1>12 DEF EmbedProgress
  <1>14. QED
    BY <1>6, <1>7, <1>13 DEF EmbedInv

\* A request: the embeddings of the sub-batch follow those that are there.
LEMMA SendStep ==
  ASSUME EmbedInv, NEW o \in E!Outcomes, E!Send(o)
  PROVE  EmbedInv'
  <1> DEFINE items == batches[batch].items
             more == [k \in DOMAIN items |-> items[k].of]
  <1>1. /\ phase = "send" /\ batch <= Len(batches)
        /\ UNCHANGED <<texts, next, batches, current, tokens>>
    BY DEF E!Send, E!packVars
  <1>2. /\ Upto(Len(batches)) = Len(texts) /\ Len(embedded) = Upto(batch - 1)
        /\ \A k \in 1 .. Len(embedded) : embedded[k] = k
    BY <1>1 DEF EmbedInv, EmbedProgress
  <1>3. Consecutive' /\ \A b : Upto(b)' = Upto(b)
    BY <1>1, SameBatches DEF EmbedInv
  <1>4. CASE UNCHANGED <<embedded, batch>> /\ retried' \in BOOLEAN /\ phase' # "returned"
             /\ phase' # "pack"
    <2>1. EmbedType'
      BY <1>1, <1>4 DEF EmbedInv, EmbedType
    <2>2. Upto(Len(batches))' = Upto(Len(batches)) /\ Upto(batch - 1)' = Upto(batch - 1)
      BY <1>1, <1>4, Zenon DEF Upto
    <2>3. EmbedProgress'
      BY <1>1, <1>2, <1>4, <2>2 DEF EmbedInv, EmbedProgress
    <2>4. QED
      BY <1>3, <2>1, <2>3 DEF EmbedInv
  <1>5. CASE /\ embedded' = embedded \o more /\ batch' = batch + 1 /\ retried' = FALSE
             /\ phase' = phase
    <2>1. batch \in 1 .. Len(batches) /\ Len(batches) \in Nat
      BY <1>1, SeqFacts DEF EmbedInv, EmbedType
    <2>a. batches[batch] \in Batch
      BY <2>1, SeqFacts DEF EmbedInv, EmbedType
    <2>2. items \in Seq(Item)
      BY <2>a, Zenon DEF Batch
    <2>3. /\ \A k \in 1 .. Len(items) : items[k].of = Upto(batch - 1) + k
          /\ Upto(batch) = Upto(batch - 1) + Len(items) /\ Upto(batch - 1) \in Nat
      <3>1. batch - 1 \in 0 .. Len(batches)
        BY <2>1
      <3>2. QED
        BY <2>1, <3>1, UptoGrows DEF EmbedInv, Consecutive
    <2> HIDE DEF items
    <2>4. /\ Len(items) \in Nat /\ DOMAIN items = 1 .. Len(items)
          /\ \A k \in 1 .. Len(items) : items[k].of \in Nat
      <3>1. /\ Len(items) \in Nat /\ DOMAIN items = 1 .. Len(items)
            /\ \A k \in 1 .. Len(items) : items[k] \in Item
        BY <2>2, SeqFacts
      <3>2. QED
        BY <3>1 DEF Item
    <2>5. more \in Seq(Nat) /\ Len(more) = Len(items)
          /\ \A k \in 1 .. Len(items) : more[k] = items[k].of
      BY <2>4
    <2> HIDE DEF more
    <2>6. /\ embedded' \in Seq(Nat) /\ Len(embedded') = Len(embedded) + Len(more)
          /\ \A k \in 1 .. Len(embedded) : embedded'[k] = embedded[k]
          /\ \A k \in 1 .. Len(more) : embedded'[Len(embedded) + k] = more[k]
      <3>1. embedded \in Seq(Nat) /\ more \in Seq(Nat)
        BY <2>5 DEF EmbedInv, EmbedType
      <3>2. /\ embedded \o more \in Seq(Nat) /\ Len(embedded \o more) = Len(embedded) + Len(more)
            /\ \A k \in 1 .. Len(embedded) : (embedded \o more)[k] = embedded[k]
            /\ \A k \in 1 .. Len(more) : (embedded \o more)[Len(embedded) + k] = more[k]
        BY <3>1, ConcatFacts
      <3>3. QED
        BY <1>5, <3>2, Zenon
    <2>7. Len(embedded) \in Nat /\ Len(embedded') = Upto(batch)
      BY <1>2, <2>3, <2>5, <2>6
    <2>8. ASSUME NEW k \in 1 .. Len(embedded') PROVE embedded'[k] = k
      <3>1. CASE k \in 1 .. Len(embedded)
        BY <1>2, <2>6, <3>1, Zenon
      <3>2. CASE k \notin 1 .. Len(embedded)
        <4>1. k - Len(embedded) \in 1 .. Len(more) /\ Len(embedded) + (k - Len(embedded)) = k
          BY <2>4, <2>5, <2>6, <2>7, <3>2
        <4>2. embedded'[k] = more[k - Len(embedded)]
          BY <2>6, <4>1
        <4>3. more[k - Len(embedded)] = Upto(batch - 1) + (k - Len(embedded))
          BY <2>3, <2>5, <4>1
        <4>4. QED
          BY <1>2, <2>3, <2>7, <4>1, <4>2, <4>3
      <3>3. QED
        BY <3>1, <3>2, Zenon
    <2>9. batch' \in Nat \ {0} /\ batch' <= Len(batches) + 1 /\ batch' - 1 = batch
      BY <1>5, <2>1
    <2>10. EmbedType'
      BY <1>1, <1>5, <2>6, <2>9 DEF EmbedInv, EmbedType
    <2>11. Upto(Len(batches))' = Upto(Len(batches)) /\ Upto(batch - 1)' = Upto(batch)
      BY <1>1, <2>9, Zenon DEF Upto
    <2>12. EmbedProgress'
      BY <1>1, <1>2, <1>5, <2>7, <2>8, <2>9, <2>11 DEF EmbedProgress
    <2>13. QED
      BY <1>3, <2>10, <2>12 DEF EmbedInv
  <1>6. QED
    <2>1. \A x \in E!Outcomes \ {"200"} : E!Raised[x] # "returned" /\ E!Raised[x] # "pack"
      BY DEF E!Raised
    <2>2. retried \in BOOLEAN
      BY DEF EmbedInv, EmbedType
    <2>3. \/ embedded' = embedded \o more /\ batch' = batch + 1 /\ retried' = FALSE /\ phase' = phase
          \/ UNCHANGED <<embedded, batch>> /\ retried' = TRUE /\ phase' = phase
          \/ UNCHANGED <<embedded, batch, retried>> /\ phase' = E!Raised[o] /\ o # "200"
      BY DEF E!Send
    <2> HIDE DEF more
    <2>4. QED
      BY <1>1, <1>4, <1>5, <2>1, <2>2, <2>3

LEMMA EmbedReturnStep ==
  ASSUME EmbedInv, E!Return
  PROVE  EmbedInv'
  <1>1. /\ phase = "send" /\ batch > Len(batches) /\ phase' = "returned"
        /\ UNCHANGED <<texts, next, batches, current, tokens, batch, retried, embedded>>
    BY DEF E!Return, E!packVars
  <1>2. Consecutive'
    BY <1>1, SameBatches DEF EmbedInv
  <1>3. EmbedType'
    BY <1>1 DEF EmbedInv, EmbedType
  <1>4. Len(batches) \in Nat /\ batch \in Nat
    BY SeqFacts DEF EmbedInv, EmbedType
  <1>5. batch - 1 = Len(batches)
    BY <1>1, <1>4 DEF EmbedInv, EmbedProgress
  <1>6. EmbedProgress'
    BY <1>1, <1>5 DEF EmbedInv, EmbedProgress
  <1>7. QED
    BY <1>2, <1>3, <1>6 DEF EmbedInv

LEMMA EmbedNext ==
  ASSUME E!EmbedAssumption, EmbedInv, [E!Next]_E!vars
  PROVE  EmbedInv'
  <1>1. CASE UNCHANGED E!vars
    BY <1>1, SameBatches DEF E!vars, EmbedInv, EmbedType, EmbedProgress, Consecutive, Upto
  <1>2. QED
    BY <1>1, PackStep, PackedStep, SendStep, EmbedReturnStep DEF E!Next

\* embed.py, "the 1-input -> 1-embedding contract": for any number of texts of any length,
\* however they are packed and whichever requests are retried, embed returns one embedding
\* for each text, in order.
THEOREM EmbeddingsAreInOrder == E!Spec => []OneToOne
  <1>0. E!EmbedAssumption
    BY LoopAssumption
  <1> USE <1>0
  <1>1. EmbedInv => E!OneToOne
    <2> SUFFICES ASSUME EmbedInv, phase = "returned"
                 PROVE  embedded = [k \in DOMAIN texts |-> k]
      BY DEF E!OneToOne
    <2>1. Len(embedded) = Len(texts) /\ \A k \in 1 .. Len(embedded) : embedded[k] = k
      BY DEF EmbedInv, EmbedProgress
    <2>2. embedded \in Seq(Nat) /\ DOMAIN texts = 1 .. Len(texts)
      BY SeqFacts DEF EmbedInv, EmbedType
    <2>3. QED
      BY <2>1, <2>2
  <1>2. E!Init => EmbedInv
    BY EmbedInit
  <1>3. EmbedInv /\ [E!Next]_E!vars => EmbedInv'
    BY EmbedNext
  <1>4. QED
    BY <1>1, <1>2, <1>3, PTL DEF E!Spec, OneToOne

-----------------------------------------------------------------------------
(***************************************************************************)
(* Embed: the requests.                                                    *)
(***************************************************************************)
\* The running sums of the estimates of items.
Sums(items, f) ==
  f = [k \in 0 .. Len(items) |-> IF k = 0 THEN 0 ELSE f[k - 1] + E!Estimate(items[k].chars)]

\* There is only one such function: at the least k where two differed they would agree.
LEMMA SumsAreUnique ==
  ASSUME NEW items, Len(items) \in Nat, NEW f, NEW g, Sums(items, f), Sums(items, g)
  PROVE  f = g
  <1> DEFINE n == Len(items)
             T == {k \in 0 .. n : f[k] # g[k]}
             w(k) == E!Estimate(items[k].chars)
  <1>1. /\ f = [k \in 0 .. n |-> IF k = 0 THEN 0 ELSE f[k - 1] + w(k)]
        /\ g = [k \in 0 .. n |-> IF k = 0 THEN 0 ELSE g[k - 1] + w(k)]
    BY Zenon DEF Sums
  <1> HIDE DEF w, n
  <1>2. T = {}
    <2> SUFFICES ASSUME T # {} PROVE FALSE
      OBVIOUS
    <2>1. T \subseteq Nat
      BY DEF n
    <2>2. PICK k \in T : \A j \in T : ~(<<j, k>> \in OpToRel(<, Nat))
      <3> HIDE DEF T
      <3> QED
        BY <2>1, WFMin, NatLessThanWellFounded
    <2>3. \A j \in T : ~(j < k)
      BY <2>1, <2>2 DEF OpToRel
    <2>4. k \in 0 .. n /\ f[k] # g[k]
      BY <2>2
    <2>5. CASE k = 0
      BY <1>1, <2>4, <2>5
    <2>6. CASE k # 0
      <3>1. k - 1 \in 0 .. n /\ k - 1 \notin T
        BY <2>3, <2>4, <2>6 DEF n
      <3>2. f[k - 1] = g[k - 1]
        BY <3>1
      <3>3. f[k] = f[k - 1] + w(k) /\ g[k] = g[k - 1] + w(k)
        BY <1>1, <2>4, <2>6
      <3>4. QED
        BY <2>4, <3>2, <3>3
    <2>7. QED
      BY <2>5, <2>6
  <1>3. \A k \in 0 .. n : f[k] = g[k]
    BY <1>2
  <1>4. QED
    BY <1>1, <1>3

\* What Weight computes is the last of the running sums.
LEMMA WeightIsSum ==
  ASSUME NEW items, Len(items) \in Nat, NEW f, Sums(items, f)
  PROVE  E!Weight(items) = f[Len(items)]
  <1> DEFINE h == CHOOSE g : Sums(items, g)
  <1>1. Sums(items, h)
    BY Zenon
  <1> HIDE DEF h
  <1>2. h = f
    BY <1>1, SumsAreUnique
  <1>3. E!Weight(items) = h[Len(items)]
    BY DEF E!Weight, h, Sums
  <1>4. QED
    BY <1>2, <1>3

\* One more item.
LEMMA SumsExtend ==
  ASSUME NEW items \in Seq(Item), NEW x \in Item, NEW f, Sums(items, f)
  PROVE  \E g : /\ Sums(Append(items, x), g)
                /\ g[Len(items) + 1] = f[Len(items)] + E!Estimate(x.chars)
  <1> DEFINE n == Len(items)
             longer == Append(items, x)
             w(i, k) == E!Estimate(i[k].chars)
             g == [k \in 0 .. n + 1 |-> IF k = n + 1 THEN f[n] + E!Estimate(x.chars) ELSE f[k]]
  <1>1. /\ n \in Nat /\ Len(longer) = n + 1 /\ longer[n + 1] = x
        /\ \A k \in 1 .. n : longer[k] = items[k]
    BY SeqFacts, AppendFacts
  <1>2. f = [k \in 0 .. n |-> IF k = 0 THEN 0 ELSE f[k - 1] + w(items, k)]
    BY Zenon DEF Sums
  <1> HIDE DEF longer, n
  <1>3. \A k \in 1 .. n : w(longer, k) = w(items, k)
    BY <1>1
  <1>4. w(longer, n + 1) = E!Estimate(x.chars)
    BY <1>1
  <1> HIDE DEF w
  <1>5. \A k \in 0 .. n + 1 : g[k] = IF k = 0 THEN 0 ELSE g[k - 1] + w(longer, k)
    BY <1>1, <1>2, <1>3, <1>4
  <1>6. g = [k \in 0 .. n + 1 |-> IF k = 0 THEN 0 ELSE g[k - 1] + w(longer, k)]
    BY <1>5
  <1>7. g[n + 1] = f[n] + E!Estimate(x.chars)
    BY <1>1
  <1> HIDE DEF g
  <1>8. Sums(longer, g)
    BY <1>1, <1>6, Zenon DEF Sums, w
  <1>9. QED
    BY <1>7, <1>8 DEF longer, n

\* tokens, in the loop and in a sub-batch, is the summed estimate, and fits the budget.
Weighs(items, n) == n <= Budget /\ \E f : Sums(items, f) /\ f[Len(items)] = n
BudgetOK ==
  /\ \A b \in 1 .. Len(batches) : Weighs(batches[b].items, batches[b].tokens)
  /\ phase = "pack" => Weighs(current, tokens)

LEMMA NothingWeighs ==
  ASSUME E!EmbedAssumption
  PROVE  Weighs(<<>>, 0)
  <1> DEFINE g == [k \in {0} |-> 0]
  <1>1. 0 .. Len(<<>>) = {0}
    BY EmptyFacts
  <1>2. g = [k \in 0 .. Len(<<>>) |-> IF k = 0 THEN 0 ELSE g[k - 1] + E!Estimate(<<>>[k].chars)]
    BY <1>1
  <1>3. g[Len(<<>>)] = 0
    BY EmptyFacts
  <1> HIDE DEF g
  <1>4. Sums(<<>>, g)
    BY <1>2, Zenon DEF Sums
  <1>5. 0 <= Budget
    BY DEF E!EmbedAssumption
  <1>6. \E f : Sums(<<>>, f) /\ f[Len(<<>>)] = 0
    <2> WITNESS g
    <2> QED
      BY <1>3, <1>4
  <1>7. QED
    BY <1>5, <1>6 DEF Weighs

LEMMA OneMoreWeighs ==
  ASSUME NEW items \in Seq(Item), NEW n, Weighs(items, n), NEW x \in Item,
         n + E!Estimate(x.chars) <= Budget
  PROVE  Weighs(Append(items, x), n + E!Estimate(x.chars))
  <1>1. PICK f : Sums(items, f) /\ f[Len(items)] = n
    BY Zenon DEF Weighs
  <1>2. PICK g : /\ Sums(Append(items, x), g)
                 /\ g[Len(items) + 1] = n + E!Estimate(x.chars)
    BY <1>1, SumsExtend
  <1>3. Len(Append(items, x)) = Len(items) + 1
    BY AppendFacts
  <1>4. QED
    BY <1>2, <1>3, Zenon DEF Weighs

LEMMA PackBudget ==
  ASSUME E!EmbedAssumption, EmbedInv, BudgetOK, E!Pack
  PROVE  BudgetOK'
  <1> DEFINE chars == E!Fitted(texts[next])
             item == [of |-> next, chars |-> chars]
             full == current # <<>> /\ tokens + E!Estimate(chars) > Budget
  <1>1. /\ phase = "pack" /\ next <= Len(texts)
        /\ batches' = IF full THEN Append(batches, [items |-> current, tokens |-> tokens])
                      ELSE batches
        /\ current' = IF full THEN <<item>> ELSE Append(current, item)
        /\ tokens' = IF full THEN E!Estimate(chars) ELSE tokens + E!Estimate(chars)
    BY DEF E!Pack
  <1>2. Weighs(current, tokens) /\ tokens \in Nat
    BY <1>1 DEF BudgetOK, EmbedInv, EmbedType
  <1>3. next \in 1 .. Len(texts)
    <2>1. Upto(Len(batches)) \in Nat
      BY SeqFacts, UptoGrows DEF EmbedInv, EmbedType
    <2>2. Len(current) \in Nat /\ Len(texts) \in Nat
      BY SeqFacts DEF EmbedInv, EmbedType
    <2>3. QED
      BY <1>1, <2>1, <2>2 DEF EmbedInv, EmbedProgress
  <1>4. texts[next] \in Nat
    BY <1>3, SeqFacts DEF EmbedInv, EmbedType
  <1>5. chars \in Nat /\ E!Estimate(chars) \in Nat /\ E!Estimate(chars) <= Budget
    BY <1>4, EstimateType
  <1> HIDE DEF chars
  <1>6. item \in Item /\ item.chars = chars
    BY <1>3, <1>5 DEF Item
  <1> HIDE DEF item
  <1>7. current \in Seq(Item) /\ <<>> \in Seq(Item) /\ batches \in Seq(Batch)
    BY EmptyFacts DEF EmbedInv, EmbedType
  <1>8. Weighs(current', tokens')
    <2>1. CASE full
      <3>1. current' = Append(<<>>, item) /\ tokens' = 0 + E!Estimate(item.chars)
        BY <1>1, <1>5, <1>6, <2>1
      <3>2. 0 + E!Estimate(item.chars) <= Budget
        BY <1>5, <1>6
      <3>3. Weighs(Append(<<>>, item), 0 + E!Estimate(item.chars))
        BY <1>6, <1>7, <3>2, NothingWeighs, OneMoreWeighs
      <3>4. QED
        BY <3>1, <3>3, Zenon
    <2>2. CASE ~full
      <3>1. tokens + E!Estimate(item.chars) <= Budget
        <4>1. CASE current = <<>>
          <5>1. PICK f : Sums(current, f) /\ f[Len(current)] = tokens
            BY <1>2, Zenon DEF Weighs
          <5>2. Len(current) = 0
            BY <4>1, EmptyFacts, Zenon
          <5>3. f = [k \in 0 .. Len(current) |->
                       IF k = 0 THEN 0 ELSE f[k - 1] + E!Estimate(current[k].chars)]
            BY <5>1, Zenon DEF Sums
          <5>4. f[0] = 0
            BY <5>2, <5>3
          <5>5. QED
            BY <1>5, <1>6, <5>1, <5>2, <5>4
        <4>2. CASE current # <<>>
          BY <1>2, <1>5, <1>6, <2>2, <4>2 DEF E!EmbedAssumption
        <4>3. QED
          BY <4>1, <4>2, Zenon
      <3>2. Weighs(Append(current, item), tokens + E!Estimate(item.chars))
        BY <1>2, <1>6, <1>7, <3>1, OneMoreWeighs
      <3>3. current' = Append(current, item) /\ tokens' = tokens + E!Estimate(item.chars)
        BY <1>1, <1>6, <2>2
      <3>4. QED
        BY <3>2, <3>3, Zenon
    <2>3. QED
      BY <2>1, <2>2, Zenon
  <1>9. \A b \in 1 .. Len(batches') : Weighs(batches'[b].items, batches'[b].tokens)
    <2>1. CASE full
      <3> DEFINE new == [items |-> current, tokens |-> tokens]
      <3>1. new \in Batch /\ new.items = current /\ new.tokens = tokens
        BY <1>2, <1>7 DEF Batch
      <3>2. batches' = Append(batches, new)
        BY <1>1, <2>1, Zenon
      <3> HIDE DEF new
      <3>3. /\ Len(batches') = Len(batches) + 1 /\ batches'[Len(batches) + 1] = new
            /\ \A b \in 1 .. Len(batches) : batches'[b] = batches[b]
        BY <1>7, <3>1, <3>2, AppendFacts
      <3>4. Len(batches) \in Nat
        BY <1>7, SeqFacts
      <3>5. \A b \in 1 .. Len(batches') : b = Len(batches) + 1 \/ b \in 1 .. Len(batches)
        BY <3>3, <3>4
      <3>6. QED
        BY <1>2, <3>1, <3>3, <3>5, Zenon DEF BudgetOK
    <2>2. CASE ~full
      <3>1. batches' = batches
        BY <1>1, <2>2, Zenon
      <3>2. QED
        BY <3>1, Zenon DEF BudgetOK
    <2>3. QED
      BY <2>1, <2>2, Zenon
  <1>10. QED
    BY <1>8, <1>9, Zenon DEF BudgetOK

LEMMA PackedBudget ==
  ASSUME EmbedInv, BudgetOK, E!Packed
  PROVE  BudgetOK'
  <1> DEFINE new == [items |-> current, tokens |-> tokens]
  <1>1. /\ phase = "pack" /\ phase' = "send"
        /\ batches' = IF current # <<>> THEN Append(batches, new) ELSE batches
    BY DEF E!Packed
  <1>2. Weighs(current, tokens) /\ new.items = current /\ new.tokens = tokens /\ new \in Batch
    BY <1>1 DEF BudgetOK, EmbedInv, EmbedType, Batch
  <1>3. batches \in Seq(Batch) /\ Len(batches) \in Nat
    BY SeqFacts DEF EmbedInv, EmbedType
  <1> HIDE DEF new
  <1>4. CASE batches' = Append(batches, new)
    <2>1. /\ Len(batches') = Len(batches) + 1 /\ batches'[Len(batches) + 1] = new
          /\ \A b \in 1 .. Len(batches) : batches'[b] = batches[b]
      BY <1>2, <1>3, <1>4, AppendFacts
    <2>2. \A b \in 1 .. Len(batches') : b = Len(batches) + 1 \/ b \in 1 .. Len(batches)
      BY <1>3, <2>1
    <2>3. \A b \in 1 .. Len(batches') : Weighs(batches'[b].items, batches'[b].tokens)
      BY <1>2, <2>1, <2>2, Zenon DEF BudgetOK
    <2>4. QED
      BY <1>1, <2>3 DEF BudgetOK
  <1>5. CASE batches' = batches
    BY <1>1, <1>5 DEF BudgetOK
  <1>6. QED
    BY <1>1, <1>4, <1>5, Zenon

\* The last request was for an earlier sub-batch, or for this one, answered by a 5xx and
\* the first for it.
LogOK ==
  /\ log \in Seq([batch : Nat, outcome : E!Outcomes])
  /\ phase = "pack" => Len(log) = 0
  /\ phase = "send" /\ Len(log) > 0 =>
       /\ ~retried => log[Len(log)].batch # batch
       /\ log[Len(log)].batch = batch =>
            /\ log[Len(log)].outcome = "5xx"
            /\ Len(log) > 1 => log[Len(log) - 1].batch # batch
  /\ E!RetriesBounded

LEMMA SendLog ==
  ASSUME EmbedInv, LogOK, NEW o \in E!Outcomes, E!Send(o)
  PROVE  LogOK'
  <1> DEFINE n == Len(log)
             new == [batch |-> batch, outcome |-> o]
             Entry == [batch : Nat, outcome : E!Outcomes]
  <1>1. log' = Append(log, new) /\ phase = "send"
    BY DEF E!Send
  <1>2. new \in Entry /\ new.batch = batch /\ new.outcome = o
    BY DEF EmbedInv, EmbedType
  <1> HIDE DEF new, Entry
  <1>3. n \in Nat /\ log \in Seq(Entry)
    BY SeqFacts DEF LogOK, Entry
  <1>4. /\ log' \in Seq(Entry) /\ Len(log') = n + 1 /\ log'[n + 1] = new
        /\ \A k \in 1 .. n : log'[k] = log[k]
    BY <1>1, <1>2, <1>3, AppendFacts
  <1> HIDE DEF n
  <1>5. n > 0 => /\ ~retried => log[n].batch # batch
                 /\ log[n].batch = batch =>
                      /\ log[n].outcome = "5xx"
                      /\ n > 1 => log[n - 1].batch # batch
    BY <1>1 DEF LogOK, n
  <1>6. ASSUME NEW k \in 2 .. Len(log'), log'[k].batch = log'[k - 1].batch
        PROVE  log'[k - 1].outcome = "5xx" /\ (k > 2 => log'[k - 2].batch # log'[k].batch)
    <2>1. k \in 2 .. n + 1
      BY <1>4
    <2>2. CASE k = n + 1
      <3>1. n > 0 /\ k - 1 = n /\ n \in 1 .. n /\ (n > 1 => k - 2 = n - 1 /\ n - 1 \in 1 .. n)
            /\ (k > 2 => n > 1)
        BY <1>3, <2>1, <2>2
      <3>2. log'[k].batch = batch /\ log'[k - 1] = log[n]
        BY <1>2, <1>4, <2>2, <3>1
      <3>3. n > 1 => log'[k - 2] = log[n - 1]
        BY <1>4, <3>1
      <3>4. log[n].batch = batch
        BY <1>6, <3>2
      <3>5. QED
        BY <1>5, <3>1, <3>2, <3>3, <3>4
    <2>3. CASE k \in 2 .. n
      <3>1. k \in 1 .. n /\ k - 1 \in 1 .. n /\ (k > 2 => k - 2 \in 1 .. n)
        BY <1>3, <2>3
      <3>2. log'[k] = log[k] /\ log'[k - 1] = log[k - 1] /\ (k > 2 => log'[k - 2] = log[k - 2])
        BY <1>4, <3>1
      <3>3. QED
        BY <1>6, <2>3, <3>2 DEF LogOK, E!RetriesBounded, n
    <2>4. k = n + 1 \/ k \in 2 .. n
      BY <1>3, <2>1
    <2>5. QED
      BY <2>2, <2>3, <2>4, Zenon
  <1>7. E!RetriesBounded'
    BY <1>6 DEF E!RetriesBounded
  <1>8. \/ batch' = batch + 1 /\ phase' = "send"
        \/ batch' = batch /\ ~retried /\ retried' = TRUE /\ o = "5xx" /\ phase' = "send"
        \/ phase' = E!Raised[o] /\ o # "200"
    BY <1>1 DEF E!Send, E!Retryable
  <1>9. phase' # "pack" /\ (phase' = "send" =>
          \/ batch' = batch + 1
          \/ batch' = batch /\ ~retried /\ retried' = TRUE /\ o = "5xx")
    <2>1. \A x \in E!Outcomes \ {"200"} : E!Raised[x] # "send" /\ E!Raised[x] # "pack"
      BY DEF E!Raised
    <2>2. QED
      BY <1>8, <2>1
  <1>10. Len(log') - 1 = n /\ log'[Len(log')] = new
    BY <1>3, <1>4
  <1>11. ASSUME phase' = "send", Len(log') > 0
         PROVE  /\ ~retried' => log'[Len(log')].batch # batch'
                /\ log'[Len(log')].batch = batch' =>
                     /\ log'[Len(log')].outcome = "5xx"
                     /\ Len(log') > 1 => log'[Len(log') - 1].batch # batch'
    <2>1. CASE batch' = batch + 1
      BY <1>2, <1>10, <2>1 DEF EmbedInv, EmbedType
    <2>2. CASE batch' = batch /\ ~retried /\ retried' = TRUE /\ o = "5xx"
      <3>1. Len(log') > 1 => log'[Len(log') - 1] = log[n] /\ n > 0
        BY <1>3, <1>4
      <3>2. QED
        BY <1>2, <1>5, <1>10, <2>2, <3>1
    <2>3. QED
      BY <1>9, <1>11, <2>1, <2>2
  <1>12. QED
    BY <1>4, <1>7, <1>9, <1>11, Zenon DEF LogOK, Entry

RequestInv == EmbedInv /\ BudgetOK /\ LogOK

LEMMA RequestInit ==
  ASSUME E!EmbedAssumption, E!Init
  PROVE  RequestInv
  <1>1. EmbedInv
    BY EmbedInit
  <1>2. batches = <<>> /\ current = <<>> /\ tokens = 0 /\ log = <<>>
    BY DEF E!Init
  <1>3. 1 .. Len(batches) = {} /\ Len(log) = 0 /\ 2 .. Len(log) = {}
    BY <1>2, EmptyFacts
  <1>4. BudgetOK
    BY <1>2, <1>3, NothingWeighs DEF BudgetOK
  <1>5. LogOK
    BY <1>2, <1>3, EmptyFacts DEF LogOK, E!RetriesBounded
  <1>6. QED
    BY <1>1, <1>4, <1>5 DEF RequestInv

LEMMA RequestNext ==
  ASSUME E!EmbedAssumption, RequestInv, [E!Next]_E!vars
  PROVE  RequestInv'
  <1>0. EmbedInv /\ BudgetOK /\ LogOK /\ EmbedInv'
    BY EmbedNext DEF RequestInv
  <1>1. CASE E!Pack
    <2>1. UNCHANGED <<phase, batch, retried, log>>
      BY <1>1 DEF E!Pack
    <2>2. LogOK'
      BY <1>0, <2>1 DEF LogOK, E!RetriesBounded
    <2>3. QED
      BY <1>0, <1>1, <2>2, PackBudget DEF RequestInv
  <1>2. CASE E!Packed
    <2>1. phase = "pack" /\ phase' = "send" /\ UNCHANGED <<batch, retried, log>>
      BY <1>2 DEF E!Packed
    <2>2. Len(log') = 0
      BY <1>0, <2>1 DEF LogOK
    <2>3. LogOK'
      BY <1>0, <2>1, <2>2 DEF LogOK, E!RetriesBounded
    <2>4. QED
      BY <1>0, <1>2, <2>3, PackedBudget DEF RequestInv
  <1>3. ASSUME NEW o \in E!Outcomes, E!Send(o) PROVE RequestInv'
    <2>1. phase = "send" /\ UNCHANGED <<batches, current, tokens>>
      BY <1>3 DEF E!Send, E!packVars
    <2>2. LogOK'
      BY <1>0, <1>3, SendLog
    <2>3. phase' # "pack"
      <3>1. \A x \in E!Outcomes \ {"200"} : E!Raised[x] # "pack"
        BY DEF E!Raised
      <3>2. QED
        BY <1>3, <3>1 DEF E!Send
    <2>4. BudgetOK'
      BY <1>0, <2>1, <2>3 DEF BudgetOK
    <2>5. QED
      BY <1>0, <2>2, <2>4 DEF RequestInv
  <1>4. CASE E!Return
    <2>1. phase' = "returned" /\ UNCHANGED <<batches, log>>
      BY <1>4 DEF E!Return, E!packVars
    <2>2. BudgetOK'
      BY <1>0, <2>1 DEF BudgetOK
    <2>3. LogOK'
      BY <1>0, <2>1 DEF LogOK, E!RetriesBounded
    <2>4. QED
      BY <1>0, <2>2, <2>3 DEF RequestInv
  <1>5. CASE UNCHANGED E!vars
    <2>1. UNCHANGED <<batches, current, tokens, phase, batch, retried, log>>
      BY <1>5 DEF E!vars
    <2>2. BudgetOK'
      BY <1>0, <2>1 DEF BudgetOK
    <2>3. LogOK'
      BY <1>0, <2>1 DEF LogOK, E!RetriesBounded
    <2>4. QED
      BY <1>0, <2>2, <2>3 DEF RequestInv
  <1>6. QED
    BY <1>1, <1>2, <1>3, <1>4, <1>5 DEF E!Next

\* _pack_batches and _embed_request_with_one_5xx_retry: for any texts and any answers, the
\* summed estimate of every sub-batch is within max_batch_tokens, no request is empty, and a
\* sub-batch is sent twice at most, again only after a 5xx.
THEOREM RequestsAreBounded == E!Spec => []RequestsBounded
  <1>0. E!EmbedAssumption
    BY LoopAssumption
  <1> USE <1>0
  <1>1. RequestInv => E!RequestsBounded
    <2> SUFFICES ASSUME RequestInv PROVE E!BatchWithinBudget /\ E!RetriesBounded
      BY DEF E!RequestsBounded
    <2>1. ASSUME NEW b \in DOMAIN batches
          PROVE  batches[b].items # <<>> /\ E!Weight(batches[b].items) <= Budget
      <3> DEFINE items == batches[b].items
      <3>1. b \in 1 .. Len(batches) /\ batches[b] \in Batch
        BY SeqFacts DEF RequestInv, EmbedInv, EmbedType
      <3>2. items \in Seq(Item) /\ Len(items) > 0
        BY <3>1 DEF RequestInv, EmbedInv, Consecutive, Batch
      <3>3. Weighs(items, batches[b].tokens)
        BY <3>1 DEF RequestInv, BudgetOK
      <3> HIDE DEF items
      <3>4. Len(items) \in Nat /\ items # <<>>
        BY <3>2, SeqFacts
      <3>5. PICK f : Sums(items, f) /\ f[Len(items)] = batches[b].tokens
        BY <3>3, Zenon DEF Weighs
      <3>6. E!Weight(items) = batches[b].tokens
        BY <3>4, <3>5, WeightIsSum
      <3>7. QED
        BY <3>3, <3>4, <3>6 DEF Weighs, items
    <2>2. QED
      BY <2>1 DEF E!BatchWithinBudget, RequestInv, LogOK
  <1>2. E!Init => RequestInv
    BY RequestInit
  <1>3. RequestInv /\ [E!Next]_E!vars => RequestInv'
    BY RequestNext
  <1>4. QED
    BY <1>1, <1>2, <1>3, PTL DEF E!Spec, RequestsBounded

-----------------------------------------------------------------------------
(***************************************************************************)
(* Chunker.                                                                *)
(***************************************************************************)
Tokens == {"h", "w", "s", "c"}
Texts == Seq(-1 .. Len(body))

ChunkerType ==
  /\ body \in Seq(Tokens) /\ at \in 1 .. Len(body) + 1
  /\ cur \in Texts /\ chunks \in Seq(Texts)

\* The words that are in a chunk already.
Told == {p \in C!Positions : \E k \in 1 .. Len(chunks) : p \in C!WordsOf(chunks[k])}
Words == {p \in C!Positions : body[p] # "s"}

\* The character of a token lies between two positions.
CharIn(p, i, j) == \A q \in C!Positions : C!SameCharacter(p, q) => i <= q /\ q <= j

\* Where the loop is: the words before the section at hand, and no others, are in a chunk
\* or in cur, and what is only in cur comes after every chunk.
SectionOK ==
  mode = "section" =>
    /\ C!Narrow => \A p \in Words : p < at => p \in Told \cup C!WordsOf(cur)
    /\ \A p \in Told \cup C!WordsOf(cur) : p < at
    /\ \A x \in C!WordsOf(cur) \ Told : \A y \in Told : x > y

\* Inside a large section the chunks reach up to r, and the next one begins after it, at
\* the beginning of the section, or else the overlap before.  A character that ends by r
\* is in a chunk as a whole: if it is not too wide, or begins where the next chunk does.
SplitReach(r) ==
  /\ start <= r + 1 /\ r < C!NextSection
  /\ r + 1 = start + Overlap \/ (start = at /\ r + 1 = start)
  /\ \A p \in Words : CharIn(p, start, r) => p \in Told
  /\ C!Narrow => \A p \in Words : CharIn(p, 1, r) => p \in Told
  /\ \A p \in Told : CharIn(p, 1, r)
SplitOK ==
  mode = "split" =>
    /\ at \in 1 .. Len(body) /\ start \in at .. C!NextSection - 1
    /\ C!WordsOf(cur) = {}
    /\ \E r \in Int : SplitReach(r)

\* There are fewer chunks than tokens before the place at hand, the one that is being
\* accumulated counted.
Pending == IF cur = <<>> THEN 0 ELSE 1
CountOK ==
  Overlap < Target =>
    /\ mode = "section" => Len(chunks) + Pending <= at - 1
    /\ mode = "split" => Len(chunks) + Pending <= start - 1
    /\ mode = "done" => Len(chunks) <= Len(body)

ChunkerInv ==
  /\ ChunkerType /\ C!IsStart(at) /\ SectionOK /\ SplitOK /\ CountOK
  /\ mode = "done" /\ C!Narrow => Words \subseteq Told
  /\ mode \in {"section", "split", "done"}
  /\ Len(cur) <= Target + Overlap + 1 /\ C!ChunksBounded /\ C!ChunksInOrder

\* There is a next section: the least beginning of one after this.
LEMMA NextSectionFacts ==
  ASSUME body \in Seq(Tokens), at \in 1 .. Len(body)
  PROVE  C!NextSection \in at + 1 .. Len(body) + 1 /\ C!IsStart(C!NextSection)
  <1> DEFINE n == Len(body)
             T == {j \in at + 1 .. n + 1 : C!IsStart(j)}
  <1>0. n \in Nat /\ at \in 1 .. n
    BY SeqFacts
  <1> HIDE DEF n
  <1>1. n + 1 \in T
    <2>1. C!IsStart(n + 1)
      BY DEF C!IsStart, n
    <2>2. QED
      BY <1>0, <2>1
  <1>2. T \subseteq Nat
    BY <1>0
  <1>3. PICK j \in T : \A k \in T : ~(<<k, j>> \in OpToRel(<, Nat))
    <2> HIDE DEF T
    <2> QED
      BY <1>1, <1>2, WFMin, NatLessThanWellFounded
  <1>4. \A k \in T : ~(k < j)
    BY <1>2, <1>3 DEF OpToRel
  <1>5. j \in at + 1 .. n + 1 /\ C!IsStart(j)
    BY <1>3
  <1>6. \A k \in at + 1 .. j - 1 : ~C!IsStart(k)
    BY <1>0, <1>4, <1>5
  <1>7. \E i \in at + 1 .. n + 1 : C!IsStart(i) /\ \A k \in at + 1 .. i - 1 : ~C!IsStart(k)
    BY <1>5, <1>6
  <1>8. QED
    BY <1>7 DEF C!NextSection, n

LEMMA SpanFacts ==
  ASSUME body \in Seq(Tokens), NEW i \in 1 .. Len(body), NEW j \in i .. Len(body)
  PROVE  /\ C!Span(i, j) \in Texts /\ Len(C!Span(i, j)) = j - i + 1
         /\ C!WordsOf(C!Span(i, j)) = {p \in Words : i <= p /\ p <= j}
         /\ {C!Span(i, j)[k] : k \in DOMAIN C!Span(i, j)} = i .. j
  <1> DEFINE n == Len(body)
             m == j - i + 1
             s == C!Span(i, j)
  <1>0. n \in Nat /\ i \in 1 .. n /\ j \in i .. n /\ C!Positions = 1 .. n
    BY SeqFacts DEF C!Positions
  <1>1. m \in Nat /\ s = [k \in 1 .. m |-> i + k - 1]
    BY <1>0 DEF C!Span
  <1>2. \A k \in 1 .. m : i + k - 1 \in -1 .. n
    BY <1>0
  <1> HIDE DEF s, m, n
  <1>3. s \in [1 .. m -> -1 .. n]
    BY <1>1, <1>2
  <1>4. s \in Seq(-1 .. n) /\ Len(s) = m /\ DOMAIN s = 1 .. m
    BY <1>1, <1>3
  <1>5. \A p \in 1 .. n : (\E k \in 1 .. m : s[k] = p) <=> i <= p /\ p <= j
    <2> SUFFICES ASSUME NEW p \in 1 .. n
                 PROVE  (\E k \in 1 .. m : s[k] = p) <=> i <= p /\ p <= j
      OBVIOUS
    <2>1. ASSUME NEW k \in 1 .. m, s[k] = p PROVE i <= p /\ p <= j
      BY <1>0, <1>1, <2>1 DEF m
    <2>2. ASSUME i <= p, p <= j PROVE \E k \in 1 .. m : s[k] = p
      <3>1. p - i + 1 \in 1 .. m /\ i + (p - i + 1) - 1 = p
        BY <1>0, <2>2 DEF m
      <3>2. s[p - i + 1] = p
        BY <1>1, <3>1
      <3>3. QED
        BY <3>1, <3>2
    <2>3. QED
      BY <2>1, <2>2
  <1>6. C!WordsOf(s) = {p \in Words : i <= p /\ p <= j}
    BY <1>0, <1>4, <1>5 DEF C!WordsOf, Words
  <1>7. {s[k] : k \in DOMAIN s} = i .. j
    <2>1. \A k \in 1 .. m : s[k] \in i .. j
      BY <1>0, <1>1 DEF m
    <2>2. \A p \in i .. j : p \in 1 .. n /\ i <= p /\ p <= j
      BY <1>0
    <2>3. QED
      BY <1>4, <1>5, <2>1, <2>2
  <1>8. QED
    BY <1>4, <1>6, <1>7 DEF Texts, s, m, n

LEMMA SameCharacterFacts ==
  ASSUME body \in Seq(Tokens), NEW p \in C!Positions
  PROVE  /\ C!SameCharacter(p, p) /\ C!Positions = 1 .. Len(body) /\ Len(body) \in Nat
         /\ \A i, j : CharIn(p, i, j) => i <= p /\ p <= j
  <1>1. C!Positions = 1 .. Len(body) /\ Len(body) \in Nat
    BY SeqFacts DEF C!Positions
  <1>2. C!SameCharacter(p, p)
    BY <1>1 DEF C!SameCharacter
  <1>3. QED
    BY <1>1, <1>2 DEF CharIn

\* A character does not go over the beginning of a section.
LEMMA SectionBoundary ==
  ASSUME body \in Seq(Tokens), NEW i \in 1 .. Len(body) + 1, C!IsStart(i),
         NEW p \in C!Positions, NEW q \in C!Positions, C!SameCharacter(p, q)
  PROVE  p < i <=> q < i
  <1>1. C!Positions = 1 .. Len(body) /\ Len(body) \in Nat
    BY SeqFacts DEF C!Positions
  <1>2. CASE i \in C!Positions /\ i # 1
    <2>1. body[i] # "c"
      BY <1>1, <1>2 DEF C!IsStart
    <2>2. QED
      BY <1>1, <1>2, <2>1 DEF C!SameCharacter
  <1>3. CASE ~(i \in C!Positions /\ i # 1)
    BY <1>1, <1>3
  <1>4. QED
    BY <1>2, <1>3

\* Decoding keeps the number of tokens, and of the words those whose character is there as
\* a whole.
LEMMA DecodeFacts ==
  ASSUME body \in Seq(Tokens), NEW s \in Texts
  PROVE  /\ C!Decode(s) \in Texts /\ Len(C!Decode(s)) = Len(s)
         /\ C!WordsOf(C!Decode(s)) =
              {p \in C!WordsOf(s) : \A q \in C!Positions :
                 C!SameCharacter(p, q) => q \in {s[k] : k \in DOMAIN s}}
  <1> DEFINE n == Len(body)
             d == C!Decode(s)
             there == {s[k] : k \in DOMAIN s}
             Cut(p) == \E q \in C!Positions : C!SameCharacter(p, q) /\ q \notin there
  <1>1. /\ C!Positions = 1 .. n /\ n \in Nat /\ DOMAIN s = 1 .. Len(s) /\ Len(s) \in Nat
        /\ \A k \in 1 .. Len(s) : s[k] \in -1 .. n
    BY SeqFacts DEF C!Positions, Texts
  <1>2. d = [k \in DOMAIN s |-> IF s[k] \in C!Positions /\ Cut(s[k]) THEN -1 ELSE s[k]]
    BY DEF C!Decode
  <1>3. -1 \in -1 .. n /\ -1 \notin C!Positions
    BY <1>1
  <1> HIDE DEF n, d, there, Cut
  <1>4. d \in [1 .. Len(s) -> -1 .. n]
    BY <1>1, <1>2, <1>3
  <1>5. d \in Seq(-1 .. n) /\ Len(d) = Len(s) /\ DOMAIN d = DOMAIN s
    BY <1>1, <1>4
  <1>6. ASSUME NEW p \in C!Positions
        PROVE  (\E k \in DOMAIN d : d[k] = p) <=> (\E k \in DOMAIN s : s[k] = p) /\ ~Cut(p)
    BY <1>2, <1>3, <1>5
  <1>7. C!WordsOf(d) = {p \in C!WordsOf(s) : ~Cut(p)}
    BY <1>6 DEF C!WordsOf
  <1>8. QED
    BY <1>5, <1>7 DEF Texts, n, d, Cut, there

\* A chunk of a large section.
LEMMA DecodedSpan ==
  ASSUME body \in Seq(Tokens), NEW i \in 1 .. Len(body), NEW j \in i .. Len(body)
  PROVE  /\ C!Decode(C!Span(i, j)) \in Texts /\ Len(C!Decode(C!Span(i, j))) = j - i + 1
         /\ C!WordsOf(C!Decode(C!Span(i, j))) = {p \in Words : CharIn(p, i, j)}
  <1> DEFINE s == C!Span(i, j)
             there == {s[k] : k \in DOMAIN s}
  <1>1. /\ s \in Texts /\ Len(s) = j - i + 1 /\ there = i .. j
        /\ C!WordsOf(s) = {p \in Words : i <= p /\ p <= j}
    BY SpanFacts
  <1>2. /\ C!Decode(s) \in Texts /\ Len(C!Decode(s)) = Len(s)
        /\ C!WordsOf(C!Decode(s)) =
             {p \in C!WordsOf(s) : \A q \in C!Positions : C!SameCharacter(p, q) => q \in there}
    BY <1>1, DecodeFacts
  <1> HIDE DEF s, there
  <1>3. ASSUME NEW p \in Words
        PROVE  CharIn(p, i, j) <=> /\ i <= p /\ p <= j
                                   /\ \A q \in C!Positions : C!SameCharacter(p, q) => q \in i .. j
    <2>1. p \in C!Positions /\ \A q \in C!Positions : q \in i .. j <=> i <= q /\ q <= j
      BY SeqFacts DEF Words, C!Positions
    <2>2. QED
      BY <2>1, SameCharacterFacts DEF CharIn
  <1>4. C!WordsOf(C!Decode(s)) = {p \in Words : CharIn(p, i, j)}
    BY <1>1, <1>2, <1>3
  <1>5. QED
    BY <1>1, <1>2, <1>4 DEF s

LEMMA ConcatWords ==
  ASSUME NEW s \in Texts, NEW t \in Texts
  PROVE  C!WordsOf(s \o t) = C!WordsOf(s) \cup C!WordsOf(t)
  <1>1. /\ s \o t \in Texts /\ Len(s \o t) = Len(s) + Len(t)
        /\ \A i \in 1 .. Len(s) : (s \o t)[i] = s[i]
        /\ \A i \in 1 .. Len(t) : (s \o t)[Len(s) + i] = t[i]
    BY ConcatFacts DEF Texts
  <1>2. /\ Len(s) \in Nat /\ Len(t) \in Nat /\ DOMAIN s = 1 .. Len(s) /\ DOMAIN t = 1 .. Len(t)
    BY SeqFacts DEF Texts
  <1>3. DOMAIN (s \o t) = 1 .. Len(s) + Len(t)
    BY <1>1, SeqFacts DEF Texts
  <1> DEFINE u == s \o t
             a == Len(s)
             b == Len(t)
  <1> HIDE DEF u, a, b
  <1>4. /\ a \in Nat /\ b \in Nat /\ DOMAIN u = 1 .. a + b /\ DOMAIN s = 1 .. a
        /\ DOMAIN t = 1 .. b /\ \A i \in 1 .. a : u[i] = s[i]
        /\ \A i \in 1 .. b : u[a + i] = t[i]
    BY <1>1, <1>2, <1>3 DEF u, a, b
  <1>5. ASSUME NEW p
        PROVE  (\E k \in DOMAIN u : u[k] = p)
                 <=> (\E k \in DOMAIN s : s[k] = p) \/ (\E k \in DOMAIN t : t[k] = p)
    <2>1. ASSUME NEW k \in DOMAIN u, u[k] = p
          PROVE  (\E i \in DOMAIN s : s[i] = p) \/ (\E i \in DOMAIN t : t[i] = p)
      <3>1. CASE k <= a
        BY <1>4, <2>1, <3>1
      <3>2. CASE ~(k <= a)
        <4>1. k - a \in 1 .. b /\ a + (k - a) = k
          BY <1>4, <3>2
        <4>2. QED
          BY <1>4, <2>1, <4>1
      <3>3. QED
        BY <3>1, <3>2
    <2>2. ASSUME NEW k \in DOMAIN s, s[k] = p PROVE \E i \in DOMAIN u : u[i] = p
      BY <1>4, <2>2
    <2>3. ASSUME NEW k \in DOMAIN t, t[k] = p PROVE \E i \in DOMAIN u : u[i] = p
      <3>1. a + k \in DOMAIN u /\ u[a + k] = p
        BY <1>4, <2>3
      <3>2. QED
        BY <3>1
    <2>4. QED
      BY <2>1, <2>2, <2>3
  <1>6. QED
    BY <1>5 DEF C!WordsOf, u

LEMMA TailFacts ==
  ASSUME C!ChunkerAssumption, body \in Seq(Tokens), NEW s \in Texts
  PROVE  /\ C!TailTokens(s) \in Texts /\ Len(C!TailTokens(s)) <= Overlap + 1
         /\ C!WordsOf(C!TailTokens(s)) \subseteq C!WordsOf(s)
  <1> DEFINE n == Len(s)
             m == n - Overlap
             t == SubSeq(s, m + 1, n)
             d == C!Decode(t)
  <1>0. n \in Nat /\ Overlap \in Nat /\ DOMAIN s = 1 .. n
        /\ \A k \in 1 .. n : s[k] \in -1 .. Len(body)
    BY SeqFacts DEF Texts, C!ChunkerAssumption, C!Overlaps
  <1>1. CASE n <= Overlap
    <2>1. C!TailTokens(s) = s
      BY <1>1 DEF C!TailTokens
    <2>2. QED
      BY <1>0, <1>1, <2>1
  <1>2. CASE ~(n <= Overlap)
    <2>1. m \in Nat /\ m <= n
      BY <1>0, <1>2
    <2>2. C!TailTokens(s) = d \o <<0>>
      BY <1>2 DEF C!TailTokens
    <2>3. /\ t \in Seq(-1 .. Len(body)) /\ Len(t) = Overlap
          /\ \A k \in 1 .. Overlap : t[k] = s[m + k]
      BY <1>0, <2>1 DEF Texts
    <2>4. 0 \in -1 .. Len(body)
      BY SeqFacts
    <2>5. <<0>> \in Texts /\ Len(<<0>>) = 1 /\ <<0>>[1] = 0 /\ t \in Texts
      BY <2>3, <2>4, SingletonFacts DEF Texts
    <2>7. C!WordsOf(<<0>>) = {}
      <3>1. DOMAIN <<0>> = 1 .. 1
        BY <2>5, SeqFacts DEF Texts
      <3>2. \A k \in DOMAIN <<0>> : <<0>>[k] = 0
        BY <2>5, <3>1
      <3>3. 0 \notin C!Positions
        BY SeqFacts DEF C!Positions
      <3>4. QED
        BY <3>2, <3>3 DEF C!WordsOf
    <2>8. C!WordsOf(t) \subseteq C!WordsOf(s)
      <3>1. DOMAIN t = 1 .. Overlap
        BY <2>3, SeqFacts
      <3>2. \A k \in DOMAIN t : m + k \in DOMAIN s /\ t[k] = s[m + k]
        <4>1. \A k \in 1 .. Overlap : m + k \in 1 .. n
          BY <1>0, <2>1
        <4>2. QED
          BY <1>0, <2>3, <3>1, <4>1
      <3> HIDE DEF t, m
      <3>3. QED
        BY <3>2 DEF C!WordsOf
    <2> HIDE DEF t
    <2>9. d \in Texts /\ Len(d) = Overlap /\ C!WordsOf(d) \subseteq C!WordsOf(t)
      BY <2>3, <2>5, DecodeFacts
    <2> HIDE DEF d
    <2>10. d \o <<0>> \in Texts /\ Len(d \o <<0>>) = Overlap + 1
      BY <2>5, <2>9, ConcatFacts DEF Texts
    <2>11. C!WordsOf(d \o <<0>>) = C!WordsOf(d) \cup C!WordsOf(<<0>>)
      BY <2>5, <2>9, ConcatWords
    <2>12. QED
      BY <1>0, <2>2, <2>7, <2>8, <2>9, <2>10, <2>11
  <1>3. QED
    BY <1>1, <1>2

LEMMA HasWordsFacts ==
  ASSUME body \in Seq(Tokens), NEW s \in Texts, ~C!HasWords(s)
  PROVE  C!WordsOf(s) = {}
  <1>1. C!Positions = 1 .. Len(body) /\ Len(body) \in Nat
    BY SeqFacts DEF C!Positions
  <1>2. 0 \notin C!Positions
    BY <1>1
  <1>3. QED
    BY <1>2 DEF C!HasWords, C!WordsOf

\* A chunk that only goes on after the ones before it may be added.
LEMMA AppendChunk ==
  ASSUME C!ChunkerAssumption, ChunkerType, C!ChunksBounded, C!ChunksInOrder, body' = body,
         NEW c \in Texts, Len(c) <= Target + Overlap + 1,
         \A x \in C!WordsOf(c) \ Told : \A y \in Told : x > y,
         chunks' = Append(chunks, c)
  PROVE  /\ chunks' \in Seq(Texts)' /\ Told' = Told \cup C!WordsOf(c)
         /\ C!ChunksBounded' /\ C!ChunksInOrder'
  <1> DEFINE n == Len(chunks)
             d == chunks'
             W(s) == C!WordsOf(s)
  <1>1. /\ d \in Seq(Texts) /\ Len(d) = n + 1 /\ d[n + 1] = c
        /\ \A i \in 1 .. n : d[i] = chunks[i]
    BY AppendFacts DEF ChunkerType
  <1>2. n \in Nat /\ DOMAIN chunks = 1 .. n /\ DOMAIN d = 1 .. n + 1
    <2>1. n \in Nat /\ DOMAIN chunks = 1 .. n
      BY SeqFacts DEF ChunkerType
    <2>2. DOMAIN d = 1 .. Len(d)
      BY <1>1, SeqFacts
    <2>3. QED
      BY <1>1, <2>1, <2>2
  <1>3. \A s : C!WordsOf(s)' = W(s)
    BY DEF C!WordsOf, C!Positions
  <1>4. \A i \in 1 .. n + 1 : i \in 1 .. n \/ i = n + 1
    BY <1>2
  <1>5. Told' = Told \cup W(c)
    <2>1. Told' = {p \in C!Positions : \E k \in 1 .. n + 1 : p \in W(d[k])}
      BY <1>1, <1>3 DEF Told, C!Positions
    <2>2. \A k \in 1 .. n : k \in 1 .. n + 1 /\ d[k] = chunks[k]
      BY <1>1, <1>2
    <2>3. n + 1 \in 1 .. n + 1
      BY <1>2
    <2>4. W(c) \subseteq C!Positions
      BY DEF C!WordsOf
    <2> HIDE DEF W, n, d
    <2>5. {p \in C!Positions : \E k \in 1 .. n + 1 : p \in W(d[k])}
            = {p \in C!Positions : \E k \in 1 .. n : p \in W(chunks[k])} \cup W(c)
      BY <1>1, <1>4, <2>2, <2>3, <2>4
    <2>6. Told = {p \in C!Positions : \E k \in 1 .. n : p \in W(chunks[k])}
      BY DEF Told, W, n
    <2>7. QED
      BY <2>1, <2>5, <2>6
  <1>6. C!ChunksBounded'
    <2>1. \A i \in 1 .. n + 1 : Len(d[i]) <= Target + Overlap + 1
      BY <1>1, <1>2, <1>4 DEF C!ChunksBounded
    <2>2. QED
      BY <1>2, <2>1 DEF C!ChunksBounded
  <1>7. C!ChunksInOrder'
    <2> DEFINE B(i) == UNION {W(d[k]) : k \in 1 .. (i - 1)}
    <2>1. \A i \in 1 .. n : B(i) = C!Before(i)
      <3> SUFFICES ASSUME NEW i \in 1 .. n PROVE B(i) = C!Before(i)
        OBVIOUS
      <3>1. \A k \in 1 .. (i - 1) : d[k] = chunks[k]
        BY <1>1, <1>2
      <3>2. QED
        BY <3>1 DEF C!Before
    <2>2. B(n + 1) = Told
      <3>1. 1 .. (n + 1 - 1) = 1 .. n
        BY <1>2
      <3>2. Told = {p \in C!Positions : \E k \in 1 .. n : p \in W(d[k])}
        BY <1>1 DEF Told
      <3>3. \A k : W(d[k]) \subseteq C!Positions
        BY DEF C!WordsOf
      <3>4. B(n + 1) = UNION {W(d[k]) : k \in 1 .. n}
        BY <3>1
      <3> HIDE DEF W, n, d, B
      <3>5. ASSUME NEW p
            PROVE  p \in Told <=> \E k \in 1 .. n : p \in W(d[k])
        BY <3>2, <3>3
      <3>6. ASSUME NEW p
            PROVE  p \in B(n + 1) <=> \E k \in 1 .. n : p \in W(d[k])
        BY <3>4
      <3>7. QED
        BY <3>5, <3>6
    <2>3. \A i \in 1 .. n + 1 : \A x \in W(d[i]) \ B(i) : \A y \in B(i) : x > y
      <3> SUFFICES ASSUME NEW i \in 1 .. n + 1
                   PROVE  \A x \in W(d[i]) \ B(i) : \A y \in B(i) : x > y
        OBVIOUS
      <3>1. CASE i \in 1 .. n
        <4>1. \A x \in W(chunks[i]) \ C!Before(i) : \A y \in C!Before(i) : x > y
          BY <1>2, <3>1 DEF C!ChunksInOrder
        <4>2. B(i) = C!Before(i) /\ d[i] = chunks[i]
          BY <1>1, <2>1, <3>1
        <4> HIDE DEF W, B, d
        <4>3. QED
          BY <4>1, <4>2
      <3>2. CASE i = n + 1
        <4>1. d[i] = c /\ B(i) = Told
          BY <1>1, <2>2, <3>2
        <4>2. \A x \in W(c) \ Told : \A y \in Told : x > y
          OBVIOUS
        <4> HIDE DEF W, B, d
        <4>3. QED
          BY <4>1, <4>2
      <3>3. QED
        BY <1>4, <3>1, <3>2
    <2>4. \A i : C!Before(i)' = B(i)
      BY <1>3 DEF C!Before
    <2> HIDE DEF B, W, d, n
    <2>5. (\A i \in DOMAIN d : \A x \in W(d[i]) \ B(i) : \A y \in B(i) : x > y)
             => C!ChunksInOrder'
      BY <1>3, <2>4 DEF C!ChunksInOrder, W, d
    <2>6. QED
      BY <1>2, <2>3, <2>5
  <1>8. chunks' \in Seq(Texts)'
    BY <1>1 DEF Texts
  <1>9. QED
    BY <1>5, <1>6, <1>7, <1>8

\* What only depends on the body and the place in it stays as it is.
LEMMA BodyKept ==
  ASSUME body' = body
  PROVE  /\ Texts' = Texts /\ Words' = Words /\ C!Positions' = C!Positions
         /\ \A s : C!WordsOf(s)' = C!WordsOf(s)
         /\ C!Narrow' = C!Narrow /\ \A i : C!IsStart(i)' = C!IsStart(i)
         /\ \A p, i, j : CharIn(p, i, j)' = CharIn(p, i, j)
         /\ (at' = at => C!NextSection' = C!NextSection)
         /\ (chunks' = chunks => /\ Told' = Told /\ (C!ChunksBounded => C!ChunksBounded')
                                 /\ (C!ChunksInOrder => C!ChunksInOrder'))
  <1>1. Texts' = Texts /\ Words' = Words /\ C!Positions' = C!Positions
    BY DEF Texts, Words, C!Positions
  <1>2. \A s : C!WordsOf(s)' = C!WordsOf(s)
    BY DEF C!WordsOf, C!Positions
  <1>3. at' = at => C!NextSection' = C!NextSection
    BY Zenon DEF C!NextSection, C!IsStart
  <1>a. \A i : C!IsStart(i)' = C!IsStart(i)
    BY DEF C!IsStart
  <1>b. \A p, i, j : CharIn(p, i, j)' = CharIn(p, i, j)
    BY DEF CharIn, C!SameCharacter, C!Positions
  <1>c. C!Narrow' = C!Narrow
    BY DEF C!Narrow, C!SameCharacter, C!Positions
  <1>4. ASSUME chunks' = chunks
        PROVE  /\ Told' = Told /\ (C!ChunksBounded => C!ChunksBounded')
               /\ (C!ChunksInOrder => C!ChunksInOrder')
    <2>1. Told' = Told
      BY <1>4 DEF Told, C!WordsOf, C!Positions
    <2>2. C!ChunksBounded => C!ChunksBounded'
      BY <1>4 DEF C!ChunksBounded
    <2>3. C!ChunksInOrder => C!ChunksInOrder'
      <3>1. \A k : C!WordsOf(chunks[k])' = C!WordsOf(chunks[k])
        BY <1>4 DEF C!WordsOf, C!Positions
      <3>2. \A i : C!Before(i)' = C!Before(i)
        BY <3>1 DEF C!Before
      <3>3. QED
        BY <1>4, <3>1, <3>2 DEF C!ChunksInOrder
    <2>4. QED
      BY <2>1, <2>2, <2>3
  <1>5. QED
    BY <1>1, <1>2, <1>3, <1>4, <1>a, <1>b, <1>c

\* The section at hand, as a text.
LEMMA SectionFacts ==
  ASSUME ChunkerType, at <= Len(body)
  PROVE  /\ C!NextSection \in at + 1 .. Len(body) + 1 /\ C!IsStart(C!NextSection)
         /\ C!Section \in Texts /\ Len(C!Section) = C!NextSection - at
         /\ C!WordsOf(C!Section) = {p \in Words : at <= p /\ p < C!NextSection}
  <1>1. at \in 1 .. Len(body) /\ body \in Seq(Tokens) /\ Len(body) \in Nat
    BY SeqFacts DEF ChunkerType
  <1>2. C!NextSection \in at + 1 .. Len(body) + 1 /\ C!IsStart(C!NextSection)
    BY <1>1, NextSectionFacts
  <1> DEFINE j == C!NextSection - 1
  <1>3. j \in at .. Len(body) /\ j - at + 1 = C!NextSection - at
    BY <1>1, <1>2
  <1>4. C!Section = C!Span(at, j)
    BY DEF C!Section
  <1> HIDE DEF j
  <1>5. /\ C!Span(at, j) \in Texts /\ Len(C!Span(at, j)) = j - at + 1
        /\ C!WordsOf(C!Span(at, j)) = {p \in Words : at <= p /\ p <= j}
    BY <1>1, <1>3, SpanFacts
  <1>6. Words \subseteq Int
    BY SeqFacts DEF ChunkerType, Words, C!Positions
  <1>7. {p \in Words : at <= p /\ p <= j} = {p \in Words : at <= p /\ p < C!NextSection}
    <2>1. \A p \in Words : p <= j <=> p < C!NextSection
      BY <1>1, <1>2, <1>6 DEF j
    <2>2. QED
      BY <2>1
  <1>8. QED
    BY <1>2, <1>3, <1>4, <1>5, <1>7

LEMMA ChunkerInitOK ==
  ASSUME C!ChunkerAssumption
  PROVE  C!Init => ChunkerInv
  <1> SUFFICES ASSUME C!Init PROVE ChunkerInv
    OBVIOUS
  <1>1. /\ body \in Seq(Tokens) /\ Len(body) \in Nat
        /\ at = 1 /\ cur = <<>> /\ chunks = <<>>
        /\ mode = IF C!HasWords(C!Span(1, Len(body))) THEN "section" ELSE "done"
    <2>1. body \in Bodies /\ Bodies \subseteq Seq(Tokens)
      BY DEF C!Init, C!ChunkerAssumption, Tokens
    <2>2. body \in Seq(Tokens)
      BY <2>1
    <2>3. Len(body) \in Nat
      BY <2>2, SeqFacts
    <2>4. QED
      BY <2>2, <2>3 DEF C!Init
  <1>2. ChunkerType
    BY <1>1, EmptyFacts DEF ChunkerType, Texts
  <1>3. Told = {} /\ C!WordsOf(cur) = {}
    BY <1>1 DEF Told, C!WordsOf
  <1>4. Words \subseteq 1 .. Len(body)
    BY <1>1, SeqFacts DEF Words, C!Positions
  <1>5. SectionOK
    BY <1>1, <1>3, <1>4 DEF SectionOK
  <1>6. SplitOK
    BY <1>1 DEF SplitOK
  <1>7. mode = "done" => Words = {}
    <2> SUFFICES ASSUME mode = "done", Words # {} PROVE FALSE
      OBVIOUS
    <2>0. PICK p \in Words : TRUE
      OBVIOUS
    <2>1. /\ p \in 1 .. Len(body) /\ 1 <= p /\ p <= Len(body)
          /\ 1 \in 1 .. Len(body) /\ Len(body) \in 1 .. Len(body)
      <3>1. p \in 1 .. Len(body)
        BY <1>4, <2>0
      <3>2. QED
        BY <1>1, <3>1
    <2>2. /\ C!Span(1, Len(body)) \in Texts
          /\ C!WordsOf(C!Span(1, Len(body))) = {q \in Words : 1 <= q /\ q <= Len(body)}
      BY <1>1, <2>1, SpanFacts
    <2>3. C!WordsOf(C!Span(1, Len(body))) # {}
      BY <2>0, <2>1, <2>2
    <2>4. QED
      BY <1>1, <2>2, <2>3, HasWordsFacts
  <1>8. Len(cur) <= Target + Overlap + 1 /\ C!ChunksBounded /\ C!ChunksInOrder
    BY <1>1 DEF C!ChunkerAssumption, C!Overlaps, C!ChunksBounded, C!ChunksInOrder
  <1>a. C!IsStart(at)
    BY <1>1 DEF C!IsStart
  <1>b. CountOK
    BY <1>1 DEF CountOK, Pending
  <1>9. QED
    BY <1>1, <1>2, <1>5, <1>6, <1>7, <1>8, <1>a, <1>b DEF ChunkerInv

\* Finalizing leaves every word of cur in a chunk.
LEMMA FinalizeFacts ==
  ASSUME C!ChunkerAssumption, ChunkerInv, mode = "section", body' = body, chunks' = C!Finalized
  PROVE  /\ chunks' \in Seq(Texts)' /\ Told' = Told \cup C!WordsOf(cur)
         /\ C!ChunksBounded' /\ C!ChunksInOrder'
         /\ Len(chunks') + (IF C!HasWords(cur) THEN 0 ELSE Pending) = Len(chunks) + Pending
  <1>0. Len(chunks) \in Nat /\ chunks \in Seq(Texts) /\ cur \in Texts
    BY SeqFacts DEF ChunkerInv, ChunkerType
  <1>1. CASE C!HasWords(cur)
    <2>1. chunks' = Append(chunks, cur)
      BY <1>1 DEF C!Finalized
    <2>2. Pending = 1 /\ Len(chunks') = Len(chunks) + 1
      BY <1>0, <1>1, <2>1, AppendFacts DEF Pending, C!HasWords
    <2>3. /\ chunks' \in Seq(Texts)' /\ Told' = Told \cup C!WordsOf(cur)
          /\ C!ChunksBounded' /\ C!ChunksInOrder'
      BY <2>1, AppendChunk DEF ChunkerInv, ChunkerType, SectionOK
    <2>4. QED
      BY <1>0, <1>1, <2>2, <2>3
  <1>2. CASE ~C!HasWords(cur)
    <2>1. chunks' = chunks
      BY <1>2 DEF C!Finalized
    <2>2. C!WordsOf(cur) = {}
      BY <1>2, HasWordsFacts DEF ChunkerInv, ChunkerType
    <2>3. /\ Texts' = Texts /\ Told' = Told /\ C!ChunksBounded' /\ C!ChunksInOrder'
      BY <2>1, BodyKept DEF ChunkerInv
    <2>4. QED
      BY <1>2, <2>1, <2>2, <2>3 DEF ChunkerInv, ChunkerType, Texts
  <1>3. QED
    BY <1>1, <1>2

LEMMA LargeSectionOK ==
  ASSUME C!ChunkerAssumption, ChunkerInv, C!LargeSection
  PROVE  ChunkerInv'
  <1>1. /\ mode = "section" /\ at <= Len(body) /\ chunks' = C!Finalized /\ start' = at
        /\ cur' = (IF C!HasWords(cur) THEN <<>> ELSE cur)
        /\ mode' = "split" /\ body' = body /\ at' = at
    BY DEF C!LargeSection
  <1>2. /\ chunks' \in Seq(Texts)' /\ Told' = Told \cup C!WordsOf(cur)
        /\ C!ChunksBounded' /\ C!ChunksInOrder'
        /\ Len(chunks') + (IF C!HasWords(cur) THEN 0 ELSE Pending) = Len(chunks) + Pending
    BY <1>1, FinalizeFacts
  <1>3. /\ Texts' = Texts /\ Words' = Words /\ C!NextSection' = C!NextSection
        /\ \A s : C!WordsOf(s)' = C!WordsOf(s)
        /\ C!Narrow' = C!Narrow /\ (C!IsStart(at) => C!IsStart(at)')
        /\ \A p, i, j : CharIn(p, i, j)' = CharIn(p, i, j)
    BY <1>1, BodyKept
  <1>4. C!NextSection \in at + 1 .. Len(body) + 1
    BY <1>1, SectionFacts DEF ChunkerInv
  <1>5. cur' \in Texts' /\ C!WordsOf(cur)' = {} /\ Len(cur') <= Target + Overlap + 1
    <2>1. CASE C!HasWords(cur)
      <3>1. cur' = <<>>
        BY <1>1, <2>1
      <3>2. C!WordsOf(cur)' = {} /\ cur' \in Texts'
        BY <3>1 DEF C!WordsOf, Texts
      <3>3. QED
        BY <3>1, <3>2 DEF C!ChunkerAssumption, C!Overlaps
    <2>2. CASE ~C!HasWords(cur)
      <3>1. cur' = cur
        BY <1>1, <2>2
      <3>2. C!WordsOf(cur) = {}
        BY <2>2, HasWordsFacts DEF ChunkerInv, ChunkerType
      <3>3. C!WordsOf(cur)' = C!WordsOf(cur)
        BY <1>1, <3>1 DEF C!WordsOf, C!Positions
      <3>4. QED
        BY <1>3, <3>1, <3>2, <3>3 DEF ChunkerInv, ChunkerType
    <2>3. QED
      BY <2>1, <2>2
  <1>6. ChunkerType'
    BY <1>1, <1>2, <1>5 DEF ChunkerInv, ChunkerType
  <1>7. at \in 1 .. Len(body) /\ Len(body) \in Nat /\ Words \subseteq Int /\ Told \subseteq Int
    BY <1>1, SeqFacts DEF ChunkerInv, ChunkerType, Words, Told, C!Positions
  <1>8. SplitReach(at - 1)'
    <2> DEFINE K == Told \cup C!WordsOf(cur)
    <2>0. body \in Seq(Tokens) /\ K \subseteq Words /\ Words \subseteq C!Positions
      BY DEF ChunkerInv, ChunkerType, Told, C!WordsOf, Words
    <2>1. \A p \in Words : ~CharIn(p, at, at - 1)
      BY <1>7, <2>0, SameCharacterFacts
    <2>2. C!Narrow => \A p \in Words : CharIn(p, 1, at - 1) => p \in K
      <3>1. \A p \in Words : CharIn(p, 1, at - 1) => p < at
        BY <1>7, <2>0, SameCharacterFacts
      <3>2. QED
        BY <1>1, <3>1 DEF ChunkerInv, SectionOK
    <2>3. \A p \in K : CharIn(p, 1, at - 1)
      <3> SUFFICES ASSUME NEW p \in K, NEW q \in C!Positions, C!SameCharacter(p, q)
                   PROVE  1 <= q /\ q <= at - 1
        BY DEF CharIn
      <3>1. p < at /\ p \in C!Positions
        BY <1>1, <2>0 DEF ChunkerInv, SectionOK
      <3>2. q < at
        BY <1>7, <2>0, <3>1, SectionBoundary DEF ChunkerInv
      <3>3. q \in 1 .. Len(body)
        BY <2>0, SameCharacterFacts
      <3>4. QED
        BY <1>7, <3>2, <3>3
    <2>4. /\ at <= at - 1 + 1 /\ at - 1 + 1 = at /\ at - 1 < C!NextSection
      BY <1>4, <1>7
    <2>5. QED
      BY <1>1, <1>2, <1>3, <2>1, <2>2, <2>3, <2>4 DEF SplitReach
  <1>9. SplitOK'
    <2>1. at - 1 \in Int /\ at \in at .. C!NextSection - 1
      BY <1>4, <1>7
    <2>2. \E r \in Int : SplitReach(r)'
      <3>1. (at - 1)' = at - 1
        BY <1>1
      <3>2. QED
        BY <1>8, <2>1, <3>1 DEF SplitReach
    <2>3. QED
      BY <1>1, <1>3, <1>5, <1>7, <2>1, <2>2 DEF SplitOK
  <1>10. CountOK'
    <2>1. Pending' = IF C!HasWords(cur) THEN 0 ELSE Pending
      BY <1>1 DEF Pending
    <2>2. QED
      BY <1>1, <1>2, <2>1 DEF ChunkerInv, CountOK
  <1>11. QED
    BY <1>1, <1>2, <1>3, <1>5, <1>6, <1>9, <1>10 DEF ChunkerInv, SectionOK

LEMMA SplitStepOK ==
  ASSUME C!ChunkerAssumption, ChunkerInv, C!Split
  PROVE  ChunkerInv'
  <1> DEFINE n == C!NextSection
             e == IF start + Target - 1 < n - 1 THEN start + Target - 1 ELSE n - 1
             c == C!Decode(C!Span(start, e))
  <1>1. /\ mode = "split" /\ body' = body /\ cur' = cur /\ chunks' = Append(chunks, c)
        /\ \/ e >= n - 1 /\ mode' = "section" /\ at' = n /\ start' = 0
           \/ e < n - 1 /\ start' = e + 1 - Overlap /\ mode' = mode /\ at' = at
    BY DEF C!Split, C!NextStart
  <1>2. PICK r \in Int : SplitReach(r)
    BY <1>1 DEF ChunkerInv, SplitOK
  <1>3. /\ at \in 1 .. Len(body) /\ start \in at .. n - 1 /\ C!WordsOf(cur) = {}
        /\ body \in Seq(Tokens) /\ Len(body) \in Nat /\ C!IsStart(at)
        /\ Target \in Nat \ {0} /\ Overlap \in 0 .. Target /\ Len(chunks) \in Nat
    BY <1>1, SeqFacts DEF ChunkerInv, SplitOK, ChunkerType, C!ChunkerAssumption, C!Overlaps
  <1>4. n \in at + 1 .. Len(body) + 1 /\ C!IsStart(n)
    BY <1>3, NextSectionFacts
  <1>5. /\ e \in start .. Len(body) /\ start \in 1 .. Len(body) /\ r <= e /\ e <= n - 1
        /\ e - start + 1 <= Target + Overlap + 1 /\ start <= r + 1
        /\ e \in Int /\ r \in Int
    BY <1>2, <1>3, <1>4 DEF SplitReach
  <1>6. e < n - 1 => e = start + Target - 1
    BY <1>3, <1>4
  <1> HIDE DEF e, n
  <1>7. /\ c \in Texts /\ Len(c) = e - start + 1
        /\ C!WordsOf(c) = {p \in Words : CharIn(p, start, e)}
    BY <1>3, <1>5, DecodedSpan
  <1>8. /\ Words \subseteq Int /\ Told \subseteq Words /\ Words \subseteq C!Positions
        /\ C!Positions = 1 .. Len(body)
    BY <1>3, SeqFacts DEF Words, Told, C!Positions, C!WordsOf
  <1>9. /\ \A p \in Words : CharIn(p, start, r) => p \in Told
        /\ C!Narrow => \A p \in Words : CharIn(p, 1, r) => p \in Told
        /\ \A p \in Told : CharIn(p, 1, r)
        /\ r + 1 = start + Overlap \/ (start = at /\ r + 1 = start)
    BY <1>2 DEF SplitReach
  <1> HIDE DEF c
  <1>10. \A x \in C!WordsOf(c) \ Told : \A y \in Told : x > y
    <2> SUFFICES ASSUME NEW x \in C!WordsOf(c), x \notin Told, NEW y \in Told, ~(x > y)
                 PROVE  FALSE
      OBVIOUS
    <2>1. /\ x \in Words /\ CharIn(x, start, e) /\ ~CharIn(x, start, r) /\ CharIn(y, 1, r)
          /\ x \in 1 .. Len(body) /\ y \in 1 .. Len(body)
      BY <1>7, <1>8, <1>9
    <2>2. PICK q \in C!Positions : C!SameCharacter(x, q) /\ q > r
      <3>1. PICK q \in C!Positions : C!SameCharacter(x, q) /\ ~(start <= q /\ q <= r)
        BY <2>1 DEF CharIn
      <3>2. start <= q
        BY <2>1, <3>1 DEF CharIn
      <3>3. QED
        BY <1>3, <1>5, <1>8, <3>1, <3>2
    <2>3. x <= y /\ y <= r /\ q \in Int
      BY <1>3, <1>8, <2>1, SameCharacterFacts
    <2>4. C!SameCharacter(y, q)
      BY <1>8, <2>1, <2>2, <2>3 DEF C!SameCharacter
    <2>5. QED
      BY <1>5, <2>1, <2>2, <2>3, <2>4 DEF CharIn
  <1>11. Len(c) <= Target + Overlap + 1
    BY <1>5, <1>7
  <1>12. /\ chunks' \in Seq(Texts)' /\ Told' = Told \cup C!WordsOf(c)
         /\ C!ChunksBounded' /\ C!ChunksInOrder'
    BY <1>1, <1>7, <1>10, <1>11, AppendChunk DEF ChunkerInv
  <1>a. Len(chunks') = Len(chunks) + 1
    BY <1>1, <1>7, AppendFacts DEF ChunkerInv, ChunkerType
  <1>13. C!Narrow => \A p \in Words : CharIn(p, 1, e) => p \in Told'
    <2> SUFFICES ASSUME C!Narrow, NEW p \in Words, CharIn(p, 1, e), p \notin Told
                 PROVE  CharIn(p, start, e)
      BY <1>7, <1>12
    <2>1. PICK q \in C!Positions : C!SameCharacter(p, q) /\ ~(1 <= q /\ q <= r)
      BY <1>9 DEF CharIn
    <2>2. q \in 1 .. Len(body) /\ q > r
      BY <1>5, <1>8, <2>1
    <2> SUFFICES ASSUME NEW k \in C!Positions, C!SameCharacter(p, k) PROVE start <= k /\ k <= e
      BY DEF CharIn
    <2>3. k <= e /\ k \in 1 .. Len(body) /\ p \in 1 .. Len(body)
      BY <1>8 DEF CharIn
    <2>4. CASE r + 1 = start + Overlap
      <3>1. C!SameCharacter(k, q) \/ k >= p
        BY <1>8, <2>1, <2>2, <2>3 DEF C!SameCharacter
      <3>2. p + Overlap >= q /\ (C!SameCharacter(k, q) => k + Overlap >= q)
        <4>1. q - p <= Overlap /\ (C!SameCharacter(k, q) => q - k <= Overlap)
          BY <1>8, <2>1 DEF C!Narrow
        <4>2. QED
          BY <1>3, <2>2, <2>3, <4>1
      <3>3. QED
        BY <1>3, <1>5, <2>2, <2>3, <2>4, <3>1, <3>2
    <2>5. CASE start = at /\ r + 1 = start
      <3>1. ~(q < at)
        BY <1>3, <1>5, <2>2, <2>5
      <3>2. at \in 1 .. Len(body) + 1
        BY <1>3
      <3>3. ~(p < at) /\ ~(k < at)
        BY <1>3, <1>8, <2>1, <3>1, <3>2, SectionBoundary
      <3>4. QED
        BY <1>3, <2>3, <2>5, <3>3
    <2>6. QED
      BY <1>9, <2>4, <2>5
  <1>14. \A p \in Told' : CharIn(p, 1, e)
    <2>1. \A p \in Told : CharIn(p, 1, e)
      BY <1>5, <1>8, <1>9 DEF CharIn
    <2>2. \A p \in C!WordsOf(c) : CharIn(p, 1, e)
      BY <1>5, <1>7, <1>8 DEF CharIn
    <2>3. QED
      BY <1>12, <2>1, <2>2
  <1>15. /\ Texts' = Texts /\ Words' = Words /\ (at' = at => C!NextSection' = n)
         /\ C!Narrow' = C!Narrow /\ \A i : C!IsStart(i)' = C!IsStart(i)
         /\ \A p, i, j : CharIn(p, i, j)' = CharIn(p, i, j)
    BY <1>1, BodyKept DEF n
  <1>16. C!WordsOf(cur)' = {} /\ Pending' = Pending
    BY <1>1, <1>3 DEF C!WordsOf, C!Positions, Pending
  <1>17. /\ at' \in 1 .. Len(body) + 1 /\ body' = body
         /\ at' = n \/ at' = at
    <2>1. at' = n \/ at' = at
      BY <1>1 DEF n
    <2>2. n \in 1 .. Len(body) + 1 /\ at \in 1 .. Len(body) + 1
      BY <1>3, <1>4
    <2>3. QED
      BY <1>1, <2>1, <2>2
  <1>18. ChunkerType' /\ C!IsStart(at)'
    <2>1. C!IsStart(at)'
      BY <1>3, <1>4, <1>17 DEF C!IsStart
    <2>2. cur' = cur /\ mode' \in {"section", "split", "done"}
      BY <1>1
    <2>3. ChunkerType'
      BY <1>12, <1>15, <1>17, <2>2 DEF ChunkerInv, ChunkerType
    <2>4. QED
      BY <2>1, <2>3
  <1>19. Told' \subseteq Words
    BY <1>7, <1>8, <1>12
  <1>b. Overlap < Target => Len(chunks) + Pending <= start - 1
    BY <1>1 DEF ChunkerInv, CountOK
  <1>c. Pending \in 0 .. 1
    BY DEF Pending
  <1>20. CASE e >= n - 1
    <2>1. mode' = "section" /\ at' = n
      BY <1>1, <1>5, <1>4, <1>20
    <2>2. e = n - 1
      BY <1>4, <1>5, <1>20
    <2>3. SectionOK'
      <3>1. ASSUME C!Narrow, NEW p \in Words, p < n PROVE p \in Told'
        <4> SUFFICES ASSUME NEW q \in C!Positions, C!SameCharacter(p, q)
                     PROVE  1 <= q /\ q <= e
          BY <1>13, <3>1 DEF CharIn
        <4>1. q < n
          BY <1>3, <1>4, <1>8, <3>1, SectionBoundary
        <4>2. QED
          BY <1>4, <1>8, <2>2, <4>1
      <3>2. \A p \in Told' : p < n
        <4>1. \A p \in Told' : p <= e /\ p \in Int
          BY <1>3, <1>8, <1>14, <1>19, SameCharacterFacts
        <4>2. QED
          BY <1>4, <2>2, <4>1
      <3>3. QED
        BY <1>15, <1>16, <2>1, <3>1, <3>2 DEF SectionOK
    <2>4. CountOK'
      BY <1>3, <1>4, <1>5, <1>16, <1>a, <1>b, <1>c, <2>1 DEF CountOK
    <2>5. QED
      BY <1>1, <1>12, <1>18, <2>1, <2>3, <2>4 DEF ChunkerInv, SplitOK
  <1>21. CASE ~(e >= n - 1)
    <2>1. mode' = "split" /\ at' = at /\ start' = e + 1 - Overlap /\ e = start + Target - 1
      BY <1>1, <1>4, <1>5, <1>6, <1>21
    <2>2. /\ start' \in at .. n - 1 /\ start' <= e + 1 /\ e + 1 = start' + Overlap /\ e < n
          /\ start <= start' /\ (Overlap < Target => start + 1 <= start')
      BY <1>3, <1>4, <1>5, <1>21, <2>1
    <2>3. \A p \in Words : CharIn(p, start', e) => p \in Told'
      <3> SUFFICES ASSUME NEW p \in Words, CharIn(p, start', e) PROVE CharIn(p, start, e)
        BY <1>7, <1>12
      <3>1. QED
        BY <1>3, <1>5, <1>8, <2>2 DEF CharIn
    <2>4. ASSUME NEW q \in Int, q = e PROVE SplitReach(q)'
      BY <1>13, <1>14, <1>15, <2>1, <2>2, <2>3, <2>4 DEF SplitReach
    <2>5. SplitOK'
      BY <1>1, <1>3, <1>5, <1>15, <1>16, <2>1, <2>2, <2>4 DEF SplitOK
    <2>6. CountOK'
      BY <1>3, <1>5, <1>16, <1>a, <1>b, <1>c, <2>1, <2>2 DEF CountOK
    <2>7. QED
      BY <1>1, <1>12, <1>18, <2>1, <2>5, <2>6 DEF ChunkerInv, SectionOK
  <1>22. QED
    BY <1>20, <1>21

\* What cur becomes when the section at hand is added to a text of it.
LEMMA NextCurOK ==
  ASSUME C!ChunkerAssumption, ChunkerInv, mode = "section", at <= Len(body), body' = body,
         NEW c \in Texts, cur' = c \o C!Section, at' = C!NextSection, mode' = mode,
         Len(c) + Len(C!Section) <= Target + Overlap + 1,
         C!WordsOf(c) \subseteq C!WordsOf(cur),
         chunks' \in Seq(Texts)', C!ChunksBounded', C!ChunksInOrder',
         \/ Told' = Told \cup C!WordsOf(cur) /\ Len(chunks') = Len(chunks) + 1 /\ cur # <<>>
         \/ Told' = Told /\ c = cur /\ chunks' = chunks
  PROVE  ChunkerInv'
  <1> DEFINE n == C!NextSection
             S == C!WordsOf(C!Section)
             W == C!WordsOf(cur)
             V == C!WordsOf(c)
             X == C!WordsOf(cur)'
  <1>1. /\ n \in at + 1 .. Len(body) + 1 /\ C!IsStart(n)
        /\ C!Section \in Texts /\ Len(C!Section) = n - at
        /\ S = {p \in Words : at <= p /\ p < n}
    BY SectionFacts DEF ChunkerInv
  <1>2. cur' \in Texts /\ Len(cur') = Len(c) + Len(C!Section)
    BY <1>1, ConcatFacts DEF Texts
  <1>3. X = V \cup S
    <2>1. C!WordsOf(cur') = V \cup S
      BY <1>1, ConcatWords
    <2>2. X = C!WordsOf(cur')
      BY DEF C!WordsOf, C!Positions
    <2>3. QED
      BY <2>1, <2>2
  <1>4. Texts' = Texts /\ Words' = Words /\ C!Narrow' = C!Narrow /\ C!IsStart(at)'
    <2>1. Texts' = Texts /\ Words' = Words /\ C!Narrow' = C!Narrow
      BY BodyKept
    <2>2. C!IsStart(at)'
      BY <1>1 DEF C!IsStart
    <2>3. QED
      BY <2>1, <2>2
  <1>5. at \in 1 .. Len(body) /\ Len(body) \in Nat /\ Words \subseteq Int
    BY SeqFacts DEF ChunkerInv, ChunkerType, Words, C!Positions
  <1>6. Told \subseteq Words /\ W \subseteq Words /\ V \subseteq Words
    BY DEF Told, Words, C!WordsOf
  <1>7. ChunkerType'
    <2>1. at' \in 1 .. Len(body) + 1
      BY <1>1, <1>5
    <2>2. QED
      BY <1>2, <1>4, <2>1 DEF ChunkerInv, ChunkerType
  <1>8. /\ C!Narrow => \A p \in Words : p < at => p \in Told \cup W
        /\ \A p \in Told \cup W : p < at
        /\ \A x \in W \ Told : \A y \in Told : x > y
    BY DEF ChunkerInv, SectionOK
  <1> HIDE DEF n, S, W, V, X
  <1>9. V \subseteq W /\ (Told' = Told \cup W \/ (Told' = Told /\ V = W))
    BY DEF V, W
  <1>10. Told' \cup X = Told \cup W \cup S
    BY <1>3, <1>9
  <1>11. C!Narrow => \A p \in Words : p < n => p \in Told' \cup X
    <2>1. \A p \in Words : p < at \/ at <= p
      BY <1>5
    <2>2. QED
      BY <1>1, <1>8, <1>10, <2>1
  <1>12. \A p \in Told' \cup X : p < n
    <2>1. \A p \in Told \cup W : p < n
      BY <1>1, <1>5, <1>6, <1>8
    <2>2. QED
      BY <1>1, <1>10, <2>1
  <1>13. \A x \in X \ Told' : \A y \in Told' : x > y
    <2> SUFFICES ASSUME NEW x \in X, x \notin Told', NEW y \in Told' PROVE x > y
      OBVIOUS
    <2>1. CASE x \in S
      <3>1. x \in Int /\ at <= x
        BY <1>1, <1>5, <2>1
      <3>2. y \in Int /\ y < at
        BY <1>5, <1>6, <1>8, <1>9
      <3>3. QED
        BY <1>5, <3>1, <3>2
    <2>2. CASE x \notin S
      <3>1. x \in V /\ Told' = Told
        BY <1>3, <1>9, <2>2
      <3>2. QED
        BY <1>8, <1>9, <3>1
    <2>3. QED
      BY <2>1, <2>2
  <1>14. SectionOK'
    BY <1>4, <1>11, <1>12, <1>13 DEF SectionOK, X, n
  <1>15. Len(cur') <= Target + Overlap + 1 /\ SplitOK'
    BY <1>2 DEF SplitOK
  <1>16. CountOK'
    <2>1. Len(chunks) \in Nat /\ Pending \in 0 .. 1 /\ Pending' \in 0 .. 1
      BY SeqFacts DEF ChunkerInv, ChunkerType, Pending
    <2>2. Overlap < Target => Len(chunks) + Pending <= at - 1
      BY DEF ChunkerInv, CountOK
    <2>3. cur # <<>> => Pending = 1
      BY DEF Pending
    <2>4. n >= at + 1
      BY <1>1, <1>5
    <2>5. \/ Len(chunks') = Len(chunks) + 1 /\ Pending = 1
          \/ Len(chunks') = Len(chunks)
      BY <2>3
    <2>6. Overlap < Target => Len(chunks') + Pending' <= n - 1
      BY <1>1, <1>5, <2>1, <2>2, <2>4, <2>5
    <2>7. QED
      BY <2>6 DEF CountOK, n
  <1>17. QED
    BY <1>4, <1>7, <1>14, <1>15, <1>16 DEF ChunkerInv

LEMMA FullChunkOK ==
  ASSUME C!ChunkerAssumption, ChunkerInv, C!FullChunk
  PROVE  ChunkerInv'
  <1> DEFINE c == IF Overlap > 0 THEN C!TailTokens(cur) ELSE <<>>
  <1>1. /\ mode = "section" /\ at <= Len(body) /\ Len(C!Section) <= Target /\ cur # <<>>
        /\ chunks' = Append(chunks, cur) /\ cur' = c \o C!Section
        /\ at' = C!NextSection /\ body' = body /\ mode' = mode
    BY DEF C!FullChunk, C!Overflows
  <1>2. c \in Texts /\ Len(c) <= Overlap + 1 /\ C!WordsOf(c) \subseteq C!WordsOf(cur)
    <2>1. CASE Overlap > 0
      BY <2>1, TailFacts DEF ChunkerInv, ChunkerType
    <2>2. CASE ~(Overlap > 0)
      <3>1. c = <<>>
        BY <2>2
      <3>2. C!WordsOf(<<>>) = {} /\ <<>> \in Texts
        BY DEF C!WordsOf, Texts
      <3>3. QED
        BY <3>1, <3>2, EmptyFacts DEF C!ChunkerAssumption, C!Overlaps
    <2>3. QED
      BY <2>1, <2>2
  <1>3. /\ chunks' \in Seq(Texts)' /\ Told' = Told \cup C!WordsOf(cur)
        /\ C!ChunksBounded' /\ C!ChunksInOrder'
    BY <1>1, AppendChunk DEF ChunkerInv, ChunkerType, SectionOK
  <1>a. Len(chunks') = Len(chunks) + 1
    BY <1>1, AppendFacts DEF ChunkerInv, ChunkerType
  <1> HIDE DEF c
  <1>4. Len(c) + Len(C!Section) <= Target + Overlap + 1
    <2>1. Len(c) \in Nat /\ Len(C!Section) \in Nat
      BY <1>1, <1>2, SectionFacts, SeqFacts DEF ChunkerInv, Texts
    <2>2. QED
      BY <1>1, <1>2, <2>1 DEF C!ChunkerAssumption, C!Overlaps
  <1>5. QED
    BY <1>1, <1>2, <1>3, <1>4, <1>a, NextCurOK

LEMMA AddSectionOK ==
  ASSUME C!ChunkerAssumption, ChunkerInv, C!AddSection
  PROVE  ChunkerInv'
  <1>1. /\ mode = "section" /\ at <= Len(body) /\ Len(C!Section) <= Target
        /\ (cur = <<>> \/ ~(Len(cur) + Len(C!Section) > Target))
        /\ chunks' = chunks /\ cur' = cur \o C!Section
        /\ at' = C!NextSection /\ body' = body /\ mode' = mode
    BY DEF C!AddSection, C!Overflows
  <1>2. /\ chunks' \in Seq(Texts)' /\ Told' = Told
        /\ C!ChunksBounded' /\ C!ChunksInOrder'
    BY <1>1, BodyKept DEF ChunkerInv, ChunkerType, Texts
  <1>3. Len(cur) + Len(C!Section) <= Target + Overlap + 1
    <2>1. Len(cur) \in Nat /\ Len(C!Section) \in Nat /\ cur \in Texts
      BY <1>1, SectionFacts, SeqFacts DEF ChunkerInv, ChunkerType, Texts
    <2>2. cur = <<>> => Len(cur) = 0
      BY EmptyFacts
    <2>3. QED
      BY <1>1, <2>1, <2>2 DEF C!ChunkerAssumption, C!Overlaps
  <1>4. QED
    BY <1>1, <1>2, <1>3, NextCurOK DEF ChunkerInv, ChunkerType

LEMMA FinishOK ==
  ASSUME C!ChunkerAssumption, ChunkerInv, C!Finish
  PROVE  ChunkerInv'
  <1>1. /\ mode = "section" /\ at > Len(body) /\ chunks' = C!Finalized /\ mode' = "done"
        /\ body' = body /\ at' = at /\ start' = start /\ cur' = cur
    BY DEF C!Finish
  <1>2. /\ chunks' \in Seq(Texts)' /\ Told' = Told \cup C!WordsOf(cur)
        /\ C!ChunksBounded' /\ C!ChunksInOrder'
        /\ Len(chunks') + (IF C!HasWords(cur) THEN 0 ELSE Pending) = Len(chunks) + Pending
    BY <1>1, FinalizeFacts
  <1>3. /\ Texts' = Texts /\ Words' = Words /\ C!Narrow' = C!Narrow
        /\ (C!IsStart(at) => C!IsStart(at)')
    BY <1>1, BodyKept
  <1>4. \A p \in Words : p < at
    BY <1>1, SeqFacts DEF ChunkerInv, ChunkerType, Words, C!Positions
  <1>5. C!Narrow => Words \subseteq Told \cup C!WordsOf(cur)
    BY <1>1, <1>4 DEF ChunkerInv, SectionOK
  <1>6. ChunkerType'
    BY <1>1, <1>2, <1>3 DEF ChunkerInv, ChunkerType
  <1>7. CountOK'
    <2>1. Len(chunks') \in Nat /\ Len(chunks) \in Nat /\ Pending \in 0 .. 1
      BY <1>2, <1>3, SeqFacts DEF ChunkerInv, ChunkerType, Pending
    <2>2. at - 1 <= Len(body) /\ Len(body) \in Nat /\ at \in Nat
      BY SeqFacts DEF ChunkerInv, ChunkerType
    <2>3. Overlap < Target => Len(chunks) + Pending <= at - 1
      BY <1>1 DEF ChunkerInv, CountOK
    <2>4. QED
      BY <1>1, <1>2, <2>1, <2>2, <2>3 DEF CountOK
  <1>8. QED
    BY <1>1, <1>2, <1>3, <1>5, <1>6, <1>7 DEF ChunkerInv, SectionOK, SplitOK

LEMMA ChunkerStepOK ==
  ASSUME C!ChunkerAssumption, ChunkerInv, [C!Next]_(C!vars)
  PROVE  ChunkerInv'
  <1>1. CASE UNCHANGED C!vars
    <2>1. body' = body /\ mode' = mode /\ at' = at /\ start' = start /\ cur' = cur
          /\ chunks' = chunks
      BY <1>1 DEF C!vars
    <2>2. /\ Texts' = Texts /\ Words' = Words /\ C!NextSection' = C!NextSection
          /\ Told' = Told /\ C!ChunksBounded' /\ C!ChunksInOrder'
          /\ C!Narrow' = C!Narrow /\ C!IsStart(at)'
          /\ \A p, i, j : CharIn(p, i, j)' = CharIn(p, i, j)
      BY <2>1, BodyKept DEF ChunkerInv
    <2>3. C!WordsOf(cur)' = C!WordsOf(cur)
      BY <2>1 DEF C!WordsOf, C!Positions
    <2>4. \A r : SplitReach(r)' <=> SplitReach(r)
      BY <2>1, <2>2 DEF SplitReach
    <2>5. SectionOK' /\ SplitOK' /\ ChunkerType' /\ CountOK'
      BY <2>1, <2>2, <2>3, <2>4
         DEF ChunkerInv, SectionOK, SplitOK, ChunkerType, CountOK, Pending
    <2>6. QED
      BY <2>1, <2>2, <2>5 DEF ChunkerInv
  <1>2. QED
    BY <1>1, LargeSectionOK, SplitStepOK, FullChunkOK, AddSectionOK, FinishOK DEF C!Next

\* chunk_prose: for every body, target and overlap, however the chunks cut the characters
\* of the body, a chunk only adds text after everything in the chunks before it, and no
\* word is lost when no character takes more tokens than the overlap and one.
THEOREM ChunksTellTheBody == C!Spec => []ChunksFollowBody
  <1>0. C!ChunkerAssumption
    BY LoopAssumption
  <1> USE <1>0
  <1>1. C!Init => ChunkerInv
    BY ChunkerInitOK
  <1>2. ChunkerInv /\ [C!Next]_(C!vars) => ChunkerInv'
    BY ChunkerStepOK
  <1>3. ChunkerInv => C!ChunksFollowBody
    <2> SUFFICES ASSUME ChunkerInv PROVE C!NothingLost
      BY DEF ChunkerInv, C!ChunksFollowBody
    <2>1. DOMAIN chunks = 1 .. Len(chunks)
      BY SeqFacts DEF ChunkerInv, ChunkerType
    <2>2. QED
      BY <2>1 DEF ChunkerInv, Words, Told, C!NothingLost
  <1>4. QED
    BY <1>1, <1>2, <1>3, PTL DEF C!Spec, ChunksFollowBody

\* No chunk of chunk_prose exceeds the target by more than the overlap carried into it and
\* the space after it.
THEOREM ChunksAreBounded == C!Spec => []ChunksBounded
  <1>0. C!ChunkerAssumption
    BY LoopAssumption
  <1> USE <1>0
  <1>1. C!Init => ChunkerInv
    BY ChunkerInitOK
  <1>2. ChunkerInv /\ [C!Next]_(C!vars) => ChunkerInv'
    BY ChunkerStepOK
  <1>3. ChunkerInv => C!ChunksBounded
    BY DEF ChunkerInv
  <1>4. QED
    BY <1>1, <1>2, <1>3, PTL DEF C!Spec, ChunksBounded

\* chunk_prose never makes more chunks than the body has tokens, so that its loops end, for
\* every body and every overlap below the target: at overlap_ratio = 1.0 it does not end.
THEOREM ChunksAreLimited == C!Spec => []ChunksLimited
  <1>0. C!ChunkerAssumption
    BY LoopAssumption
  <1> USE <1>0
  <1>1. C!Init => ChunkerInv
    BY ChunkerInitOK
  <1>2. ChunkerInv /\ [C!Next]_(C!vars) => ChunkerInv'
    BY ChunkerStepOK
  <1>3. ChunkerInv => C!ChunksLimited
    <2> SUFFICES ASSUME ChunkerInv, Overlap < Target PROVE Len(chunks) <= Len(body)
      BY DEF C!ChunksLimited
    <2>1. /\ Len(chunks) \in Nat /\ Len(body) \in Nat /\ Pending \in 0 .. 1
          /\ at \in 1 .. Len(body) + 1 /\ body \in Seq(Tokens)
      BY SeqFacts DEF ChunkerInv, ChunkerType, Pending
    <2>2. CASE mode = "section"
      BY <2>1, <2>2 DEF ChunkerInv, CountOK
    <2>3. CASE mode = "split"
      <3>1. start \in at .. C!NextSection - 1 /\ at \in 1 .. Len(body)
        BY <2>3 DEF ChunkerInv, SplitOK
      <3>2. C!NextSection \in at + 1 .. Len(body) + 1
        BY <2>1, <3>1, NextSectionFacts
      <3>3. QED
        BY <2>1, <2>3, <3>1, <3>2 DEF ChunkerInv, CountOK
    <2>4. CASE mode = "done"
      BY <2>4 DEF ChunkerInv, CountOK
    <2>5. QED
      BY <2>2, <2>3, <2>4 DEF ChunkerInv
  <1>4. QED
    BY <1>1, <1>2, <1>3, PTL DEF C!Spec, ChunksLimited

=============================================================================
