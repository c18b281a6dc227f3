--------------------------- MODULE RetrievalProofs ---------------------------
(***************************************************************************)
(* Proofs about what a query returns: Search, for stores, pages and scan   *)
(* bounds of any size, and Assembly, for rankings and budgets of any size. *)
(***************************************************************************)
EXTENDS Search, Loops, FiniteSetTheorems, TLAPS

-----------------------------------------------------------------------------
(***************************************************************************)
(* Counting.                                                               *)
(***************************************************************************)
\* A numbering of a finite set that repeats no number uses all of them.
LEMMA NumberingIsOnto ==
  ASSUME NEW S, IsFiniteSet(S), NEW f \in [S -> 1 .. Cardinality(S)],
         \A x, y \in S : f[x] = f[y] => x = y,
         NEW n \in 1 .. Cardinality(S)
  PROVE  \E x \in S : f[x] = n
  <1> DEFINE N == Cardinality(S)
             T == (1 .. N) \ {n}
  <1> SUFFICES ASSUME \A x \in S : f[x] # n PROVE FALSE
    OBVIOUS
  <1>1. N \in Nat
    BY FS_CardinalityType
  <1>2. IsFiniteSet(1 .. N) /\ Cardinality(1 .. N) = N
    BY <1>1, FS_Interval
  <1>3. IsFiniteSet(T) /\ Cardinality(T) = N - 1
    BY <1>2, FS_RemoveElement
  <1>4. f \in [S -> T]
    OBVIOUS
  <1>5. Cardinality(T) < Cardinality(S)
    BY <1>1, <1>3
  <1> HIDE DEF T
  <1>6. \E x, y \in S : x # y /\ f[x] = f[y]
    BY <1>3, <1>4, <1>5, FS_PigeonHole
  <1>7. QED
    BY <1>6

LEMMA IntervalFacts ==
  ASSUME NEW n \in Nat
  PROVE  IsFiniteSet(1 .. n) /\ Cardinality(1 .. n) = n
  <1>1. IsFiniteSet(1 .. n) /\ Cardinality(1 .. n) = IF 1 > n THEN 0 ELSE n - 1 + 1
    BY FS_Interval
  <1>2. QED
    BY <1>1

\* R is a strict total order of S.
IsOrder(S, R) ==
  /\ \A x \in S : <<x, x>> \notin R
  /\ \A x, y, z \in S : <<x, y>> \in R /\ <<y, z>> \in R => <<x, z>> \in R
  /\ \A x, y \in S : x # y => <<x, y>> \in R \/ <<y, x>> \in R

Before(S, R, x) == {y \in S : <<y, x>> \in R}

\* The number of elements before one tells its place, and every place is taken.
Numbers(S, R) ==
  /\ \A x \in S : Cardinality(Before(S, R, x)) \in 0 .. Cardinality(S) - 1
  /\ \A x, z \in S : <<x, z>> \in R =>
       Cardinality(Before(S, R, x)) < Cardinality(Before(S, R, z))
  /\ \A n \in 1 .. Cardinality(S) : \E x \in S : Cardinality(Before(S, R, x)) = n - 1

LEMMA OrderNumbers ==
  ASSUME NEW S, IsFiniteSet(S), NEW R, IsOrder(S, R)
  PROVE  Numbers(S, R)
  <1> DEFINE N == Cardinality(S)
             B(x) == Before(S, R, x)
  <1>1. N \in Nat
    BY FS_CardinalityType
  <1>0. \A x \in S : B(x) \in SUBSET S
    BY DEF Before
  <1>2. \A x \in S : IsFiniteSet(B(x)) /\ Cardinality(B(x)) \in Nat
    BY <1>0, FS_Subset, FS_CardinalityType
  <1>3. ASSUME NEW x \in S PROVE Cardinality(B(x)) \in 0 .. N - 1
    <2>1. B(x) \in SUBSET S /\ B(x) # S
      BY DEF Before, IsOrder
    <2> HIDE DEF B
    <2>2. Cardinality(B(x)) <= N /\ Cardinality(B(x)) # N
      BY <2>1, FS_Subset
    <2>3. QED
      BY <1>1, <1>2, <2>2
  <1>4. ASSUME NEW x \in S, NEW z \in S, <<x, z>> \in R
        PROVE  Cardinality(B(x)) < Cardinality(B(z))
    <2>1. B(x) \in SUBSET B(z) /\ x \in B(z) /\ x \notin B(x)
      BY <1>4 DEF Before, IsOrder
    <2> HIDE DEF B
    <2>2. Cardinality(B(x)) <= Cardinality(B(z)) /\ Cardinality(B(z)) # Cardinality(B(x))
      BY <1>2, <2>1, FS_Subset
    <2>3. QED
      BY <1>2, <2>2
  <1>5. ASSUME NEW n \in 1 .. N PROVE \E x \in S : Cardinality(B(x)) = n - 1
    <2> DEFINE f == [x \in S |-> Cardinality(B(x)) + 1]
    <2> HIDE DEF B
    <2>1. f \in [S -> 1 .. N]
      BY <1>1, <1>3
    <2>2. \A x, y \in S : f[x] = f[y] => x = y
      <3> SUFFICES ASSUME NEW x \in S, NEW y \in S, x # y PROVE f[x] # f[y]
        OBVIOUS
      <3>1. Cardinality(B(x)) < Cardinality(B(y)) \/ Cardinality(B(y)) < Cardinality(B(x))
        BY <1>4 DEF IsOrder
      <3>2. QED
        BY <1>2, <3>1
    <2> HIDE DEF f
    <2>3. \E x \in S : f[x] = n
      BY <2>1, <2>2, NumberingIsOnto
    <2>4. QED
      BY <1>1, <1>2, <2>3 DEF f
  <1>6. QED
    BY <1>3, <1>4, <1>5 DEF Numbers

\* The n-th of a finite set of numbers.
Nth(s, n) == CHOOSE i \in s : Cardinality({j \in s : j <= i}) = n

LEMMA NthFacts ==
  ASSUME NEW s \in SUBSET Int, IsFiniteSet(s)
  PROVE  /\ Cardinality(s) \in Nat
         /\ \A n \in 1 .. Cardinality(s) : Nth(s, n) \in s
         /\ \A m, n \in 1 .. Cardinality(s) : m < n => Nth(s, m) < Nth(s, n)
         /\ \A i \in s : \E n \in 1 .. Cardinality(s) : Nth(s, n) = i
         /\ \A n \in 1 .. Cardinality(s) : \A i \in s :
              Cardinality({j \in s : j <= i}) = n <=> i = Nth(s, n)
  <1> DEFINE N == Cardinality(s)
             R == {p \in s \X s : p[1] < p[2]}
             B(i) == Before(s, R, i)
             U(i) == {j \in s : j <= i}
  <1>0. /\ \A i \in s : i \in Int
        /\ \A i, k \in s : i < k \/ k < i \/ i = k
    OBVIOUS
  <1>1. N \in Nat
    BY FS_CardinalityType
  <1>2. /\ \A i \in s : Cardinality(B(i)) \in 0 .. N - 1
        /\ \A i, k \in s : <<i, k>> \in R => Cardinality(B(i)) < Cardinality(B(k))
        /\ \A n \in 1 .. N : \E i \in s : Cardinality(B(i)) = n - 1
    <2>1. IsOrder(s, R)
      BY DEF IsOrder
    <2> HIDE DEF R
    <2>2. Numbers(s, R)
      BY <2>1, OrderNumbers
    <2>3. QED
      BY <2>2 DEF Numbers
  <1>3. \A i \in s : Cardinality(U(i)) = Cardinality(B(i)) + 1
    <2> SUFFICES ASSUME NEW i \in s PROVE Cardinality(U(i)) = Cardinality(B(i)) + 1
      OBVIOUS
    <2>0. \A j \in s : (j <= i <=> j < i \/ j = i) /\ (<<j, i>> \in R <=> j < i)
      BY <1>0
    <2>1. U(i) = B(i) \cup {i} /\ i \notin B(i) /\ B(i) \in SUBSET s
      <3> HIDE DEF R
      <3>1. i \notin B(i)
        BY <1>0, <2>0 DEF Before
      <3>2. QED
        BY <2>0, <3>1 DEF Before
    <2> HIDE DEF U, B
    <2>2. IsFiniteSet(B(i))
      BY <2>1, FS_Subset
    <2>3. QED
      BY <2>1, <2>2, FS_AddElement
  <1>4. \A i, k \in s : i < k <=> <<i, k>> \in R
    OBVIOUS
  <1> HIDE DEF R, B, U
  <1>5. \A i, k \in s : i < k => Cardinality(U(i)) < Cardinality(U(k))
    <2> SUFFICES ASSUME NEW i \in s, NEW k \in s, i < k
                 PROVE  Cardinality(U(i)) < Cardinality(U(k))
      OBVIOUS
    <2>1. Cardinality(B(i)) \in Int /\ Cardinality(B(k)) \in Int
      BY <1>1, <1>2
    <2>2. Cardinality(B(i)) < Cardinality(B(k))
      BY <1>2, <1>4, Zenon
    <2>3. QED
      BY <1>3, <2>1, <2>2
  <1>6. \A n : Nth(s, n) = CHOOSE i \in s : Cardinality(U(i)) = n
    BY DEF Nth, U
  <1>7. \A n \in 1 .. N : Nth(s, n) \in s /\ Cardinality(U(Nth(s, n))) = n
    <2> SUFFICES ASSUME NEW n \in 1 .. N
                 PROVE  Nth(s, n) \in s /\ Cardinality(U(Nth(s, n))) = n
      OBVIOUS
    <2>1. PICK i \in s : Cardinality(B(i)) = n - 1
      BY <1>2
    <2>2. Cardinality(U(i)) = n
      BY <1>1, <1>3, <2>1
    <2>3. QED
      BY <1>6, <2>2
  <1>8. \A m, n \in 1 .. N : m < n => Nth(s, m) < Nth(s, n)
    <2> SUFFICES ASSUME NEW m \in 1 .. N, NEW n \in 1 .. N, m < n,
                        ~(Nth(s, m) < Nth(s, n))
                 PROVE  FALSE
      OBVIOUS
    <2>1. Nth(s, m) \in s /\ Nth(s, n) \in s
          /\ Cardinality(U(Nth(s, m))) = m /\ Cardinality(U(Nth(s, n))) = n
      BY <1>7
    <2>2. Nth(s, n) < Nth(s, m) \/ Nth(s, n) = Nth(s, m)
      BY <1>0, <2>1
    <2>3. n < m \/ n = m
      BY <1>5, <2>1, <2>2
    <2>4. QED
      BY <1>1, <2>3
  <1>9. \A i \in s : \E n \in 1 .. N : Nth(s, n) = i
    <2> SUFFICES ASSUME NEW i \in s PROVE \E n \in 1 .. N : Nth(s, n) = i
      OBVIOUS
    <2>1. PICK n \in 1 .. N : n = Cardinality(U(i))
      BY <1>1, <1>2, <1>3
    <2>2. Nth(s, n) \in s /\ Cardinality(U(Nth(s, n))) = Cardinality(U(i))
      BY <1>7, <2>1
    <2>3. Nth(s, n) = i
      <3> SUFFICES ASSUME Nth(s, n) # i PROVE FALSE
        OBVIOUS
      <3>1. Nth(s, n) < i \/ i < Nth(s, n)
        BY <1>0, <2>2
      <3>2. Cardinality(U(i)) \in Int
        BY <1>2, <1>3
      <3>3. QED
        <4>1. Cardinality(U(i)) < Cardinality(U(i))
          BY <1>5, <2>2, <3>1, Zenon
        <4>2. QED
          BY <3>2, <4>1
    <2>4. QED
      BY <2>3
  <1>10. \A n \in 1 .. N : \A i \in s : Cardinality(U(i)) = n <=> i = Nth(s, n)
    <2> SUFFICES ASSUME NEW n \in 1 .. N, NEW i \in s, Cardinality(U(i)) = n
                 PROVE  i = Nth(s, n)
      BY <1>7
    <2>1. PICK m \in 1 .. N : Nth(s, m) = i
      BY <1>9
    <2>2. m = n
      BY <1>7, <2>1
    <2>3. QED
      BY <2>1, <2>2
  <1>11. QED
    BY <1>1, <1>7, <1>8, <1>9, <1>10 DEF U

-----------------------------------------------------------------------------
(***************************************************************************)
(* Sequences.                                                              *)
(***************************************************************************)
LEMMA SeqFacts ==
  ASSUME NEW T, NEW s \in Seq(T)
  PROVE  /\ Len(s) \in Nat /\ DOMAIN s = 1 .. Len(s) /\ \A i \in 1 .. Len(s) : s[i] \in T
         /\ s = <<>> <=> Len(s) = 0
  OBVIOUS

LEMMA AppendFacts ==
  ASSUME NEW T, NEW s \in Seq(T), NEW x \in T
  PROVE  /\ Append(s, x) \in Seq(T) /\ Len(Append(s, x)) = Len(s) + 1
         /\ Append(s, x)[Len(s) + 1] = x
         /\ \A i \in 1 .. Len(s) : Append(s, x)[i] = s[i]
  OBVIOUS

LEMMA TailFacts ==
  ASSUME NEW T, NEW s \in Seq(T), s # <<>>
  PROVE  /\ Head(s) = s[1] /\ Head(s) \in T /\ Tail(s) \in Seq(T) /\ Len(Tail(s)) = Len(s) - 1
         /\ \A i \in 1 .. Len(s) - 1 : Tail(s)[i] = s[i + 1]
  OBVIOUS

LEMMA FunctionIsSeq ==
  ASSUME NEW T, NEW n \in Nat, NEW f \in [1 .. n -> T]
  PROVE  f \in Seq(T) /\ Len(f) = n /\ DOMAIN f = 1 .. n
  OBVIOUS

LEMMA PrefixFacts ==
  ASSUME NEW T, NEW s \in Seq(T), NEW n \in 0 .. Len(s)
  PROVE  /\ SubSeq(s, 1, n) \in Seq(T) /\ Len(SubSeq(s, 1, n)) = n
         /\ \A i \in 1 .. n : SubSeq(s, 1, n)[i] = s[i]
  OBVIOUS

-----------------------------------------------------------------------------
(***************************************************************************)
(* Assembly: composition.                                                  *)
(***************************************************************************)
Increasing(q) == \A i, j \in DOMAIN q : i < j => q[i] < q[j]

AssemblyType ==
  /\ ranked \in Seq([pw : BOOLEAN, size : Nat]) /\ budget \in Nat
  /\ band \in A!Bands \cup {A!NoBand}
  /\ stage \in {"compose", "interleave", "assemble", "done"}
  /\ pws \in Seq(A!Ranks) /\ others \in Seq(A!Ranks) /\ composed \in Seq(A!Ranks)

\* A queue holds results of one category in rank order, and those of c come before it.
QueueOK(q, pw, c) ==
  /\ Increasing(q) /\ \A i \in DOMAIN q : ranked[q[i]].pw = pw
  /\ \A j \in DOMAIN c : \A i \in DOMAIN q : ranked[c[j]].pw = pw => c[j] < q[i]

\* Both categories are in rank order in c.
Kept(c) ==
  \A j, k \in DOMAIN c : j < k /\ ranked[c[j]].pw = ranked[c[k]].pw => c[j] < c[k]

CompositionInv ==
  /\ AssemblyType /\ Kept(composed)
  /\ QueueOK(pws, TRUE, composed) /\ QueueOK(others, FALSE, composed)
  /\ stage = "compose" => composed = <<>> /\ pws = <<>> /\ others = <<>>

\* The instance has its own copy of the operators of FiniteSets.
LEMMA SameCardinality == \A S : A!Cardinality(S) = Cardinality(S)
  BY DEF A!Cardinality, Cardinality

LEMMA RankOrderFacts ==
  ASSUME NEW s \in SUBSET Int, IsFiniteSet(s)
  PROVE  /\ A!InRankOrder(s) \in Seq(s) /\ Len(A!InRankOrder(s)) = Cardinality(s)
         /\ Increasing(A!InRankOrder(s))
  <1> DEFINE N == Cardinality(s)
             q == A!InRankOrder(s)
  <1>1. q = [n \in 1 .. N |-> Nth(s, n)]
    <2>1. q = [n \in 1 .. N |-> CHOOSE i \in s : A!Cardinality({j \in s : j <= i}) = n]
      BY SameCardinality DEF A!InRankOrder
    <2>2. ASSUME NEW n \in 1 .. N
          PROVE  (CHOOSE i \in s : A!Cardinality({j \in s : j <= i}) = n) = Nth(s, n)
      <3>1. Nth(s, n) \in s
            /\ \A i \in s : A!Cardinality({j \in s : j <= i}) = n <=> i = Nth(s, n)
        BY NthFacts, SameCardinality
      <3>2. QED
        BY <3>1
    <2>3. QED
      BY <2>1, <2>2
  <1>2. /\ N \in Nat /\ \A n \in 1 .. N : Nth(s, n) \in s
        /\ \A m, n \in 1 .. N : m < n => Nth(s, m) < Nth(s, n)
    BY NthFacts
  <1> HIDE DEF N, q
  <1>3. q \in [1 .. N -> s]
    BY <1>1, <1>2
  <1>4. q \in Seq(s) /\ Len(q) = N /\ DOMAIN q = 1 .. N
    BY <1>2, <1>3, FunctionIsSeq
  <1>5. Increasing(q)
    BY <1>1, <1>2, <1>4 DEF Increasing
  <1>6. QED
    BY <1>4, <1>5 DEF q, N

LEMMA RanksFacts ==
  ASSUME AssemblyType
  PROVE  Len(ranked) \in Nat /\ IsFiniteSet(A!Ranks) /\ A!Ranks \subseteq Nat
  <1>1. Len(ranked) \in Nat
    BY SeqFacts DEF AssemblyType
  <1>2. IsFiniteSet(1 .. Len(ranked))
    BY <1>1, IntervalFacts
  <1>3. QED
    BY <1>1, <1>2 DEF A!Ranks

LEMMA ResultFacts ==
  ASSUME AssemblyType, NEW i \in A!Ranks
  PROVE  ranked[i].size \in Nat /\ ranked[i].pw \in BOOLEAN
  <1>1. ranked[i] \in [pw : BOOLEAN, size : Nat]
    BY SeqFacts DEF AssemblyType, A!Ranks
  <1>2. QED
    BY <1>1

\* No category gets more slots than it has results, nor none when it has any.
LEMMA SlotsFacts ==
  ASSUME AssemblyType, band # A!NoBand, NEW here \in SUBSET A!Ranks, here # {}, NEW there,
         NEW weight \in Nat
  PROVE  A!Slots(weight, here, there) \in 1 .. Cardinality(here)
  <1> DEFINE n == Cardinality(here)
             share == (2 * Len(ranked) * weight + A!Total) \div (2 * A!Total)
  <1>1. n \in Nat /\ n # 0
    <2>1. IsFiniteSet(here)
      BY RanksFacts, FS_Subset
    <2>2. QED
      BY <2>1, FS_CardinalityType, FS_EmptySet
  <1>2. share \in Int
    <2>1. Len(ranked) \in Nat
      BY SeqFacts DEF AssemblyType
    <2>2. A!Total \in Nat \ {0}
      BY DEF AssemblyType, A!Bands, A!Weight, A!Total
    <2>3. 2 * Len(ranked) * weight + A!Total \in Int /\ 2 * A!Total \in Nat \ {0}
      BY <2>1, <2>2
    <2>4. QED
      BY <2>3
  <1>3. A!Slots(weight, here, there)
          = IF there = {} \/ share > n THEN n ELSE IF share < 1 THEN 1 ELSE share
    BY SameCardinality DEF A!Slots
  <1> HIDE DEF share, n
  <1>4. QED
    BY <1>1, <1>2, <1>3 DEF n

LEMMA SelectFacts ==
  ASSUME AssemblyType, band # A!NoBand, NEW here \in SUBSET A!Ranks, NEW there,
         NEW weight \in Nat
  PROVE  /\ A!Select(weight, here, there) \in Seq(here)
         /\ Increasing(A!Select(weight, here, there))
  <1>1. CASE here = {}
    BY <1>1 DEF A!Select, Increasing
  <1>2. CASE here # {}
    <2> DEFINE q == A!InRankOrder(here)
               n == A!Slots(weight, here, there)
    <2>2. IsFiniteSet(here) /\ here \in SUBSET Int
      BY RanksFacts, FS_Subset
    <2>3. q \in Seq(here) /\ Len(q) = Cardinality(here) /\ Increasing(q)
      BY <2>2, RankOrderFacts
    <2>4. n \in 1 .. Cardinality(here) /\ Cardinality(here) \in Nat
      BY <1>2, <2>2, SlotsFacts, FS_CardinalityType
    <2>5. A!Select(weight, here, there) = SubSeq(q, 1, n)
      BY <1>2 DEF A!Select
    <2> HIDE DEF q, n
    <2>6. n \in 0 .. Len(q)
      BY <2>3, <2>4
    <2>7. /\ SubSeq(q, 1, n) \in Seq(here) /\ Len(SubSeq(q, 1, n)) = n
          /\ \A i \in 1 .. n : SubSeq(q, 1, n)[i] = q[i]
      BY <2>3, <2>6, PrefixFacts
    <2>8. DOMAIN SubSeq(q, 1, n) = 1 .. n /\ DOMAIN q = 1 .. Len(q)
      BY <2>3, <2>7, SeqFacts
    <2>9. Increasing(SubSeq(q, 1, n))
      BY <2>3, <2>4, <2>7, <2>8 DEF Increasing
    <2>10. QED
      BY <2>5, <2>7, <2>9
  <1>3. QED
    BY <1>1, <1>2

LEMMA CompositionInit ==
  ASSUME A!AssemblyAssumption
  PROVE  A!Init => CompositionInv
  <1> SUFFICES ASSUME A!Init PROVE CompositionInv
    OBVIOUS
  <1>1. AssemblyType
    BY DEF A!Init, A!AssemblyAssumption, AssemblyType
  <1>2. composed = <<>> /\ pws = <<>> /\ others = <<>>
    BY DEF A!Init
  <1>3. QED
    BY <1>1, <1>2 DEF CompositionInv, Kept, QueueOK, Increasing

\* A queue that is emptied from its front stays in order, and what leaves it may be appended.
LEMMA PlaceFront ==
  ASSUME CompositionInv, NEW q \in Seq(A!Ranks), q # <<>>, NEW r \in Seq(A!Ranks),
         NEW pw \in BOOLEAN, QueueOK(q, pw, composed), QueueOK(r, ~pw, composed)
  PROVE  LET c == Append(composed, Head(q)) IN
         /\ c \in Seq(A!Ranks) /\ Tail(q) \in Seq(A!Ranks) /\ Kept(c)
         /\ QueueOK(Tail(q), pw, c) /\ QueueOK(r, ~pw, c)
  <1> DEFINE n == Len(composed)
             m == Len(q)
             c == Append(composed, Head(q))
             h == Head(q)
             t == Tail(q)
             P(x) == ranked[x].pw
  <1>1. /\ composed \in Seq(A!Ranks) /\ n \in Nat /\ DOMAIN composed = 1 .. n
        /\ m \in Nat \ {0} /\ DOMAIN q = 1 .. m /\ \A i \in 1 .. n : composed[i] \in A!Ranks
        /\ \A i \in 1 .. m : q[i] \in A!Ranks
    <2>1. composed \in Seq(A!Ranks)
      BY DEF CompositionInv, AssemblyType
    <2>2. QED
      BY <2>1, SeqFacts
  <1>2. /\ h = q[1] /\ h \in A!Ranks /\ t \in Seq(A!Ranks) /\ Len(t) = m - 1
        /\ \A i \in 1 .. m - 1 : t[i] = q[i + 1]
    BY TailFacts
  <1>3. /\ c \in Seq(A!Ranks) /\ Len(c) = n + 1 /\ c[n + 1] = h
        /\ \A i \in 1 .. n : c[i] = composed[i]
    BY <1>1, <1>2, AppendFacts
  <1>4. DOMAIN c = 1 .. n + 1 /\ DOMAIN t = 1 .. m - 1
    BY <1>2, <1>3, SeqFacts
  <1>5. A!Ranks \subseteq Nat
    BY RanksFacts DEF CompositionInv
  <1>6. /\ \A i, j \in 1 .. m : i < j => q[i] < q[j]
        /\ \A i \in 1 .. m : P(q[i]) = pw
        /\ \A j \in 1 .. n : \A i \in 1 .. m : P(composed[j]) = pw => composed[j] < q[i]
        /\ \A j \in 1 .. n : \A i \in DOMAIN r : P(composed[j]) = ~pw => composed[j] < r[i]
        /\ Increasing(r) /\ \A i \in DOMAIN r : P(r[i]) = ~pw
        /\ \A j, k \in 1 .. n :
             j < k /\ P(composed[j]) = P(composed[k]) => composed[j] < composed[k]
    BY <1>1 DEF QueueOK, Increasing, CompositionInv, Kept
  <1> HIDE DEF n, m, c, h, t, P
  <1>7. 1 \in 1 .. m /\ P(h) = pw /\ pw # ~pw
    <2>1. 1 \in 1 .. m
      BY <1>1
    <2>2. QED
      BY <1>2, <1>6, <2>1
  <1>8. \A i \in 1 .. n + 1 : i \in 1 .. n \/ i = n + 1
    BY <1>1
  <1>9. \A i \in 1 .. m - 1 : i + 1 \in 1 .. m /\ 1 < i + 1
    BY <1>1
  <1>10. \A j, k \in 1 .. n + 1 : j < k /\ P(c[j]) = P(c[k]) => c[j] < c[k]
    <2> SUFFICES ASSUME NEW j \in 1 .. n + 1, NEW k \in 1 .. n + 1, j < k, P(c[j]) = P(c[k])
                 PROVE  c[j] < c[k]
      OBVIOUS
    <2>1. j \in 1 .. n
      BY <1>1
    <2>2. CASE k \in 1 .. n
      BY <1>3, <1>6, <2>1, <2>2
    <2>3. CASE k = n + 1
      BY <1>2, <1>3, <1>6, <1>7, <2>1, <2>3
    <2>4. QED
      BY <1>8, <2>2, <2>3
  <1>11. \A i, j \in 1 .. m - 1 : i < j => t[i] < t[j]
    <2>1. \A i, j \in 1 .. m - 1 : i < j => i + 1 < j + 1
      BY <1>1
    <2>2. QED
      BY <1>2, <1>6, <1>9, <2>1
  <1>12. \A j \in 1 .. n + 1 : \A i \in 1 .. m - 1 : P(c[j]) = pw => c[j] < t[i]
    <2> SUFFICES ASSUME NEW j \in 1 .. n + 1, NEW i \in 1 .. m - 1, P(c[j]) = pw
                 PROVE  c[j] < q[i + 1]
      BY <1>2
    <2>1. CASE j \in 1 .. n
      BY <1>3, <1>6, <1>9, <2>1
    <2>2. CASE j = n + 1
      BY <1>2, <1>3, <1>6, <1>7, <1>9, <2>2
    <2>3. QED
      BY <1>8, <2>1, <2>2
  <1>13. \A j \in 1 .. n + 1 : \A i \in DOMAIN r : P(c[j]) = ~pw => c[j] < r[i]
    <2> SUFFICES ASSUME NEW j \in 1 .. n + 1, NEW i \in DOMAIN r, P(c[j]) = ~pw
                 PROVE  c[j] < r[i]
      OBVIOUS
    <2>1. j # n + 1
      BY <1>3, <1>7
    <2>2. QED
      BY <1>3, <1>6, <1>8, <2>1
  <1>14. Kept(c)
    BY <1>4, <1>10 DEF Kept, P
  <1>15. QueueOK(t, pw, c)
    <2>1. \A i \in 1 .. m - 1 : P(t[i]) = pw
      BY <1>2, <1>6, <1>9
    <2>2. QED
      BY <1>4, <1>11, <1>12, <2>1 DEF QueueOK, Increasing, P
  <1>16. QueueOK(r, ~pw, c)
    BY <1>4, <1>6, <1>13 DEF QueueOK, P
  <1>17. QED
    BY <1>2, <1>3, <1>14, <1>15, <1>16 DEF c, t

LEMMA CompositionStep ==
  ASSUME CompositionInv, [A!Next]_(A!vars)
  PROVE  CompositionInv'
  <1>0. AssemblyType
    BY DEF CompositionInv
  <1>1. CASE UNCHANGED A!vars
    BY <1>1 DEF A!vars, CompositionInv, AssemblyType, Kept, QueueOK, Increasing,
                A!Ranks
  <1>2. CASE A!Skip
    <2>1. /\ UNCHANGED <<ranked, band, budget, pws, others>>
          /\ composed' = [i \in A!Ranks |-> i] /\ stage' = "assemble"
          /\ stage = "compose" /\ composed = <<>>
      BY <1>2 DEF A!Skip, A!inputVars, CompositionInv
    <2> DEFINE n == Len(ranked)
    <2>2. n \in Nat /\ A!Ranks = 1 .. n
      BY <1>0, RanksFacts DEF A!Ranks
    <2>3. composed' \in [1 .. n -> A!Ranks] /\ \A i \in 1 .. n : composed'[i] = i
      BY <2>1, <2>2
    <2>4. composed' \in Seq(A!Ranks) /\ DOMAIN composed' = 1 .. n
      BY <2>2, <2>3, FunctionIsSeq
    <2>5. AssemblyType'
      BY <1>0, <2>1, <2>4 DEF AssemblyType, A!Ranks
    <2>6. Kept(composed)'
      BY <2>1, <2>3, <2>4 DEF Kept
    <2>7. pws = <<>> /\ others = <<>>
      BY <2>1 DEF CompositionInv
    <2>8. QED
      BY <2>1, <2>5, <2>6, <2>7 DEF CompositionInv, QueueOK, Increasing
  <1>3. CASE A!Compose
    <2> DEFINE w == A!Weight[band]
    <2>1. /\ UNCHANGED <<ranked, band, budget, composed>> /\ stage' = "interleave"
          /\ pws' = A!Select(w.pw, A!Patterns, A!Ranks \ A!Patterns)
          /\ others' = A!Select(w.other, A!Ranks \ A!Patterns, A!Patterns)
          /\ band # A!NoBand /\ composed = <<>>
      BY <1>3 DEF A!Compose, A!inputVars, CompositionInv
    <2>2. w.pw \in Nat /\ w.other \in Nat
      BY <1>0, <2>1 DEF AssemblyType, A!Bands, A!Weight
    <2>3. A!Patterns \in SUBSET A!Ranks /\ A!Ranks \ A!Patterns \in SUBSET A!Ranks
      BY DEF A!Patterns
    <2> HIDE DEF w
    <2>4. pws' \in Seq(A!Patterns) /\ Increasing(pws')
      BY <1>0, <2>1, <2>2, <2>3, SelectFacts
    <2>5. others' \in Seq(A!Ranks \ A!Patterns) /\ Increasing(others')
      BY <1>0, <2>1, <2>2, <2>3, SelectFacts
    <2>6. pws' \in Seq(A!Ranks) /\ \A i \in DOMAIN pws' : ranked[pws'[i]].pw = TRUE
      <3>1. \A i \in A!Patterns : i \in A!Ranks /\ ranked[i].pw = TRUE
        BY <1>0 DEF A!Patterns, A!Ranks, AssemblyType
      <3>2. QED
        BY <2>4, <3>1
    <2>7. others' \in Seq(A!Ranks) /\ \A i \in DOMAIN others' : ranked[others'[i]].pw = FALSE
      <3>1. \A i \in A!Ranks \ A!Patterns : i \in A!Ranks /\ ranked[i].pw = FALSE
        BY <1>0 DEF A!Patterns, A!Ranks, AssemblyType
      <3>2. QED
        BY <2>5, <3>1
    <2>8. AssemblyType'
      BY <1>0, <2>1, <2>6, <2>7 DEF AssemblyType, A!Ranks
    <2>9. Kept(composed)'
      BY <2>1 DEF Kept
    <2>0. DOMAIN composed' = {} /\ ranked' = ranked
      BY <2>1
    <2>10. QueueOK(pws, TRUE, composed)'
      BY <2>0, <2>4, <2>6 DEF QueueOK, Increasing
    <2>11. QueueOK(others, FALSE, composed)'
      BY <2>0, <2>5, <2>7 DEF QueueOK, Increasing
    <2>12. QED
      BY <2>1, <2>8, <2>9, <2>10, <2>11 DEF CompositionInv
  <1>4. CASE A!PlaceNext
    <2>1. UNCHANGED <<ranked, band, budget>> /\ stage = "interleave"
      BY <1>4 DEF A!PlaceNext, A!inputVars
    <2>2. /\ QueueOK(pws, TRUE, composed) /\ QueueOK(others, FALSE, composed)
          /\ pws \in Seq(A!Ranks) /\ others \in Seq(A!Ranks)
      BY DEF CompositionInv, AssemblyType
    <2>3. CASE /\ pws # <<>> /\ composed' = Append(composed, Head(pws)) /\ pws' = Tail(pws)
               /\ others' = others /\ stage' = stage
      <3>1. QueueOK(others, ~TRUE, composed)
        BY <2>2
      <3>2. /\ composed' \in Seq(A!Ranks) /\ pws' \in Seq(A!Ranks) /\ Kept(composed')
            /\ QueueOK(pws', TRUE, composed') /\ QueueOK(others, ~TRUE, composed')
        BY <2>2, <2>3, <3>1, PlaceFront
      <3>3. Kept(composed)' /\ QueueOK(pws, TRUE, composed)' /\ QueueOK(others, FALSE, composed)'
        BY <2>1, <2>3, <3>2 DEF Kept, QueueOK, Increasing
      <3>4. AssemblyType'
        BY <1>0, <2>1, <2>3, <3>2 DEF AssemblyType, A!Ranks
      <3>5. QED
        BY <2>1, <2>3, <3>3, <3>4 DEF CompositionInv
    <2>4. CASE /\ others # <<>> /\ composed' = Append(composed, Head(others))
               /\ others' = Tail(others) /\ pws' = pws /\ stage' = stage
      <3>1. QueueOK(pws, ~FALSE, composed)
        BY <2>2
      <3>2. /\ composed' \in Seq(A!Ranks) /\ others' \in Seq(A!Ranks) /\ Kept(composed')
            /\ QueueOK(others', FALSE, composed') /\ QueueOK(pws, ~FALSE, composed')
        BY <2>2, <2>4, <3>1, PlaceFront
      <3>3. Kept(composed)' /\ QueueOK(pws, TRUE, composed)' /\ QueueOK(others, FALSE, composed)'
        BY <2>1, <2>4, <3>2 DEF Kept, QueueOK, Increasing
      <3>4. AssemblyType'
        BY <1>0, <2>1, <2>4, <3>2 DEF AssemblyType, A!Ranks
      <3>5. QED
        BY <2>1, <2>4, <3>3, <3>4 DEF CompositionInv
    <2>5. CASE pws' = pws /\ others' = others /\ composed' = composed /\ stage' = "assemble"
      BY <2>1, <2>5 DEF CompositionInv, AssemblyType, Kept, QueueOK, Increasing,
                        A!Ranks
    <2>6. QED
      BY <1>4, <2>3, <2>4, <2>5 DEF A!PlaceNext, A!Take
  <1>5. CASE A!AddItem \/ A!Return
    <2>1. /\ UNCHANGED <<ranked, band, budget, pws, others, composed>>
          /\ stage = "assemble" /\ stage' \in {"assemble", "done"}
      BY <1>5 DEF A!AddItem, A!Return, A!inputVars
    <2>2. QED
      BY <2>1 DEF CompositionInv, AssemblyType, Kept, QueueOK, Increasing, A!Ranks
  <1>6. QED
    BY <1>1, <1>2, <1>3, <1>4, <1>5 DEF A!Next

\* In every band, for every ranking, compose_by_complexity keeps the rank order of
\* patterns and warnings and that of the others, and places no result twice.
THEOREM RelevanceIsKept == A!Spec => []RelevanceKept
  <1>0. A!AssemblyAssumption
    BY LoopAssumption
  <1> USE <1>0
  <1>1. A!Init => CompositionInv
    BY CompositionInit
  <1>2. CompositionInv /\ [A!Next]_(A!vars) => CompositionInv'
    BY CompositionStep
  <1>3. CompositionInv => A!RelevanceKept
    BY DEF CompositionInv, Kept, A!RelevanceKept
  <1>4. QED
    BY <1>1, <1>2, <1>3, PTL DEF A!Spec, RelevanceKept

-----------------------------------------------------------------------------
(***************************************************************************)
(* Assembly: packing.                                                      *)
(***************************************************************************)
\* A result is in the block, is empty, or does not fit after what is in it.
Passed(i) == A!In(included, i) \/ A!Size(i) = 0 \/ A!WithItem(i) > budget

PackingInv ==
  /\ CompositionInv /\ size \in Nat /\ place \in Nat \ {0} /\ included \in Seq(A!Ranks)
  /\ stage \in {"compose", "interleave"} => place = 1
  /\ \A k \in 1 .. Len(composed) : k < place => Passed(composed[k])
  /\ stage = "done" => budget = 0 \/ place > Len(composed)

\* What has been passed over stays so while the block grows.
LEMMA PassedStays ==
  ASSUME A!AssemblyAssumption, PackingInv, ranked' = ranked, budget' = budget,
         NEW i \in A!Ranks, Passed(i),
         \/ size' = size /\ included' = included
         \/ /\ \E j \in A!Ranks : A!Size(j) > 0 /\ size' = A!WithItem(j)
            /\ \E j \in A!Ranks : included' = Append(included, j)
  PROVE  Passed(i)'
  <1> DEFINE z(k) == ranked[k].size
             W(k) == z(k) + (IF size = 0 THEN 0 ELSE size + Separator)
             V(k) == z(k) + (IF size' = 0 THEN 0 ELSE size' + Separator)
  <1>1. /\ \A k : A!Size(k) = z(k) /\ A!Size(k)' = z(k)
        /\ \A k : A!WithItem(k) = W(k) /\ A!WithItem(k)' = V(k)
    BY DEF A!Size, A!WithItem
  <1>2. /\ \A k \in A!Ranks : z(k) \in Nat
        /\ size \in Nat /\ budget \in Nat /\ Separator \in Nat /\ included \in Seq(A!Ranks)
    <2>1. /\ size \in Nat /\ budget \in Nat /\ Separator \in Nat /\ included \in Seq(A!Ranks)
      BY DEF PackingInv, CompositionInv, AssemblyType, A!AssemblyAssumption
    <2>2. QED
      BY <2>1, ResultFacts DEF PackingInv, CompositionInv
  <1>3. A!In(included, i) => A!In(included, i)'
    <2>1. CASE included' = included
      BY <2>1 DEF A!In
    <2>2. CASE \E j \in A!Ranks : included' = Append(included, j)
      <3>1. PICK j \in A!Ranks : included' = Append(included, j)
        BY <2>2
      <3>2. /\ \A k \in 1 .. Len(included) : included'[k] = included[k]
            /\ DOMAIN included = 1 .. Len(included) /\ Len(included) \in Nat
            /\ DOMAIN included' = 1 .. Len(included) + 1
        BY <1>2, <3>1, AppendFacts, SeqFacts
      <3>3. \A k \in DOMAIN included : k \in DOMAIN included' /\ included'[k] = included[k]
        BY <3>2
      <3>4. QED
        BY <3>3 DEF A!In
    <2>3. QED
      BY <2>1, <2>2
  <1>4. W(i) > budget => V(i) > budget
    <2>1. CASE size' = size
      BY <2>1
    <2>2. CASE \E j \in A!Ranks : A!Size(j) > 0 /\ size' = A!WithItem(j)
      <3>1. PICK j \in A!Ranks : z(j) > 0 /\ size' = W(j)
        BY <1>1, <2>2
      <3>2. z(i) \in Nat /\ z(j) \in Nat
        BY <1>2
      <3> HIDE DEF z
      <3>3. QED
        BY <1>2, <3>1, <3>2
    <2>3. QED
      BY <2>1, <2>2
  <1> HIDE DEF z, W, V
  <1>5. Passed(i)' <=> A!In(included, i)' \/ z(i) = 0 \/ V(i) > budget
    BY <1>1 DEF Passed
  <1>6. QED
    BY <1>1, <1>3, <1>4, <1>5 DEF Passed

LEMMA PackingStep ==
  ASSUME A!AssemblyAssumption, PackingInv, [A!Next]_(A!vars)
  PROVE  PackingInv'
  <1>0. CompositionInv' /\ CompositionInv
    BY CompositionStep DEF PackingInv
  <1>1. CASE UNCHANGED A!vars
    BY <1>0, <1>1 DEF A!vars, PackingInv, A!Ranks, Passed, A!In, A!Size, A!WithItem
  <1>2. CASE A!Skip \/ A!Compose \/ A!PlaceNext
    <2>1. /\ UNCHANGED <<ranked, budget, place, included, size>> /\ place = 1
          /\ stage' \in {"interleave", "assemble"}
      BY <1>2 DEF A!Skip, A!Compose, A!PlaceNext, A!inputVars, PackingInv
    <2>2. \A k \in 1 .. Len(composed)' : ~(k < 1)
      BY <1>0, SeqFacts DEF CompositionInv, AssemblyType
    <2>3. QED
      BY <1>0, <2>1, <2>2 DEF PackingInv, A!Ranks
  <1>3. CASE A!AddItem
    <2> DEFINE i == composed[place]
    <2>1. /\ UNCHANGED <<ranked, budget, stage, composed>> /\ stage = "assemble"
          /\ place <= Len(composed) /\ budget > 0 /\ place' = place + 1
          /\ \/ A!Size(i) > 0 /\ A!WithItem(i) <= budget /\ size' = A!WithItem(i)
                /\ included' = Append(included, i)
             \/ A!Size(i) > 0 /\ A!WithItem(i) > budget /\ included' = included
                /\ size' = size
             \/ A!Size(i) = 0 /\ included' = included /\ size' = size
      BY <1>3 DEF A!AddItem, A!inputVars, A!AfterSkip
    <2>2. /\ Len(composed) \in Nat /\ place \in 1 .. Len(composed) /\ i \in A!Ranks
          /\ \A k \in 1 .. Len(composed) : composed[k] \in A!Ranks
          /\ place \in Nat /\ size \in Nat /\ included \in Seq(A!Ranks)
      <3>1. composed \in Seq(A!Ranks) /\ place \in Nat \ {0} /\ size \in Nat
            /\ included \in Seq(A!Ranks)
        BY <1>0 DEF PackingInv, CompositionInv, AssemblyType
      <3>2. /\ Len(composed) \in Nat /\ \A k \in 1 .. Len(composed) : composed[k] \in A!Ranks
        BY <3>1, SeqFacts
      <3>3. place \in 1 .. Len(composed)
        BY <2>1, <3>1, <3>2
      <3>4. QED
        BY <3>1, <3>2, <3>3
    <2>3. A!WithItem(i) \in Nat
      <3>1. A!Size(i) \in Nat
        BY <1>0, <2>2, ResultFacts DEF A!Size, CompositionInv
      <3>2. QED
        BY <2>2, <3>1 DEF A!WithItem, A!AssemblyAssumption
    <2> HIDE DEF i
    <2>4. size' \in Nat /\ included' \in Seq(A!Ranks) /\ A!Ranks' = A!Ranks
      BY <2>1, <2>2, <2>3, AppendFacts DEF A!Ranks
    <2>5. \A k \in A!Ranks : Passed(k) => Passed(k)'
      BY <2>1, <2>2, PassedStays
    <2>6. \A k \in 1 .. Len(composed) : k < place => Passed(composed[k])
      BY DEF PackingInv
    <2>7. ASSUME NEW k \in A!Ranks, k = i PROVE Passed(k)'
      <3>1. CASE A!Size(i) > 0 /\ A!WithItem(i) <= budget /\ included' = Append(included, i)
        <4>1. included'[Len(included) + 1] = i /\ Len(included) + 1 \in DOMAIN included'
          <5>1. /\ Append(included, i) \in Seq(A!Ranks)
                /\ Len(Append(included, i)) = Len(included) + 1
                /\ Append(included, i)[Len(included) + 1] = i
            BY <2>2, AppendFacts
          <5>2. Len(included) \in Nat /\ DOMAIN included' = 1 .. Len(included) + 1
            BY <2>2, <3>1, <5>1, SeqFacts
          <5>3. QED
            BY <3>1, <5>1, <5>2
        <4>2. QED
          BY <2>7, <4>1 DEF Passed, A!In
      <3>2. CASE ~(A!Size(i) > 0 /\ A!WithItem(i) <= budget /\ included' = Append(included, i))
        <4>1. Passed(i)
          BY <2>1, <3>2 DEF Passed
        <4>2. QED
          BY <2>5, <2>7, <4>1
      <3>3. QED
        BY <3>1, <3>2
    <2>8. ASSUME NEW k \in 1 .. Len(composed), k < place + 1, NEW p \in A!Ranks, p = composed[k]
          PROVE  Passed(p)'
      <3>1. k < place \/ k = place
        BY <2>2, <2>8
      <3>2. QED
        BY <2>5, <2>6, <2>7, <2>8, <3>1 DEF i
    <2>9. \A k \in 1 .. Len(composed) : k < place + 1 => Passed(composed[k])'
      <3> SUFFICES ASSUME NEW k \in 1 .. Len(composed), k < place + 1 PROVE Passed(composed[k])'
        OBVIOUS
      <3>1. PICK p \in A!Ranks : p = composed[k]
        BY <2>2
      <3>2. Passed(p)'
        BY <2>8, <3>1
      <3>3. QED
        BY <2>1, <3>1, <3>2 DEF Passed, A!In, A!Size, A!WithItem
    <2>10. QED
      BY <1>0, <2>1, <2>2, <2>4, <2>9 DEF PackingInv
  <1>4. CASE A!Return
    <2>1. /\ UNCHANGED <<ranked, budget, place, included, size, composed>>
          /\ (budget = 0 \/ place > Len(composed)) /\ stage' = "done"
      BY <1>4 DEF A!Return, A!inputVars
    <2>2. QED
      BY <1>0, <2>1 DEF PackingInv, A!Ranks, Passed, A!In, A!Size, A!WithItem
  <1>5. QED
    BY <1>1, <1>2, <1>3, <1>4 DEF A!Next

\* assemble_context packs greedily: whatever the ranking and the budget, no result it left
\* out would still fit when it returns.
THEOREM BlocksArePacked == A!Spec => []NothingFitsLeft
  <1>0. A!AssemblyAssumption
    BY LoopAssumption
  <1> USE <1>0
  <1>1. A!Init => PackingInv
    <2> SUFFICES ASSUME A!Init PROVE PackingInv
      OBVIOUS
    <2>1. CompositionInv
      BY CompositionInit
    <2>2. QED
      BY <2>1 DEF A!Init, PackingInv
  <1>2. PackingInv /\ [A!Next]_(A!vars) => PackingInv'
    BY PackingStep
  <1>3. PackingInv => A!NothingFitsLeft
    <2> SUFFICES ASSUME PackingInv, stage = "done", NEW k \in DOMAIN composed
                 PROVE  Passed(composed[k])
      BY DEF A!NothingFitsLeft, Passed
    <2>1. /\ Len(composed) \in Nat /\ k \in 1 .. Len(composed) /\ composed[k] \in A!Ranks
          /\ place \in Nat /\ size \in Nat /\ budget \in Nat
      BY SeqFacts DEF PackingInv, CompositionInv, AssemblyType
    <2>2. CASE budget = 0
      <3>1. A!Size(composed[k]) \in Nat /\ Separator \in Nat
        BY <2>1, ResultFacts DEF A!Size, PackingInv, CompositionInv, A!AssemblyAssumption
      <3>2. QED
        BY <2>1, <2>2, <3>1 DEF Passed, A!WithItem
    <2>3. CASE place > Len(composed)
      BY <2>1, <2>3 DEF PackingInv
    <2>4. QED
      BY <2>2, <2>3 DEF PackingInv
  <1>4. QED
    BY <1>1, <1>2, <1>3, PTL DEF A!Spec, NothingFitsLeft

-----------------------------------------------------------------------------
(***************************************************************************)
(* Search: the invariant.                                                  *)
(***************************************************************************)
Reading == [key : Keys, score : Nat, retired : BOOLEAN]

Distinct(items) == \A i, j \in DOMAIN items : items[i].key = items[j].key => i = j
Has(items, k) == \E i \in DOMAIN items : items[i].key = k
InPart(k, p) == p \in {AllTypes, TypeOf[k]}

\* No two records share a score.
StoreOK ==
  /\ score \in [Keys -> Scores \cup {Absent}]
  /\ \A j, k \in Keys : score[j] = score[k] /\ score[j] # Absent => j = k

SearchType ==
  /\ StoreOK /\ req \in Requests /\ offset \in Nat /\ pages \in Nat
  /\ accepted \in Seq(Reading) /\ gathered \in Seq(Reading) /\ result \in Seq(Reading)
  /\ outcome \in {"running", "returned", "incomplete", "failed"}
  /\ sank \in BOOLEAN /\ short \in BOOLEAN

\* The offset is a number of whole pages, below the scan bound.
Paged ==
  /\ PagesBounded
  /\ outcome = "running" => offset = pages * PageSize /\ offset < MaxScanned

PartNames == STRING \cup {AllTypes}

\* The partitions to search do not overlap.
PartsOK ==
  outcome = "running" =>
    /\ parts \in Seq(PartNames) /\ parts # <<>>
    /\ \A i, j \in DOMAIN parts : parts[i] = parts[j] => i = j
    /\ Len(parts) = 1 \/ \A i \in DOMAIN parts : parts[i] # AllTypes

\* What is read of a record nobody wrote is its score, and it is nobody else's.
Current(items) ==
  \A i \in DOMAIN items : \A k \in Stored \ touched :
    items[i].score = score[k] <=> items[i].key = k

\* Readings of different records, those of the partitions done with and of this one.
ReadOK ==
  outcome = "running" =>
    /\ Len(accepted) < ResultLimit
    /\ Distinct(accepted) /\ Distinct(gathered) /\ Current(accepted) /\ Current(gathered)
    /\ \A i \in DOMAIN accepted : InPart(accepted[i].key, Head(parts))
    /\ \A i \in DOMAIN gathered : \A j \in DOMAIN parts : ~InPart(gathered[i].key, parts[j])

\* Enough items come before k to fill the result.
Beaten(items, k) ==
  Cardinality({i \in DOMAIN items : req.query => items[i].score > score[k]}) >= ResultLimit

Waits(k) == \E i \in DOMAIN parts : InPart(k, parts[i])

\* k is accepted, or it still comes, after everything accepted.
Tracked(k) ==
  \/ Has(accepted, k)
  \/ Place(k) > offset /\ \A i \in DOMAIN accepted : accepted[i].score > score[k]

\* No settled match has been passed over.
ScanOK ==
  outcome = "running" /\ ~sank /\ ~short =>
    \A k \in Settled :
      /\ Waits(k) \/ Has(gathered, k) \/ Beaten(gathered, k)
      /\ InPart(k, Head(parts)) => Tracked(k)

SearchInv ==
  /\ SearchType /\ Paged /\ PartsOK /\ ReadOK /\ ScanOK
  /\ req.substantive /\ short => outcome = "incomplete"
  /\ OneState /\ BestMatchesReturned

-----------------------------------------------------------------------------
(***************************************************************************)
(* Search: the lists it makes.                                             *)
(***************************************************************************)
LEMMA ReadingFacts ==
  ASSUME NEW r \in Reading
  PROVE  r.key \in Keys /\ r.key \in Nat /\ r.score \in Nat
  BY SearchAssumption DEF Reading

LEMMA PickedFacts ==
  ASSUME NEW T, NEW items \in Seq(T), NEW kept \in SUBSET (DOMAIN items)
  PROVE  LET q == Picked(items, kept)
             N == Cardinality(kept)
         IN  /\ N \in Nat /\ q \in Seq(T) /\ Len(q) = N /\ DOMAIN q = 1 .. N
             /\ \A n \in 1 .. N : q[n] = items[Nth(kept, n)] /\ Nth(kept, n) \in kept
             /\ \A m, n \in 1 .. N : m < n => Nth(kept, m) < Nth(kept, n)
             /\ \A i \in kept : \E n \in 1 .. N : Nth(kept, n) = i
  <1> DEFINE q == Picked(items, kept)
             N == Cardinality(kept)
  <1>1. Len(items) \in Nat /\ DOMAIN items = 1 .. Len(items)
        /\ \A i \in DOMAIN items : items[i] \in T
    BY SeqFacts
  <1>2. IsFiniteSet(kept) /\ kept \in SUBSET Int
    <2>1. IsFiniteSet(1 .. Len(items))
      BY <1>1, IntervalFacts
    <2>2. IsFiniteSet(kept)
      BY <1>1, <2>1, FS_Subset
    <2>3. QED
      BY <1>1, <2>2
  <1>3. /\ N \in Nat /\ \A n \in 1 .. N : Nth(kept, n) \in kept
        /\ \A m, n \in 1 .. N : m < n => Nth(kept, m) < Nth(kept, n)
        /\ \A i \in kept : \E n \in 1 .. N : Nth(kept, n) = i
    BY <1>2, NthFacts
  <1>4. q = [n \in 1 .. N |-> items[Nth(kept, n)]]
    BY DEF Picked, Nth
  <1> HIDE DEF q, N
  <1>5. q \in [1 .. N -> T]
    BY <1>1, <1>3, <1>4
  <1>6. q \in Seq(T) /\ Len(q) = N /\ DOMAIN q = 1 .. N
    BY <1>3, <1>5, FunctionIsSeq
  <1>7. QED
    BY <1>3, <1>4, <1>6 DEF q, N

\* All of a list is the list.
LEMMA PickedAll ==
  ASSUME NEW T, NEW items \in Seq(T)
  PROVE  Picked(items, DOMAIN items) = items
  <1> DEFINE N == Len(items)
             D == DOMAIN items
  <1>1. N \in Nat /\ D = 1 .. N /\ D \in SUBSET Int
    BY SeqFacts
  <1> HIDE DEF N, D
  <1>2. IsFiniteSet(D) /\ Cardinality(D) = N
    BY <1>1, IntervalFacts
  <1>3. ASSUME NEW n \in 1 .. N PROVE Nth(D, n) = n
    <2>1. {j \in D : j <= n} = 1 .. n /\ n \in D
      BY <1>1
    <2>2. Cardinality(1 .. n) = n
      BY <1>1, IntervalFacts
    <2>3. Cardinality({j \in D : j <= n}) = n
      BY <2>1, <2>2
    <2>4. \A m \in 1 .. Cardinality(D) : \A i \in D :
            Cardinality({j \in D : j <= i}) = m <=> i = Nth(D, m)
      BY <1>1, <1>2, NthFacts
    <2>5. n \in 1 .. Cardinality(D) /\ n \in D
      BY <1>2, <2>1
    <2>6. QED
      BY <2>3, <2>4, <2>5, Zenon
  <1>4. Picked(items, D) = [n \in 1 .. N |-> items[Nth(D, n)]]
    BY <1>2 DEF Picked, Nth
  <1>5. Picked(items, D) = [n \in 1 .. N |-> items[n]]
    BY <1>3, <1>4
  <1>6. items = [n \in 1 .. N |-> items[n]]
    BY <1>1 DEF D, N
  <1>7. QED
    BY <1>5, <1>6 DEF D

\* A list of different records has nothing to drop.
LEMMA DedupedNothing ==
  ASSUME NEW items \in Seq(Reading), Distinct(items)
  PROVE  Deduped(items, <<>>) = items
  <1> DEFINE kept == {i \in DOMAIN items :
                        /\ \A j \in DOMAIN <<>> : ~SameItem((<<>>)[j], items[i])
                        /\ \A j \in 1 .. (i - 1) : ~SameItem(items[j], items[i])}
  <1>1. Len(items) \in Nat /\ DOMAIN items = 1 .. Len(items)
    BY SeqFacts
  <1>2. \A i \in DOMAIN items : \A j \in 1 .. (i - 1) : j \in DOMAIN items /\ j # i
    BY <1>1
  <1>3. kept = DOMAIN items
    <2>1. DOMAIN <<>> = {}
      OBVIOUS
    <2>2. \A i \in DOMAIN items : \A j \in 1 .. (i - 1) : ~SameItem(items[j], items[i])
      BY <1>2 DEF Distinct, SameItem
    <2>3. QED
      BY <2>1, <2>2, Zenon
  <1>4. Deduped(items, <<>>) = Picked(items, kept)
    BY DEF Deduped
  <1>5. QED
    BY <1>3, <1>4, PickedAll

\* What a page adds: readings of different records, none of them seen, in their order; a
\* record that is on the page once and not seen is among them.
LEMMA DedupedFacts ==
  ASSUME NEW items \in Seq(Reading), NEW seen \in Seq(Reading)
  PROVE  LET d == Deduped(items, seen) IN
         /\ d \in Seq(Reading) /\ Distinct(d)
         /\ \A n \in DOMAIN d : ~Has(seen, d[n].key)
         /\ \E pos \in [DOMAIN d -> DOMAIN items] :
              /\ \A n \in DOMAIN d : d[n] = items[pos[n]]
              /\ \A m, n \in DOMAIN d : m < n => pos[m] < pos[n]
              /\ Distinct(items) =>
                   \A i \in DOMAIN items : ~Has(seen, items[i].key) =>
                     \E n \in DOMAIN d : pos[n] = i
  <1> DEFINE kept == {i \in DOMAIN items :
                        /\ \A j \in DOMAIN seen : ~SameItem(seen[j], items[i])
                        /\ \A j \in 1 .. (i - 1) : ~SameItem(items[j], items[i])}
             d == Deduped(items, seen)
             N == Cardinality(kept)
             pos == [n \in 1 .. N |-> Nth(kept, n)]
  <1>1. Len(items) \in Nat /\ DOMAIN items = 1 .. Len(items)
    BY SeqFacts
  <1>2. d = Picked(items, kept)
    BY DEF Deduped
  <1>3. kept \in SUBSET (DOMAIN items)
    OBVIOUS
  <1>4. /\ \A i \in kept : ~Has(seen, items[i].key)
        /\ \A i, j \in kept : items[i].key = items[j].key => i = j
    <2>1. \A i \in kept : ~Has(seen, items[i].key)
      BY DEF Has, SameItem
    <2>2. ASSUME NEW i \in kept, NEW j \in kept, i # j, items[i].key = items[j].key
          PROVE  FALSE
      <3>1. i \in 1 .. (j - 1) \/ j \in 1 .. (i - 1)
        BY <1>1, <2>2
      <3>2. QED
        BY <2>2, <3>1 DEF SameItem
    <2>3. QED
      BY <2>1, <2>2
  <1>5. Distinct(items) => \A i \in DOMAIN items : ~Has(seen, items[i].key) => i \in kept
    <2>1. \A i \in DOMAIN items : \A j \in 1 .. (i - 1) : j \in DOMAIN items /\ j # i
      BY <1>1
    <2>2. QED
      BY <2>1 DEF Distinct, SameItem, Has
  <1> HIDE DEF kept
  <1>6. /\ N \in Nat /\ d \in Seq(Reading) /\ DOMAIN d = 1 .. N
        /\ \A n \in 1 .. N : d[n] = items[Nth(kept, n)] /\ Nth(kept, n) \in kept
        /\ \A m, n \in 1 .. N : m < n => Nth(kept, m) < Nth(kept, n)
        /\ \A i \in kept : \E n \in 1 .. N : Nth(kept, n) = i
    BY <1>2, <1>3, PickedFacts
  <1> HIDE DEF N, d
  <1>7. Distinct(d)
    <2> SUFFICES ASSUME NEW m \in 1 .. N, NEW n \in 1 .. N, d[m].key = d[n].key, m # n
                 PROVE  FALSE
      BY <1>6 DEF Distinct
    <2>1. Nth(kept, m) = Nth(kept, n)
      BY <1>4, <1>6
    <2>2. Nth(kept, m) \in Int
      BY <1>1, <1>3, <1>6
    <2>3. m < n \/ n < m
      BY <1>6
    <2>4. Nth(kept, m) < Nth(kept, m)
      BY <1>6, <2>1, <2>3, Zenon
    <2>5. QED
      BY <2>2, <2>4
  <1>8. \A n \in DOMAIN d : ~Has(seen, d[n].key)
    BY <1>4, <1>6
  <1>9. /\ pos \in [DOMAIN d -> DOMAIN items]
        /\ \A n \in DOMAIN d : d[n] = items[pos[n]]
        /\ \A m, n \in DOMAIN d : m < n => pos[m] < pos[n]
        /\ Distinct(items) =>
             \A i \in DOMAIN items : ~Has(seen, items[i].key) => \E n \in DOMAIN d : pos[n] = i
    BY <1>3, <1>5, <1>6
  <1> HIDE DEF pos
  <1>10. QED
    BY <1>6, <1>7, <1>8, <1>9 DEF d

\* The items before the i-th.
Ahead(items, i) == {j \in DOMAIN items : Precedes(items[j], items[i])}

LEMMA PrecedesOrder ==
  ASSUME NEW x \in Reading, NEW y \in Reading, NEW z \in Reading
  PROVE  /\ ~Precedes(x, x)
         /\ Precedes(x, y) /\ Precedes(y, z) => Precedes(x, z)
         /\ x.key # y.key => Precedes(x, y) \/ Precedes(y, x)
  <1>1. /\ x.key \in Nat /\ x.score \in Nat /\ y.key \in Nat /\ y.score \in Nat
        /\ z.key \in Nat /\ z.score \in Nat
    BY ReadingFacts
  <1>2. ~Precedes(x, x)
    BY <1>1 DEF Precedes
  <1>3. x.key # y.key => Precedes(x, y) \/ Precedes(y, x)
    BY <1>1 DEF Precedes
  <1>4. Precedes(x, y) /\ Precedes(y, z) => Precedes(x, z)
    BY <1>1 DEF Precedes
  <1>5. QED
    BY <1>2, <1>3, <1>4

\* Sorting different records: every item is there once, at the place that the number of
\* the items before it tells.
LEMMA SortedFacts ==
  ASSUME NEW items \in Seq(Reading), Distinct(items)
  PROVE  LET q == Sorted(items) IN
         /\ q \in Seq(Reading) /\ Len(q) = Len(items)
         /\ \E pos \in [DOMAIN items -> DOMAIN items] :
              /\ \A n \in DOMAIN items :
                   q[n] = items[pos[n]] /\ Cardinality(Ahead(items, pos[n])) = n - 1
              /\ \A i \in DOMAIN items : \E n \in DOMAIN items : pos[n] = i
              /\ \A m, n \in DOMAIN items : m < n => Precedes(items[pos[m]], items[pos[n]])
  <1> DEFINE N == Len(items)
             D == DOMAIN items
             B(i) == Ahead(items, i)
             R == {p \in D \X D : Precedes(items[p[1]], items[p[2]])}
             pos == [n \in D |-> CHOOSE i \in D : Cardinality(B(i)) = n - 1]
             q == Sorted(items)
  <1>1. N \in Nat /\ D = 1 .. N /\ \A i \in D : items[i] \in Reading
    BY SeqFacts
  <1>2. IsFiniteSet(D) /\ Cardinality(D) = N
    BY <1>1, IntervalFacts
  <1>3. /\ \A i \in D : items[i].key \in Nat /\ items[i].score \in Nat
        /\ \A i, j \in D : items[i].key = items[j].key => i = j
    BY <1>1, ReadingFacts DEF Distinct
  <1> HIDE DEF D, N
  <1>4. IsOrder(D, R)
    <2>1. \A i, j \in D : <<i, j>> \in R <=> Precedes(items[i], items[j])
      OBVIOUS
    <2> HIDE DEF R
    <2>2. \A x \in D : ~Precedes(items[x], items[x])
      BY <1>1, PrecedesOrder
    <2>3. \A x, y, z \in D : Precedes(items[x], items[y]) /\ Precedes(items[y], items[z])
                               => Precedes(items[x], items[z])
      BY <1>1, PrecedesOrder
    <2>4. \A x, y \in D : x # y => Precedes(items[x], items[y]) \/ Precedes(items[y], items[x])
      BY <1>1, <1>3, PrecedesOrder
    <2>5. QED
      BY <2>1, <2>2, <2>3, <2>4 DEF IsOrder
  <1>5. \A i \in D : B(i) = Before(D, R, i)
    BY DEF Ahead, Before, D
  <1>6. \A i, j \in D : <<i, j>> \in R <=> Precedes(items[i], items[j])
    OBVIOUS
  <1> HIDE DEF B, R
  <1>7. /\ \A i \in D : Cardinality(B(i)) \in 0 .. N - 1
        /\ \A i, j \in D : <<i, j>> \in R => Cardinality(B(i)) < Cardinality(B(j))
        /\ \A n \in 1 .. N : \E i \in D : Cardinality(B(i)) = n - 1
    <2>1. Numbers(D, R)
      BY <1>2, <1>4, OrderNumbers
    <2>2. QED
      BY <1>2, <1>5, <2>1 DEF Numbers
  <1>8. \A n \in D : pos[n] \in D /\ Cardinality(B(pos[n])) = n - 1
    BY <1>1, <1>7
  <1>9. q = [n \in D |-> items[pos[n]]]
    <2>1. q = [n \in D |-> items[CHOOSE i \in D : Cardinality(B(i)) = n - 1]]
      BY DEF Sorted, B, Ahead, D
    <2>2. QED
      BY <2>1
  <1>10. pos \in [D -> D]
    BY <1>8
  <1> HIDE DEF pos, q
  <1>11. q \in Seq(Reading) /\ Len(q) = N /\ \A n \in D : q[n] = items[pos[n]]
    <2>1. q \in [1 .. N -> Reading]
      BY <1>1, <1>8, <1>9
    <2>2. QED
      BY <1>1, <1>9, <2>1, FunctionIsSeq
  <1>12. \A i, j \in D : i # j => Cardinality(B(i)) # Cardinality(B(j))
    <2> SUFFICES ASSUME NEW i \in D, NEW j \in D, i # j
                 PROVE  Cardinality(B(i)) # Cardinality(B(j))
      OBVIOUS
    <2>1. Cardinality(B(i)) < Cardinality(B(j)) \/ Cardinality(B(j)) < Cardinality(B(i))
      BY <1>4, <1>7 DEF IsOrder
    <2>2. Cardinality(B(i)) \in Int /\ Cardinality(B(j)) \in Int
      BY <1>1, <1>7
    <2>3. QED
      BY <2>1, <2>2
  <1>13. \A i \in D : \E n \in D : pos[n] = i
    <2> SUFFICES ASSUME NEW i \in D PROVE \E n \in D : pos[n] = i
      OBVIOUS
    <2>1. PICK n \in D : n - 1 = Cardinality(B(i))
      <3>1. Cardinality(B(i)) \in 0 .. N - 1
        BY <1>7
      <3>2. Cardinality(B(i)) + 1 \in D /\ (Cardinality(B(i)) + 1) - 1 = Cardinality(B(i))
        BY <1>1, <3>1
      <3>3. QED
        BY <3>2
    <2>2. pos[n] \in D /\ Cardinality(B(pos[n])) = Cardinality(B(i))
      BY <1>8, <2>1
    <2>3. QED
      BY <1>12, <2>2
  <1>14. ASSUME NEW m \in D, NEW n \in D, m < n
         PROVE  Precedes(items[pos[m]], items[pos[n]])
    <2>1. /\ pos[m] \in D /\ pos[n] \in D
          /\ Cardinality(B(pos[m])) = m - 1 /\ Cardinality(B(pos[n])) = n - 1
      BY <1>8
    <2>2. m \in Int /\ n \in Int
      BY <1>1
    <2>3. pos[m] # pos[n]
      BY <1>14, <2>1, <2>2
    <2>4. ~(<<pos[n], pos[m]>> \in R)
      <3> SUFFICES ASSUME <<pos[n], pos[m]>> \in R PROVE FALSE
        OBVIOUS
      <3>1. Cardinality(B(pos[n])) < Cardinality(B(pos[m]))
        BY <1>7, <2>1
      <3>2. QED
        BY <1>14, <2>1, <2>2, <3>1
    <2>5. QED
      BY <1>4, <1>6, <2>1, <2>3, <2>4 DEF IsOrder
  <1>15. /\ \A n \in D : q[n] = items[pos[n]] /\ Cardinality(Ahead(items, pos[n])) = n - 1
         /\ \A i \in D : \E n \in D : pos[n] = i
         /\ \A m, n \in D : m < n => Precedes(items[pos[m]], items[pos[n]])
    BY <1>8, <1>11, <1>13, <1>14 DEF B
  <1>16. QED
    BY <1>10, <1>11, <1>15 DEF q, D, N

\* The ranking of the partition at hand.
LEMMA PlaceFacts ==
  ASSUME StoreOK
  PROVE  /\ Candidates \subseteq Keys /\ Cardinality(Candidates) \in Nat
         /\ \A k \in Candidates : score[k] \in Nat /\ score[k] # Absent
         /\ \A k \in Candidates : Place(k) \in 1 .. Cardinality(Candidates)
         /\ \A j, k \in Candidates : score[j] > score[k] <=> Place(j) < Place(k)
         /\ \A i \in 1 .. Cardinality(Candidates) :
              \E k \in Candidates : Place(k) = i /\ Ranked(i) = Item(k)
  <1> DEFINE S == Candidates
             N == Cardinality(S)
             R == {p \in S \X S : score[p[1]] > score[p[2]]}
             B(k) == {x \in S : score[x] > score[k]}
  <1>1. S \subseteq Keys /\ IsFiniteSet(S)
    <2>1. S \in SUBSET Keys
      BY DEF Candidates, Stored
    <2>2. QED
      BY <2>1, SearchAssumption, FS_Subset
  <1>2. N \in Nat
    BY <1>1, FS_CardinalityType
  <1>3. /\ \A k \in S : score[k] \in Nat /\ score[k] # Absent
        /\ \A j, k \in S : score[j] = score[k] => j = k
    BY SearchAssumption DEF Candidates, Stored, StoreOK, Absent
  <1> HIDE DEF S
  <1>4. IsOrder(S, R)
    BY <1>3 DEF IsOrder
  <1>5. \A k \in S : B(k) = Before(S, R, k)
    BY DEF Before
  <1>6. \A j, k \in S : <<j, k>> \in R <=> score[j] > score[k]
    OBVIOUS
  <1> HIDE DEF R, B, N
  <1>7. /\ \A k \in S : Cardinality(B(k)) \in 0 .. N - 1
        /\ \A j, k \in S : <<j, k>> \in R => Cardinality(B(j)) < Cardinality(B(k))
        /\ \A n \in 1 .. N : \E k \in S : Cardinality(B(k)) = n - 1
    <2>1. Numbers(S, R)
      BY <1>1, <1>4, OrderNumbers
    <2>2. QED
      BY <1>5, <2>1 DEF Numbers, N
  <1>8. \A k : Place(k) = Cardinality(B(k)) + 1
    BY DEF Place, B, S
  <1>9. \A k \in S : Place(k) \in 1 .. N
    BY <1>2, <1>7, <1>8
  <1>10. \A j, k \in S : score[j] > score[k] => Place(j) < Place(k)
    <2> SUFFICES ASSUME NEW j \in S, NEW k \in S, score[j] > score[k] PROVE Place(j) < Place(k)
      OBVIOUS
    <2>1. Cardinality(B(j)) < Cardinality(B(k))
      BY <1>6, <1>7, Zenon
    <2>2. Cardinality(B(j)) \in Int /\ Cardinality(B(k)) \in Int
      BY <1>2, <1>7
    <2>3. QED
      BY <1>8, <2>1, <2>2
  <1>11. \A j, k \in S : Place(j) < Place(k) => score[j] > score[k]
    <2> SUFFICES ASSUME NEW j \in S, NEW k \in S, Place(j) < Place(k), ~(score[j] > score[k])
                 PROVE  FALSE
      OBVIOUS
    <2>1. j = k \/ score[k] > score[j]
      BY <1>3
    <2>2. Place(j) \in Int /\ Place(k) \in Int
      BY <1>2, <1>9
    <2>3. j # k
      BY <2>2
    <2>4. Place(k) < Place(j)
      BY <1>10, <2>1, <2>3
    <2>5. QED
      BY <2>2, <2>4
  <1>12. \A i \in 1 .. N : \E k \in S : Place(k) = i /\ Ranked(i) = Item(k)
    <2> SUFFICES ASSUME NEW i \in 1 .. N
                 PROVE  \E k \in S : Place(k) = i /\ Ranked(i) = Item(k)
      OBVIOUS
    <2>1. PICK k \in S : Cardinality(B(k)) = i - 1
      BY <1>7
    <2>2. Place(k) = i
      BY <1>2, <1>8, <2>1
    <2>3. Place(CHOOSE x \in S : Place(x) = i) = i /\ (CHOOSE x \in S : Place(x) = i) \in S
      BY <2>2
    <2>4. Ranked(i) = Item(CHOOSE x \in S : Place(x) = i)
      BY DEF Ranked, S
    <2>5. QED
      BY <2>3, <2>4
  <1>13. QED
    BY <1>1, <1>2, <1>3, <1>9, <1>10, <1>11, <1>12 DEF S, N

-----------------------------------------------------------------------------
(***************************************************************************)
(* Search: a page.                                                         *)
(***************************************************************************)
\* What FetchPage names.
PageLimit == Lesser(PageSize, MaxScanned - offset)
Fetched == Asearch(FetchLimit(PageLimit))
Page == Cut(Fetched, PageLimit)
New == Deduped(Matching(Page), accepted)
Got == accepted \o Cut(New, ResultLimit - Len(accepted))
Exhausted ==
  \/ Len(Fetched) < offset + PageLimit /\ Len(Fetched) <= PageLimit
  \/ Len(Page) < PageLimit

LEMMA CutFacts ==
  ASSUME NEW T, NEW items \in Seq(T), NEW n \in Nat
  PROVE  /\ Cut(items, n) \in Seq(T) /\ Len(Cut(items, n)) = Lesser(Len(items), n)
         /\ Lesser(Len(items), n) \in 0 .. Len(items) /\ Lesser(Len(items), n) <= n
         /\ \A i \in 1 .. Lesser(Len(items), n) : Cut(items, n)[i] = items[i]
  <1>1. Len(items) \in Nat
    BY SeqFacts
  <1>2. Lesser(Len(items), n) \in 0 .. Len(items) /\ Lesser(Len(items), n) <= n
    BY <1>1 DEF Lesser
  <1>3. QED
    BY <1>2, PrefixFacts DEF Cut

LEMMA ItemFacts ==
  ASSUME StoreOK, NEW k \in Candidates
  PROVE  /\ Item(k) \in Reading /\ Item(k).key = k /\ Item(k).score = score[k]
         /\ k \in Keys /\ InPart(k, Head(parts))
  <1>1. k \in Keys /\ score[k] \in Nat
    BY PlaceFacts
  <1>2. (k \in retired) \in BOOLEAN
    OBVIOUS
  <1>3. QED
    BY <1>1, <1>2 DEF Item, Reading, InPart, Candidates

\* A page is the next stretch of the ranking, and a search that takes the partition for
\* exhausted has read it to its end: the window never hides what comes after the page.
LEMMA PageFacts ==
  ASSUME StoreOK, offset \in Nat, offset < MaxScanned
  PROVE  /\ PageLimit \in 1 .. PageSize /\ offset + PageLimit <= MaxScanned
         /\ PageLimit = PageSize \/ offset + PageLimit = MaxScanned
         /\ Fetched \in Seq(Reading) /\ Page \in Seq(Reading)
         /\ Len(Page) \in 0 .. PageLimit
         /\ \A n \in 1 .. Len(Page) :
              \E k \in Candidates : Place(k) = offset + n /\ Page[n] = Item(k)
         /\ Exhausted => Cardinality(Candidates) <= offset + Len(Page)
         /\ ~Exhausted => Len(Page) = PageLimit
  <1> DEFINE N == Cardinality(Candidates)
             z == PageLimit
             limit == offset + z
             window == Lesser(N, IF req.query THEN 2 * limit + 1 ELSE N)
             last == Lesser(offset + limit, window)
             L == IF last > offset THEN last - offset ELSE 0
  <1>1. /\ z \in 1 .. PageSize /\ offset + z <= MaxScanned
        /\ z = PageSize \/ offset + z = MaxScanned
    BY SearchAssumption DEF PageLimit, Lesser
  <1>2. N \in Nat /\ PageSize \in Nat
    BY PlaceFacts, SearchAssumption
  <1>3. Fetched = [i \in 1 .. L |-> Ranked(offset + i)]
    BY DEF Fetched, Asearch, FetchLimit
  <1> HIDE DEF N, z
  <1>4. /\ L \in Nat /\ last <= N /\ last \in Int
        /\ last < offset + limit => last = window
        /\ window < 2 * limit + 1 => window = N
    BY <1>1, <1>2 DEF Lesser
  <1>5. \A i \in 1 .. L : offset + i \in 1 .. N
    BY <1>2, <1>4
  <1>6. \A i \in 1 .. L : \E k \in Candidates : Place(k) = offset + i /\ Ranked(offset + i) = Item(k)
    BY <1>5, PlaceFacts DEF N
  <1>7. \A i \in 1 .. L : Ranked(offset + i) \in Reading
    BY <1>6, ItemFacts
  <1>8. last - offset <= L /\ (last > offset => last = offset + L)
    BY <1>4
  <1> HIDE DEF L
  <1>9. Fetched \in Seq(Reading) /\ Len(Fetched) = L
    <2>1. Fetched \in [1 .. L -> Reading]
      BY <1>3, <1>7
    <2>2. QED
      BY <1>4, <2>1, FunctionIsSeq
  <1>10. /\ Page \in Seq(Reading) /\ Len(Page) = Lesser(L, z)
         /\ Lesser(L, z) \in 0 .. L /\ Lesser(L, z) <= z
         /\ \A n \in 1 .. Lesser(L, z) : Page[n] = Fetched[n]
    <2>1. z \in Nat
      BY <1>1, <1>2
    <2>2. QED
      BY <1>9, <2>1, CutFacts DEF Page, z
  <1>11. Len(Page) \in 0 .. z /\ Len(Page) <= L /\ (Len(Page) = L \/ Len(Page) = z)
    BY <1>1, <1>2, <1>4, <1>10 DEF Lesser
  <1>12. \A n \in 1 .. Len(Page) :
           \E k \in Candidates : Place(k) = offset + n /\ Page[n] = Item(k)
    <2> SUFFICES ASSUME NEW n \in 1 .. Len(Page)
                 PROVE  \E k \in Candidates : Place(k) = offset + n /\ Page[n] = Item(k)
      OBVIOUS
    <2>1. n \in 1 .. L /\ n \in 1 .. Lesser(L, z)
      BY <1>4, <1>10, <1>11
    <2>2. Page[n] = Ranked(offset + n)
      BY <1>3, <1>10, <2>1
    <2>3. QED
      BY <1>6, <2>1, <2>2
  <1>13. Exhausted => N <= offset + Len(Page)
    <2> SUFFICES ASSUME Exhausted PROVE N <= offset + Len(Page)
      OBVIOUS
    <2>1. (L < limit /\ L <= z) \/ Len(Page) < z
      BY <1>9 DEF Exhausted, z
    <2>2. Len(Page) = L /\ L < limit
      BY <1>1, <1>2, <1>4, <1>11, <2>1
    <2>3. last < offset + limit
      BY <1>1, <1>2, <1>4, <1>8, <2>2
    <2>4. last = window
      BY <1>4, <2>3
    <2>5. window < 2 * limit + 1
      BY <1>1, <1>2, <1>4, <2>3, <2>4
    <2>6. last = N
      BY <1>4, <2>4, <2>5
    <2> HIDE DEF last
    <2>7. QED
      BY <1>1, <1>2, <1>4, <1>8, <2>2, <2>6
  <1>14. ~Exhausted => Len(Page) = z
    BY <1>1, <1>2, <1>11 DEF Exhausted, z
  <1>15. QED
    BY <1>1, <1>9, <1>10, <1>11, <1>12, <1>13, <1>14 DEF N, z

\* What a page adds to the accepted items.
LEMMA NewFacts ==
  ASSUME Page \in Seq(Reading), accepted \in Seq(Reading), Distinct(Page)
  PROVE  /\ New \in Seq(Reading) /\ Distinct(New)
         /\ \A n \in DOMAIN New : ~Has(accepted, New[n].key)
         /\ \A n \in DOMAIN New : \E m \in DOMAIN Page : New[n] = Page[m]
         /\ \A m \in DOMAIN Page : Matches(Page[m]) /\ ~Has(accepted, Page[m].key) =>
              \E n \in DOMAIN New :
                /\ New[n] = Page[m]
                /\ \A l \in DOMAIN New : l < n => \E i \in DOMAIN Page : i < m /\ New[l] = Page[i]
  <1> DEFINE kept == {i \in DOMAIN Page : Matches(Page[i])}
             M == Matching(Page)
             K == Cardinality(kept)
  <1>1. M = Picked(Page, kept) /\ kept \in SUBSET (DOMAIN Page)
    BY DEF Matching
  <1>2. \A i \in kept : i \in DOMAIN Page /\ Matches(Page[i])
    OBVIOUS
  <1>3. \A i \in DOMAIN Page : Matches(Page[i]) => i \in kept
    OBVIOUS
  <1> HIDE DEF M, K, kept
  <1>4. /\ K \in Nat /\ M \in Seq(Reading) /\ Len(M) = K /\ DOMAIN M = 1 .. K
        /\ \A n \in 1 .. K : M[n] = Page[Nth(kept, n)] /\ Nth(kept, n) \in kept
        /\ \A m, n \in 1 .. K : m < n => Nth(kept, m) < Nth(kept, n)
        /\ \A i \in kept : \E n \in 1 .. K : Nth(kept, n) = i
    BY <1>1, PickedFacts DEF K
  <1>5. DOMAIN Page \subseteq Int
    BY SeqFacts
  <1>6. Distinct(M)
    <2> SUFFICES ASSUME NEW m \in 1 .. K, NEW n \in 1 .. K, M[m].key = M[n].key, m # n
                 PROVE  FALSE
      BY <1>4 DEF Distinct
    <2>1. Nth(kept, m) = Nth(kept, n)
      BY <1>2, <1>4 DEF Distinct
    <2>2. Nth(kept, m) \in Int
      BY <1>2, <1>4, <1>5
    <2>3. m < n \/ n < m
      BY <1>4
    <2>4. Nth(kept, m) < Nth(kept, m)
      BY <1>4, <2>1, <2>3, Zenon
    <2>5. QED
      BY <2>2, <2>4
  <1>7. New = Deduped(M, accepted)
    BY DEF New, M
  <1>8. /\ New \in Seq(Reading) /\ Distinct(New)
        /\ \A n \in DOMAIN New : ~Has(accepted, New[n].key)
    BY <1>4, <1>7, DedupedFacts
  <1>9. PICK f \in [DOMAIN New -> DOMAIN M] :
              /\ \A n \in DOMAIN New : New[n] = M[f[n]]
              /\ \A m, n \in DOMAIN New : m < n => f[m] < f[n]
              /\ \A i \in DOMAIN M : ~Has(accepted, M[i].key) => \E n \in DOMAIN New : f[n] = i
    <2>1. \E pos \in [DOMAIN New -> DOMAIN M] :
             /\ \A n \in DOMAIN New : New[n] = M[pos[n]]
             /\ \A m, n \in DOMAIN New : m < n => pos[m] < pos[n]
             /\ Distinct(M) =>
                  \A i \in DOMAIN M : ~Has(accepted, M[i].key) =>
                    \E n \in DOMAIN New : pos[n] = i
      <3> DEFINE d == Deduped(M, accepted)
      <3>1. M \in Seq(Reading) /\ accepted \in Seq(Reading)
        BY <1>4
      <3>2. \E pos \in [DOMAIN d -> DOMAIN M] :
               /\ \A n \in DOMAIN d : d[n] = M[pos[n]]
               /\ \A m, n \in DOMAIN d : m < n => pos[m] < pos[n]
               /\ Distinct(M) =>
                    \A i \in DOMAIN M : ~Has(accepted, M[i].key) =>
                      \E n \in DOMAIN d : pos[n] = i
        BY <3>1, DedupedFacts
      <3> HIDE DEF d
      <3>3. New = d
        BY <1>7 DEF d
      <3>4. QED
        BY <3>2, <3>3
    <2>2. QED
      BY <1>6, <2>1, Zenon
  <1>10. \A n \in DOMAIN New : f[n] \in 1 .. K
    BY <1>4, <1>9
  <1>11. \A n \in DOMAIN New :
            New[n] = Page[Nth(kept, f[n])] /\ Nth(kept, f[n]) \in DOMAIN Page
    BY <1>2, <1>4, <1>9, <1>10
  <1>12. ASSUME NEW m \in DOMAIN Page, Matches(Page[m]), ~Has(accepted, Page[m].key)
         PROVE  \E n \in DOMAIN New :
                  /\ New[n] = Page[m]
                  /\ \A l \in DOMAIN New : l < n =>
                       \E i \in DOMAIN Page : i < m /\ New[l] = Page[i]
    <2>1. PICK j \in 1 .. K : Nth(kept, j) = m
      BY <1>3, <1>4, <1>12
    <2>2. M[j] = Page[m]
      BY <1>4, <2>1
    <2>3. PICK n \in DOMAIN New : f[n] = j
      BY <1>4, <1>9, <1>12, <2>2
    <2>4. New[n] = Page[m]
      BY <1>9, <2>2, <2>3
    <2>5. \A l \in DOMAIN New : l < n => Nth(kept, f[l]) < m
      BY <1>4, <1>9, <1>10, <2>1, <2>3
    <2>6. QED
      BY <1>11, <2>4, <2>5
  <1>13. QED
    BY <1>8, <1>11, <1>12

LEMMA ConcatFacts ==
  ASSUME NEW T, NEW s \in Seq(T), NEW t \in Seq(T)
  PROVE  /\ s \o t \in Seq(T) /\ Len(s \o t) = Len(s) + Len(t)
         /\ \A i \in 1 .. Len(s) : (s \o t)[i] = s[i]
         /\ \A i \in 1 .. Len(t) : (s \o t)[Len(s) + i] = t[i]
  OBVIOUS

LEMMA SplitIndex ==
  ASSUME NEW a \in Nat, NEW b \in Nat, NEW i \in 1 .. a + b
  PROVE  i \in 1 .. a \/ \E j \in 1 .. b : i = a + j
  <1> SUFFICES ASSUME i \notin 1 .. a PROVE \E j \in 1 .. b : i = a + j
    OBVIOUS
  <1>1. i - a \in 1 .. b /\ i = a + (i - a)
    OBVIOUS
  <1>2. QED
    BY <1>1

\* Two lists of different records that share none.
LEMMA ConcatDistinct ==
  ASSUME NEW s \in Seq(Reading), NEW t \in Seq(Reading), Distinct(s), Distinct(t),
         \A i \in DOMAIN t : ~Has(s, t[i].key), NEW u, u = s \o t
  PROVE  Distinct(u)
  <1> DEFINE a == Len(s)
             b == Len(t)
  <1>0. u \in Seq(Reading) /\ Len(u) = a + b
    BY ConcatFacts
  <1>1. /\ DOMAIN u = 1 .. a + b /\ \A i \in 1 .. a : u[i] = s[i]
        /\ \A i \in 1 .. b : u[a + i] = t[i]
    BY <1>0, ConcatFacts, SeqFacts
  <1>2. DOMAIN s = 1 .. a /\ DOMAIN t = 1 .. b /\ a \in Nat /\ b \in Nat
    BY SeqFacts
  <1> HIDE DEF a, b
  <1> SUFFICES ASSUME NEW i \in 1 .. a + b, NEW j \in 1 .. a + b, u[i].key = u[j].key
               PROVE  i = j
    BY <1>1 DEF Distinct
  <1>3. CASE i \in 1 .. a /\ j \in 1 .. a
    <2>1. s[i].key = s[j].key /\ i \in DOMAIN s /\ j \in DOMAIN s
      BY <1>1, <1>2, <1>3
    <2>2. QED
      BY <2>1, Zenon DEF Distinct
  <1>4. CASE i \in 1 .. a /\ \E y \in 1 .. b : j = a + y
    <2>1. PICK y \in 1 .. b : j = a + y
      BY <1>4
    <2>2. s[i].key = t[y].key /\ i \in DOMAIN s /\ y \in DOMAIN t
      BY <1>1, <1>2, <1>4, <2>1
    <2>3. QED
      BY <2>2, Zenon DEF Has
  <1>5. CASE (\E x \in 1 .. b : i = a + x) /\ j \in 1 .. a
    <2>1. PICK x \in 1 .. b : i = a + x
      BY <1>5
    <2>2. s[j].key = t[x].key /\ j \in DOMAIN s /\ x \in DOMAIN t
      BY <1>1, <1>2, <1>5, <2>1
    <2>3. QED
      BY <2>2, Zenon DEF Has
  <1>6. CASE (\E x \in 1 .. b : i = a + x) /\ \E y \in 1 .. b : j = a + y
    <2>1. PICK x \in 1 .. b : i = a + x
      BY <1>6
    <2>2. PICK y \in 1 .. b : j = a + y
      BY <1>6
    <2>3. t[x].key = t[y].key
      BY <1>1, <2>1, <2>2
    <2>4. x = y
      BY <1>2, <2>3 DEF Distinct
    <2>5. QED
      BY <2>1, <2>2, <2>4
  <1>7. QED
    BY <1>2, <1>3, <1>4, <1>5, <1>6, SplitIndex

LEMMA PageDistinct ==
  ASSUME StoreOK, offset \in Nat, offset < MaxScanned
  PROVE  /\ Distinct(Page) /\ DOMAIN Page = 1 .. Len(Page) /\ Len(Page) \in Nat
         /\ \A n \in DOMAIN Page : \E k \in Candidates : Place(k) = offset + n /\ Page[n] = Item(k)
  <1>1. /\ Page \in Seq(Reading)
        /\ \A n \in 1 .. Len(Page) :
             \E k \in Candidates : Place(k) = offset + n /\ Page[n] = Item(k)
    BY PageFacts
  <1>2. DOMAIN Page = 1 .. Len(Page) /\ Len(Page) \in Nat
    BY <1>1, SeqFacts
  <1>3. Distinct(Page)
    <2> SUFFICES ASSUME NEW m \in 1 .. Len(Page), NEW n \in 1 .. Len(Page),
                        Page[m].key = Page[n].key
                 PROVE  m = n
      BY <1>2 DEF Distinct
    <2>1. PICK j \in Candidates : Place(j) = offset + m /\ Page[m] = Item(j)
      BY <1>1
    <2>2. PICK k \in Candidates : Place(k) = offset + n /\ Page[n] = Item(k)
      BY <1>1
    <2>3. j = k
      BY <2>1, <2>2, ItemFacts
    <2>4. offset + m = offset + n
      BY <2>1, <2>2, <2>3
    <2>5. QED
      BY <1>2, <2>4
  <1>4. QED
    BY <1>1, <1>2, <1>3

\* The accepted items after a page.
LEMMA GotParts ==
  ASSUME SearchInv, outcome = "running"
  PROVE  LET a == Len(accepted)
             b == Len(Got) - a
         IN  /\ a \in Nat /\ b \in Nat /\ Got \in Seq(Reading) /\ DOMAIN Got = 1 .. a + b
             /\ DOMAIN accepted = 1 .. a
             /\ \A i \in 1 .. a : Got[i] = accepted[i]
             /\ \A i \in 1 .. b : Got[a + i] = New[i] /\ i \in DOMAIN New
             /\ \A i \in 1 .. a + b : i \in 1 .. a \/ \E j \in 1 .. b : i = a + j
             /\ a + b <= ResultLimit
             /\ a + b = ResultLimit \/ DOMAIN New = 1 .. b
             /\ Distinct(Got)
             /\ \A n \in DOMAIN New : \E m \in DOMAIN Page : New[n] = Page[m]
  <1> DEFINE a == Len(accepted)
             r == ResultLimit - a
             c == Cut(New, r)
             b == Len(c)
  <1>1. /\ StoreOK /\ offset \in Nat /\ offset < MaxScanned /\ accepted \in Seq(Reading)
        /\ a < ResultLimit /\ Distinct(accepted) /\ ResultLimit \in Nat
    BY SearchAssumption DEF SearchInv, SearchType, Paged, ReadOK
  <1>2. a \in Nat /\ r \in Nat /\ DOMAIN accepted = 1 .. a
    BY <1>1, SeqFacts
  <1>3. Page \in Seq(Reading) /\ Distinct(Page)
    BY <1>1, PageFacts, PageDistinct
  <1>4. /\ New \in Seq(Reading) /\ Distinct(New)
        /\ \A n \in DOMAIN New : ~Has(accepted, New[n].key)
        /\ \A n \in DOMAIN New : \E m \in DOMAIN Page : New[n] = Page[m]
    BY <1>1, <1>3, NewFacts
  <1>5. Len(New) \in Nat /\ DOMAIN New = 1 .. Len(New)
    BY <1>4, SeqFacts
  <1>6. /\ c \in Seq(Reading) /\ b = Lesser(Len(New), r) /\ b \in 0 .. Len(New) /\ b <= r
        /\ \A i \in 1 .. b : c[i] = New[i]
    BY <1>2, <1>4, CutFacts
  <1>7. DOMAIN c = 1 .. b /\ b \in Nat
    BY <1>6, SeqFacts
  <1>8. Got = accepted \o c
    BY DEF Got
  <1> HIDE DEF c, r, b
  <1>9. \A i \in 1 .. b : i \in DOMAIN New
    BY <1>5, <1>6
  <1>10. b = r \/ DOMAIN New = 1 .. b
    BY <1>2, <1>5, <1>6 DEF Lesser
  <1>11. Distinct(c)
    BY <1>4, <1>6, <1>7, <1>9 DEF Distinct
  <1>12. Distinct(Got)
    <2>1. \A i \in DOMAIN c : ~Has(accepted, c[i].key)
      BY <1>4, <1>6, <1>7, <1>9
    <2>2. QED
      BY <1>1, <1>6, <1>8, <1>11, <2>1, ConcatDistinct
  <1>13. /\ Got \in Seq(Reading) /\ Len(Got) = a + b /\ DOMAIN Got = 1 .. a + b
         /\ \A i \in 1 .. a : Got[i] = accepted[i]
         /\ \A i \in 1 .. b : Got[a + i] = c[i]
         /\ \A i \in 1 .. a + b : i \in 1 .. a \/ \E j \in 1 .. b : i = a + j
    <2>1. /\ Got \in Seq(Reading) /\ Len(Got) = a + b
          /\ \A i \in 1 .. a : Got[i] = accepted[i]
          /\ \A i \in 1 .. b : Got[a + i] = c[i]
      <3>1. accepted \in Seq(Reading) /\ c \in Seq(Reading)
        BY <1>1, <1>6
      <3>2. /\ accepted \o c \in Seq(Reading) /\ Len(accepted \o c) = a + b
            /\ \A i \in 1 .. a : (accepted \o c)[i] = accepted[i]
            /\ \A i \in 1 .. b : (accepted \o c)[a + i] = c[i]
        BY <3>1, ConcatFacts DEF b
      <3>3. QED
        BY <1>8, <3>2, Zenon
    <2>2. DOMAIN Got = 1 .. a + b
      BY <2>1, SeqFacts
    <2>3. QED
      BY <1>2, <1>7, <2>1, <2>2, SplitIndex
  <1>14. Len(Got) - a = b
    BY <1>2, <1>7, <1>13
  <1>15. a + b <= ResultLimit /\ (b = r => a + b = ResultLimit)
    BY <1>1, <1>2, <1>6, <1>7 DEF r
  <1>16. QED
    BY <1>2, <1>4, <1>6, <1>7, <1>9, <1>10, <1>12, <1>13, <1>14, <1>15

LEMMA GotFacts ==
  ASSUME SearchInv, outcome = "running"
  PROVE  /\ Got \in Seq(Reading) /\ Len(Got) <= ResultLimit /\ Distinct(Got) /\ Current(Got)
         /\ \A i \in DOMAIN Got : InPart(Got[i].key, Head(parts))
         /\ \A k : Has(accepted, k) => Has(Got, k)
  <1> DEFINE a == Len(accepted)
             b == Len(Got) - a
  <1>1. /\ StoreOK /\ offset \in Nat /\ offset < MaxScanned
        /\ Current(accepted) /\ \A i \in DOMAIN accepted : InPart(accepted[i].key, Head(parts))
    BY DEF SearchInv, SearchType, Paged, ReadOK
  <1>2. /\ a \in Nat /\ b \in Nat /\ Got \in Seq(Reading) /\ DOMAIN Got = 1 .. a + b
        /\ DOMAIN accepted = 1 .. a
        /\ \A i \in 1 .. a : Got[i] = accepted[i]
        /\ \A i \in 1 .. b : Got[a + i] = New[i] /\ i \in DOMAIN New
        /\ \A i \in 1 .. a + b : i \in 1 .. a \/ \E j \in 1 .. b : i = a + j
        /\ a + b <= ResultLimit /\ Distinct(Got)
        /\ \A n \in DOMAIN New : \E m \in DOMAIN Page : New[n] = Page[m]
    BY GotParts
  <1>3. \A m \in DOMAIN Page : \E k \in Candidates : Page[m] = Item(k)
    BY <1>1, PageDistinct
  <1>4. Len(Got) = a + b
    <2>1. Len(Got) \in Nat
      BY <1>2, SeqFacts
    <2>2. QED
      BY <1>2, <2>1
  <1> HIDE DEF a, b
  <1>5. \A i \in 1 .. a + b : i \in 1 .. a \/ \E k \in Candidates : Got[i] = Item(k)
    BY <1>2, <1>3
  <1>6. \A i \in DOMAIN Got : InPart(Got[i].key, Head(parts))
    BY <1>1, <1>2, <1>5, ItemFacts
  <1>7. Current(Got)
    <2> SUFFICES ASSUME NEW i \in 1 .. a + b, NEW k \in Stored \ touched
                 PROVE  Got[i].score = score[k] <=> Got[i].key = k
      BY <1>2 DEF Current
    <2>1. CASE i \in 1 .. a
      BY <1>1, <1>2, <2>1 DEF Current
    <2>2. CASE \E j \in Candidates : Got[i] = Item(j)
      <3>1. PICK j \in Candidates : Got[i] = Item(j)
        BY <2>2
      <3>2. Got[i].key = j /\ Got[i].score = score[j]
        BY <1>1, <3>1, ItemFacts
      <3>3. score[j] = score[k] <=> j = k
        BY <1>1 DEF StoreOK, Stored, Candidates
      <3>4. QED
        BY <3>2, <3>3
    <2>3. QED
      BY <1>5, <2>1, <2>2
  <1>8. \A k : Has(accepted, k) => Has(Got, k)
    <2>1. \A i \in 1 .. a : i \in DOMAIN Got
      BY <1>2
    <2>2. QED
      BY <1>2, <2>1 DEF Has
  <1>9. QED
    BY <1>2, <1>4, <1>6, <1>7, <1>8

\* A settled match of the partition is accepted with this page, or everything accepted
\* comes before it and it still comes, or the page was the last one that was needed.
LEMMA PageTracks ==
  ASSUME SearchInv, outcome = "running", NEW k \in Settled, InPart(k, Head(parts)), Tracked(k)
  PROVE  \/ Has(Got, k)
         \/ /\ \A i \in DOMAIN Got : Got[i].score > score[k]
            /\ \/ Len(Got) = ResultLimit
               \/ ~Exhausted /\ Place(k) > offset + Len(Page)
  <1> DEFINE a == Len(accepted)
             b == Len(Got) - a
             P == Len(Page)
  <1>1. /\ StoreOK /\ offset \in Nat /\ offset < MaxScanned /\ accepted \in Seq(Reading)
    BY DEF SearchInv, SearchType, Paged
  <1>2. /\ a \in Nat /\ b \in Nat /\ Got \in Seq(Reading) /\ DOMAIN Got = 1 .. a + b
        /\ DOMAIN accepted = 1 .. a
        /\ \A i \in 1 .. a : Got[i] = accepted[i]
        /\ \A i \in 1 .. b : Got[a + i] = New[i] /\ i \in DOMAIN New
        /\ \A i \in 1 .. a + b : i \in 1 .. a \/ \E j \in 1 .. b : i = a + j
        /\ a + b <= ResultLimit
        /\ a + b = ResultLimit \/ DOMAIN New = 1 .. b
        /\ \A n \in DOMAIN New : \E m \in DOMAIN Page : New[n] = Page[m]
    BY GotParts
  <1>3. Len(Got) = a + b
    <2>1. Len(Got) \in Nat
      BY <1>2, SeqFacts
    <2>2. QED
      BY <1>2, <2>1
  <1>4. CASE Has(accepted, k)
    BY <1>4, GotFacts
  <1>5. CASE ~Has(accepted, k)
    <2>1. Place(k) > offset /\ \A i \in 1 .. a : accepted[i].score > score[k]
      BY <1>2, <1>5 DEF Tracked
    <2>2. k \in Candidates /\ Matches(Item(k))
      BY DEF Settled, Candidates, InPart
    <2>3. Place(k) \in 1 .. Cardinality(Candidates) /\ Cardinality(Candidates) \in Nat
      BY <1>1, <2>2, PlaceFacts
    <2>4. /\ Distinct(Page) /\ DOMAIN Page = 1 .. P /\ P \in Nat
          /\ \A n \in DOMAIN Page :
               \E j \in Candidates : Place(j) = offset + n /\ Page[n] = Item(j)
      BY <1>1, PageDistinct
    <2>5. \A j \in Candidates : Place(j) < Place(k) => Item(j).score > score[k]
      BY <1>1, <2>2, PlaceFacts, ItemFacts
    <2> HIDE DEF a, b, P
    <2>6. CASE Place(k) > offset + P
      <3>1. \A n \in DOMAIN Page : Page[n].score > score[k]
        <4> SUFFICES ASSUME NEW n \in DOMAIN Page PROVE Page[n].score > score[k]
          OBVIOUS
        <4>1. PICK j \in Candidates : Place(j) = offset + n /\ Page[n] = Item(j)
          BY <2>4
        <4>2. Place(j) < Place(k)
          BY <1>1, <2>3, <2>4, <2>6, <4>1
        <4>3. QED
          BY <2>5, <4>1, <4>2
      <3>2. \A i \in DOMAIN Got : Got[i].score > score[k]
        <4> SUFFICES ASSUME NEW i \in 1 .. a + b PROVE Got[i].score > score[k]
          BY <1>2
        <4>1. CASE i \in 1 .. a
          BY <1>2, <2>1, <4>1
        <4>2. CASE \E j \in 1 .. b : i = a + j
          <5>1. PICK j \in 1 .. b : i = a + j
            BY <4>2
          <5>2. Got[i] = New[j] /\ j \in DOMAIN New
            BY <1>2, <5>1
          <5>3. PICK m \in DOMAIN Page : New[j] = Page[m]
            BY <1>2, <5>2
          <5>4. QED
            BY <3>1, <5>2, <5>3
        <4>3. QED
          BY <1>2, <4>1, <4>2
      <3>3. ~Exhausted
        <4>1. Exhausted => Cardinality(Candidates) <= offset + P
          BY <1>1, PageFacts DEF P
        <4>2. QED
          BY <1>1, <2>3, <2>4, <2>6, <4>1
      <3>4. QED
        BY <2>6, <3>2, <3>3 DEF P
    <2>7. CASE ~(Place(k) > offset + P)
      <3>1. PICK m \in 1 .. P : Place(k) = offset + m
        <4>1. Place(k) - offset \in 1 .. P /\ Place(k) = offset + (Place(k) - offset)
          BY <1>1, <2>1, <2>3, <2>4, <2>7
        <4>2. QED
          BY <4>1
      <3>2. Page[m] = Item(k)
        <4>1. PICK j \in Candidates : Place(j) = offset + m /\ Page[m] = Item(j)
          BY <2>4
        <4>2. Place(j) = Place(k)
          BY <3>1, <4>1
        <4>3. ~(score[j] > score[k]) /\ ~(score[k] > score[j])
          <5>1. Place(j) \in Int /\ Place(k) \in Int
            BY <1>1, <2>3, <3>1, <4>2
          <5>2. ~(Place(j) < Place(k)) /\ ~(Place(k) < Place(j))
            BY <4>2, <5>1
          <5>3. QED
            BY <1>1, <2>2, <5>2, PlaceFacts
        <4>4. score[j] \in Nat /\ score[k] \in Nat /\ score[j] # Absent
          BY <1>1, <2>2, PlaceFacts
        <4>5. score[j] = score[k]
          BY <4>3, <4>4
        <4>6. j = k
          BY <1>1, <2>2, <4>4, <4>5, PlaceFacts DEF StoreOK
        <4>7. QED
          BY <4>1, <4>6
      <3>3. Page[m].key = k
        BY <1>1, <2>2, <3>2, ItemFacts
      <3>4. PICK n \in DOMAIN New :
               /\ New[n] = Page[m]
               /\ \A l \in DOMAIN New : l < n => \E i \in DOMAIN Page : i < m /\ New[l] = Page[i]
        <4>1. Page \in Seq(Reading)
          BY <1>1, PageFacts
        <4>2. m \in DOMAIN Page /\ Matches(Page[m]) /\ ~Has(accepted, Page[m].key)
          BY <1>5, <2>2, <2>4, <3>2, <3>3
        <4>3. QED
          BY <1>1, <2>4, <4>1, <4>2, NewFacts
      <3>5. CASE n \in 1 .. b
        <4>1. Got[a + n] = New[n] /\ a + n \in DOMAIN Got
          BY <1>2, <3>5
        <4>2. QED
          BY <3>3, <3>4, <4>1 DEF Has
      <3>6. CASE n \notin 1 .. b
        <4>1. a + b = ResultLimit
          BY <1>2, <3>6
        <4>2. n \in Nat \ {0} /\ b < n
          <5>1. New \in Seq(Reading)
            <6>1. Page \in Seq(Reading)
              BY <1>1, PageFacts
            <6>2. QED
              BY <1>1, <2>4, <6>1, NewFacts
          <5>2. n \in 1 .. Len(New) /\ Len(New) \in Nat
            BY <5>1, SeqFacts
          <5>3. QED
            BY <1>2, <3>6, <5>2
        <4>3. \A l \in 1 .. b : New[l].score > score[k]
          <5> SUFFICES ASSUME NEW l \in 1 .. b PROVE New[l].score > score[k]
            OBVIOUS
          <5>1. l < n
            BY <1>2, <4>2
          <5>2. PICK i \in DOMAIN Page : i < m /\ New[l] = Page[i]
            BY <1>2, <3>4, <5>1
          <5>3. PICK j \in Candidates : Place(j) = offset + i /\ Page[i] = Item(j)
            BY <2>4
          <5>4. Place(j) < Place(k)
            BY <1>1, <2>4, <3>1, <5>2, <5>3
          <5>5. QED
            BY <2>5, <5>2, <5>3, <5>4
        <4>4. \A i \in DOMAIN Got : Got[i].score > score[k]
          <5> SUFFICES ASSUME NEW i \in 1 .. a + b PROVE Got[i].score > score[k]
            BY <1>2
          <5>1. CASE i \in 1 .. a
            BY <1>2, <2>1, <5>1
          <5>2. CASE \E l \in 1 .. b : i = a + l
            BY <1>2, <4>3, <5>2
          <5>3. QED
            BY <1>2, <5>1, <5>2
        <4>5. QED
          BY <1>3, <4>1, <4>4 DEF a, b
      <3>7. QED
        BY <3>5, <3>6
    <2>8. QED
      BY <2>6, <2>7
  <1>6. QED
    BY <1>4, <1>5

-----------------------------------------------------------------------------
(***************************************************************************)
(* Search: the end of a partition, and of the search.                      *)
(***************************************************************************)
All == gathered \o Got

LEMMA AllParts ==
  ASSUME SearchInv, outcome = "running"
  PROVE  LET a == Len(gathered)
             b == Len(Got)
         IN  /\ a \in Nat /\ b \in Nat /\ All \in Seq(Reading) /\ DOMAIN All = 1 .. a + b
             /\ DOMAIN gathered = 1 .. a /\ DOMAIN Got = 1 .. b
             /\ \A i \in 1 .. a : All[i] = gathered[i]
             /\ \A i \in 1 .. b : All[a + i] = Got[i]
             /\ \A i \in 1 .. a + b : i \in 1 .. a \/ \E j \in 1 .. b : i = a + j
  <1> DEFINE a == Len(gathered)
             b == Len(Got)
  <1>1. gathered \in Seq(Reading) /\ Got \in Seq(Reading)
    BY GotFacts DEF SearchInv, SearchType
  <1>2. /\ All \in Seq(Reading) /\ Len(All) = a + b
        /\ \A i \in 1 .. a : All[i] = gathered[i]
        /\ \A i \in 1 .. b : All[a + i] = Got[i]
    BY <1>1, ConcatFacts DEF All
  <1>3. a \in Nat /\ b \in Nat /\ DOMAIN gathered = 1 .. a /\ DOMAIN Got = 1 .. b
    BY <1>1, SeqFacts
  <1>4. DOMAIN All = 1 .. a + b
    BY <1>2, SeqFacts
  <1>5. QED
    BY <1>2, <1>3, <1>4, SplitIndex

LEMMA AllFacts ==
  ASSUME SearchInv, outcome = "running"
  PROVE  /\ All \in Seq(Reading) /\ Distinct(All) /\ Current(All)
         /\ \A k : Has(gathered, k) \/ Has(Got, k) => Has(All, k)
         /\ \A i \in DOMAIN All : \A j \in 2 .. Len(parts) : ~InPart(All[i].key, parts[j])
  <1> DEFINE a == Len(gathered)
             b == Len(Got)
  <1>1. /\ a \in Nat /\ b \in Nat /\ All \in Seq(Reading) /\ DOMAIN All = 1 .. a + b
        /\ DOMAIN gathered = 1 .. a /\ DOMAIN Got = 1 .. b
        /\ \A i \in 1 .. a : All[i] = gathered[i]
        /\ \A i \in 1 .. b : All[a + i] = Got[i]
        /\ \A i \in 1 .. a + b : i \in 1 .. a \/ \E j \in 1 .. b : i = a + j
    BY AllParts
  <1>2. /\ gathered \in Seq(Reading) /\ Distinct(gathered) /\ Current(gathered)
        /\ \A i \in DOMAIN gathered : \A j \in DOMAIN parts : ~InPart(gathered[i].key, parts[j])
    BY DEF SearchInv, SearchType, ReadOK
  <1>3. /\ Got \in Seq(Reading) /\ Distinct(Got) /\ Current(Got)
        /\ \A i \in DOMAIN Got : InPart(Got[i].key, Head(parts))
    BY GotFacts
  <1>4. /\ parts \in Seq(PartNames) /\ parts # <<>>
        /\ \A i, j \in DOMAIN parts : parts[i] = parts[j] => i = j
        /\ Len(parts) = 1 \/ \A i \in DOMAIN parts : parts[i] # AllTypes
    BY DEF SearchInv, PartsOK
  <1>5. Len(parts) \in Nat \ {0} /\ DOMAIN parts = 1 .. Len(parts) /\ Head(parts) = parts[1]
    BY <1>4, SeqFacts, TailFacts
  <1> HIDE DEF a, b
  <1>6. Distinct(All)
    <2>1. ASSUME NEW i \in DOMAIN Got, Has(gathered, Got[i].key) PROVE FALSE
      <3>1. PICK j \in DOMAIN gathered : gathered[j].key = Got[i].key
        BY <2>1 DEF Has
      <3>2. 1 \in DOMAIN parts
        BY <1>5
      <3>3. QED
        BY <1>2, <1>3, <1>5, <3>1, <3>2
    <2>2. All = gathered \o Got
      BY DEF All
    <2>3. QED
      BY <1>2, <1>3, <2>1, <2>2, ConcatDistinct
  <1>7. Current(All)
    <2> SUFFICES ASSUME NEW i \in 1 .. a + b, NEW k \in Stored \ touched
                 PROVE  All[i].score = score[k] <=> All[i].key = k
      BY <1>1 DEF Current
    <2>1. CASE i \in 1 .. a
      <3>1. All[i] = gathered[i] /\ i \in DOMAIN gathered
        BY <1>1, <2>1
      <3>2. QED
        BY <1>2, <3>1 DEF Current
    <2>2. CASE \E j \in 1 .. b : i = a + j
      <3>1. PICK j \in 1 .. b : i = a + j
        BY <2>2
      <3>2. All[i] = Got[j] /\ j \in DOMAIN Got
        BY <1>1, <3>1
      <3>3. QED
        BY <1>3, <3>2 DEF Current
    <2>3. QED
      BY <1>1, <2>1, <2>2
  <1>8. ASSUME NEW k, Has(gathered, k) \/ Has(Got, k) PROVE Has(All, k)
    <2>1. CASE Has(gathered, k)
      <3>1. PICK i \in 1 .. a : gathered[i].key = k
        BY <1>1, <2>1 DEF Has
      <3>2. i \in DOMAIN All /\ All[i].key = k
        BY <1>1, <3>1
      <3>3. QED
        BY <3>2 DEF Has
    <2>2. CASE Has(Got, k)
      <3>1. PICK i \in 1 .. b : Got[i].key = k
        BY <1>1, <2>2 DEF Has
      <3>2. a + i \in DOMAIN All /\ All[a + i].key = k
        BY <1>1, <3>1
      <3>3. QED
        BY <3>2 DEF Has
    <2>3. QED
      BY <1>8, <2>1, <2>2
  <1>9. ASSUME NEW i \in 1 .. a + b, NEW j \in 2 .. Len(parts)
        PROVE  ~InPart(All[i].key, parts[j])
    <2>1. j \in DOMAIN parts /\ 1 \in DOMAIN parts /\ j # 1 /\ Len(parts) # 1
      BY <1>5
    <2>2. CASE i \in 1 .. a
      BY <1>1, <1>2, <2>1, <2>2
    <2>3. CASE \E l \in 1 .. b : i = a + l
      <3>1. InPart(All[i].key, parts[1])
        BY <1>1, <1>3, <1>5, <2>3
      <3>2. parts[1] # AllTypes /\ parts[j] # AllTypes /\ parts[1] # parts[j]
        BY <1>4, <2>1
      <3>3. QED
        BY <3>1, <3>2 DEF InPart
    <2>4. QED
      BY <1>1, <2>2, <2>3
  <1>10. QED
    BY <1>1, <1>6, <1>7, <1>8, <1>9

\* A settled match still waits, is there, or is beaten when a partition ends short of the
\* scan bound.
LEMMA AllServed ==
  ASSUME SearchInv, outcome = "running", ~sank, ~short, NEW k \in Settled,
         Len(Got) >= ResultLimit \/ Exhausted
  PROVE  (\E j \in 2 .. Len(parts) : InPart(k, parts[j])) \/ Has(All, k) \/ Beaten(All, k)
  <1> DEFINE a == Len(gathered)
             b == Len(Got)
             Good(items) == {i \in DOMAIN items : req.query => items[i].score > score[k]}
  <1>1. /\ a \in Nat /\ b \in Nat /\ All \in Seq(Reading) /\ DOMAIN All = 1 .. a + b
        /\ DOMAIN gathered = 1 .. a /\ DOMAIN Got = 1 .. b
        /\ \A i \in 1 .. a : All[i] = gathered[i]
        /\ \A i \in 1 .. b : All[a + i] = Got[i]
        /\ \A i \in 1 .. a + b : i \in 1 .. a \/ \E j \in 1 .. b : i = a + j
    BY AllParts
  <1>2. /\ Waits(k) \/ Has(gathered, k) \/ Beaten(gathered, k)
        /\ InPart(k, Head(parts)) => Tracked(k)
    BY DEF SearchInv, ScanOK
  <1>3. ResultLimit \in Nat /\ Len(Got) <= ResultLimit
    BY SearchAssumption, GotFacts
  <1>4. IsFiniteSet(DOMAIN All) /\ IsFiniteSet(Good(All)) /\ Good(All) \subseteq DOMAIN All
    <2>1. IsFiniteSet(DOMAIN All)
      BY <1>1, IntervalFacts
    <2>2. Good(All) \in SUBSET (DOMAIN All)
      OBVIOUS
    <2>3. QED
      BY <2>1, <2>2, FS_Subset
  <1>5. Cardinality(Good(All)) \in Nat
    BY <1>4, FS_CardinalityType
  <1>6. \A items : Beaten(items, k) <=> Cardinality(Good(items)) >= ResultLimit
    BY DEF Beaten
  <1>7. CASE Has(gathered, k)
    BY <1>7, AllFacts
  <1>8. CASE Beaten(gathered, k)
    <2>1. Good(gathered) \in SUBSET Good(All)
      BY <1>1
    <2> HIDE DEF Good
    <2>2. Cardinality(Good(gathered)) <= Cardinality(Good(All))
          /\ IsFiniteSet(Good(gathered))
      BY <1>4, <2>1, FS_Subset
    <2>3. Cardinality(Good(gathered)) \in Nat /\ Cardinality(Good(gathered)) >= ResultLimit
      BY <1>6, <1>8, <2>2, FS_CardinalityType
    <2>4. QED
      BY <1>3, <1>5, <1>6, <2>2, <2>3
  <1>9. CASE Waits(k)
    <2>1. PICK i \in DOMAIN parts : InPart(k, parts[i])
      BY <1>9 DEF Waits
    <2>2. parts \in Seq(PartNames) /\ parts # <<>>
      BY DEF SearchInv, PartsOK
    <2>3. /\ Len(parts) \in Nat \ {0} /\ DOMAIN parts = 1 .. Len(parts)
          /\ Head(parts) = parts[1]
      BY <2>2, SeqFacts, TailFacts
    <2>4. CASE i # 1
      <3>1. i \in 2 .. Len(parts)
        BY <2>3, <2>4
      <3>2. QED
        BY <2>1, <3>1
    <2>5. CASE i = 1
      <3>1. InPart(k, Head(parts)) /\ Tracked(k)
        BY <1>2, <2>1, <2>3, <2>5
      <3>2. CASE Has(Got, k)
        BY <3>2, AllFacts
      <3>3. CASE ~Has(Got, k)
        <4>1. \A j \in DOMAIN Got : Got[j].score > score[k]
          BY <3>1, <3>3, PageTracks
        <4>2. Len(Got) = ResultLimit
          <5>1. Len(Got) = ResultLimit \/ ~Exhausted
            BY <3>1, <3>3, PageTracks
          <5>2. Len(Got) \in Nat
            BY <1>1
          <5>3. CASE Exhausted
            BY <5>1, <5>3
          <5>4. CASE Len(Got) >= ResultLimit
            BY <1>3, <5>2, <5>4
          <5>5. QED
            BY <5>3, <5>4
        <4>3. a + 1 .. a + b \in SUBSET Good(All)
          <5> SUFFICES ASSUME NEW j \in a + 1 .. a + b PROVE j \in Good(All)
            OBVIOUS
          <5>1. j - a \in 1 .. b /\ a + (j - a) = j /\ j \in 1 .. a + b
            BY <1>1
          <5>2. All[j] = Got[j - a]
            BY <1>1, <5>1
          <5>3. QED
            BY <1>1, <4>1, <5>1, <5>2
        <4>4. Cardinality(a + 1 .. a + b) = b
          <5>1. a + 1 \in Int /\ a + b \in Int
            BY <1>1
          <5>2. Cardinality(a + 1 .. a + b)
                  = IF a + 1 > a + b THEN 0 ELSE (a + b) - (a + 1) + 1
            BY <5>1, FS_Interval
          <5>3. QED
            BY <1>1, <5>2
        <4> HIDE DEF Good
        <4>5. Cardinality(a + 1 .. a + b) <= Cardinality(Good(All))
          BY <1>4, <4>3, FS_Subset
        <4>6. QED
          BY <1>1, <1>3, <1>5, <1>6, <4>2, <4>4, <4>5
      <3>4. QED
        BY <3>2, <3>3
    <2>6. QED
      BY <2>4, <2>5
  <1>10. QED
    BY <1>2, <1>7, <1>8, <1>9

\* What the result does of the items of all partitions: different records, and a settled
\* match that is among them or beaten by them is served.
LEMMA MergeFacts ==
  ASSUME StoreOK, NEW all \in Seq(Reading), Distinct(all), Current(all)
  PROVE  LET r == Merge(all) IN
         /\ r \in Seq(Reading) /\ Distinct(r)
         /\ \A k \in Stored \ touched : Has(all, k) \/ Beaten(all, k) =>
              \/ Has(r, k)
              \/ /\ Len(r) = ResultLimit
                 /\ req.query => \A i \in DOMAIN r : r[i].score > score[k]
  <1> DEFINE r == Merge(all)
             q == Sorted(all)
             D == DOMAIN all
             N == Len(all)
             L == Lesser(N, ResultLimit)
  <1>1. r = Cut(q, ResultLimit)
    BY DedupedNothing DEF Merge
  <1>2. ResultLimit \in Nat
    BY SearchAssumption
  <1>3. /\ N \in Nat /\ D = 1 .. N
        /\ \A i \in D : all[i] \in Reading /\ all[i].score \in Nat /\ all[i].key \in Nat
    BY SeqFacts, ReadingFacts
  <1>4. q \in Seq(Reading) /\ Len(q) = N
    BY SortedFacts
  <1>5. PICK pos \in [D -> D] :
          /\ \A n \in D : q[n] = all[pos[n]] /\ Cardinality(Ahead(all, pos[n])) = n - 1
          /\ \A i \in D : \E n \in D : pos[n] = i
          /\ \A m, n \in D : m < n => Precedes(all[pos[m]], all[pos[n]])
    BY SortedFacts
  <1> HIDE DEF q, D, N
  <1>6. /\ r \in Seq(Reading) /\ Len(r) = L /\ L \in 0 .. N /\ L <= ResultLimit
        /\ \A i \in 1 .. L : r[i] = q[i]
    BY <1>1, <1>2, <1>4, CutFacts
  <1>7. DOMAIN r = 1 .. L
    BY <1>6, SeqFacts
  <1>8. N >= ResultLimit => L = ResultLimit
    BY <1>2, <1>3 DEF Lesser
  <1> HIDE DEF r, L
  <1>9. \A i \in 1 .. L : i \in D /\ pos[i] \in D /\ r[i] = all[pos[i]]
    <2>1. \A i \in 1 .. L : i \in D
      BY <1>3, <1>6
    <2>2. QED
      BY <1>5, <1>6, <2>1
  <1>10. Distinct(r)
    <2> SUFFICES ASSUME NEW i \in 1 .. L, NEW j \in 1 .. L, r[i].key = r[j].key PROVE i = j
      BY <1>7 DEF Distinct
    <2>1. pos[i] = pos[j]
      BY <1>9 DEF Distinct, D
    <2>2. i - 1 = j - 1
      BY <1>5, <1>9, <2>1
    <2>3. QED
      BY <1>3, <1>6, <2>2
  <1>11. ASSUME NEW k \in Stored \ touched, Has(all, k) \/ Beaten(all, k)
         PROVE  \/ Has(r, k)
                \/ /\ Len(r) = ResultLimit
                   /\ req.query => \A i \in DOMAIN r : r[i].score > score[k]
    <2>1. k \in Keys /\ score[k] \in Nat
      BY SearchAssumption DEF Stored, StoreOK, Absent
    <2>2. \A i \in D : all[i].score = score[k] <=> all[i].key = k
      BY DEF Current, D
    <2>3. CASE Has(all, k)
      <3>1. PICK i \in D : all[i].key = k
        BY <2>3 DEF Has, D
      <3>2. PICK n \in D : pos[n] = i
        BY <1>5
      <3>3. CASE n <= ResultLimit
        <4>1. n \in 1 .. L
          BY <1>2, <1>3, <1>6, <3>3 DEF L, Lesser
        <4>2. QED
          BY <1>7, <1>9, <3>1, <3>2, <4>1 DEF Has
      <3>4. CASE ~(n <= ResultLimit)
        <4>1. Len(r) = ResultLimit
          BY <1>2, <1>3, <1>6, <1>8, <3>4
        <4>2. ASSUME req.query, NEW j \in 1 .. L PROVE r[j].score > score[k]
          <5>1. j \in D /\ pos[j] \in D /\ r[j] = all[pos[j]]
            BY <1>9
          <5>2. j < n
            BY <1>2, <1>3, <1>6, <3>4, <5>1
          <5>3. Precedes(all[pos[j]], all[i])
            BY <1>5, <3>2, <5>1, <5>2
          <5>4. all[pos[j]].key # k
            <6> SUFFICES ASSUME all[pos[j]].key = k PROVE FALSE
              OBVIOUS
            <6>1. pos[j] = i
              BY <3>1, <5>1 DEF Distinct, D
            <6>2. QED
              BY <1>3, <3>1, <5>3, <6>1, PrecedesOrder
          <5>5. all[pos[j]].score # all[i].score /\ all[i].score = score[k]
            BY <2>2, <3>1, <5>1, <5>4
          <5>6. QED
            BY <4>2, <5>1, <5>3, <5>5 DEF Precedes
        <4>3. QED
          BY <1>7, <4>1, <4>2
      <3>5. QED
        BY <3>3, <3>4
    <2>4. CASE Beaten(all, k)
      <3> DEFINE G == {i \in D : req.query => all[i].score > score[k]}
      <3>1. Cardinality(G) >= ResultLimit
        BY <2>4 DEF Beaten, D
      <3>2. IsFiniteSet(D) /\ Cardinality(D) = N
        <4>1. N \in Nat /\ D = 1 .. N
          BY <1>3
        <4>2. QED
          BY <4>1, IntervalFacts
      <3>3. G \in SUBSET D /\ \A i \in D : i \notin G => req.query /\ ~(all[i].score > score[k])
        OBVIOUS
      <3>4. req.query => \A i \in G : all[i].score > score[k]
        OBVIOUS
      <3> HIDE DEF G
      <3>5. IsFiniteSet(G) /\ Cardinality(G) <= N /\ Cardinality(G) \in Nat
        BY <3>2, <3>3, FS_Subset, FS_CardinalityType
      <3>6. Len(r) = ResultLimit
        BY <1>2, <1>3, <1>6, <1>8, <3>1, <3>5
      <3>7. ASSUME req.query, NEW j \in 1 .. L, ~(r[j].score > score[k]) PROVE FALSE
        <4>1. j \in D /\ pos[j] \in D /\ r[j] = all[pos[j]]
          BY <1>9
        <4>2. \A i \in G : Precedes(all[i], all[pos[j]])
          <5> SUFFICES ASSUME NEW i \in G PROVE Precedes(all[i], all[pos[j]])
            OBVIOUS
          <5>1. /\ all[i].score > score[k] /\ ~(all[pos[j]].score > score[k])
                /\ all[i].score \in Nat /\ all[pos[j]].score \in Nat
            BY <1>3, <3>3, <3>4, <3>7, <4>1
          <5>2. all[i].score > all[pos[j]].score
            BY <2>1, <5>1
          <5>3. all[i].score # all[pos[j]].score
            BY <5>1, <5>2
          <5>4. QED
            BY <3>7, <5>2, <5>3 DEF Precedes
        <4>3. G \in SUBSET Ahead(all, pos[j]) /\ Ahead(all, pos[j]) \in SUBSET D
          BY <3>3, <4>2 DEF Ahead, D
        <4>4. IsFiniteSet(Ahead(all, pos[j]))
          BY <3>2, <4>3, FS_Subset
        <4>5. Cardinality(G) <= Cardinality(Ahead(all, pos[j]))
          BY <4>3, <4>4, FS_Subset
        <4>6. Cardinality(Ahead(all, pos[j])) = j - 1
          BY <1>5, <4>1
        <4>7. QED
          BY <1>2, <1>3, <1>6, <3>1, <3>5, <4>1, <4>5, <4>6
      <3>8. QED
        BY <1>7, <3>6, <3>7
    <2>5. QED
      BY <1>11, <2>3, <2>4
  <1>12. QED
    BY <1>6, <1>10, <1>11 DEF r

-----------------------------------------------------------------------------
(***************************************************************************)
(* Search: the steps.                                                      *)
(***************************************************************************)
LEMMA EmptyFacts ==
  /\ <<>> \in Seq(Reading) /\ Len(<<>>) = 0 /\ DOMAIN <<>> = {}
  OBVIOUS

LEMMA OneFacts ==
  ASSUME NEW T, NEW x \in T
  PROVE  <<x>> \in Seq(T) /\ <<x>> # <<>> /\ DOMAIN <<x>> = {1} /\ Len(<<x>>) = 1
  OBVIOUS

LEMMA SearchInit == Init => SearchInv
  <1> SUFFICES ASSUME Init PROVE SearchInv
    OBVIOUS
  <1>1. StoreOK
    BY SearchAssumption DEF Init, StoreOK
  <1>2. /\ req \in Requests /\ parts = Partitions(req)
        /\ offset = 0 /\ accepted = <<>> /\ gathered = <<>> /\ result = <<>>
        /\ outcome = "running" /\ sank = FALSE /\ short = FALSE /\ pages = 0
    BY DEF Init
  <1>3. SearchType
    BY <1>1, <1>2, EmptyFacts DEF SearchType
  <1>4. Paged
    BY <1>2, SearchAssumption DEF Paged, PagesBounded
  <1>5. /\ req.types \in Seq(PartNames)
        /\ \A i, j \in DOMAIN req.types : req.types[i] = req.types[j] => i = j
        /\ \A i \in DOMAIN req.types : req.types[i] # AllTypes
    <2>1. req.types \in Seq(STRING)
      BY <1>2, RequestAssumption
    <2>2. req.types \in Seq(PartNames)
      BY <2>1 DEF PartNames
    <2>3. QED
      BY <1>2, <2>2, RequestAssumption
  <1>6. PartsOK
    <2>1. CASE req.types = <<>>
      <3>1. parts = <<AllTypes>>
        BY <1>2, <2>1 DEF Partitions
      <3>2. AllTypes \in PartNames
        BY DEF PartNames
      <3>3. parts \in Seq(PartNames) /\ parts # <<>> /\ DOMAIN parts = {1} /\ Len(parts) = 1
        BY <3>1, <3>2, OneFacts
      <3>4. QED
        BY <3>3 DEF PartsOK
    <2>2. CASE req.types # <<>>
      BY <1>2, <1>5, <2>2 DEF PartsOK, Partitions
    <2>3. QED
      BY <2>1, <2>2
  <1>7. ReadOK
    BY <1>2, EmptyFacts, SearchAssumption DEF ReadOK, Distinct, Current
  <1>8. ScanOK
    <2> SUFFICES ASSUME NEW k \in Settled PROVE Waits(k) /\ Tracked(k)
      BY DEF ScanOK
    <2>1. Asked(k)
      BY DEF Settled
    <2>2. Waits(k)
      <3>1. CASE req.types = <<>>
        <4>1. parts = <<AllTypes>>
          BY <1>2, <3>1 DEF Partitions
        <4>2. 1 \in DOMAIN parts /\ parts[1] = AllTypes
          BY <4>1
        <4>3. QED
          BY <4>2 DEF Waits, InPart
      <3>2. CASE req.types # <<>>
        <4>1. parts = req.types
          BY <1>2, <3>2 DEF Partitions
        <4>2. QED
          BY <2>1, <3>2, <4>1 DEF Asked, Waits, InPart
      <3>3. QED
        BY <3>1, <3>2
    <2>3. Place(k) > offset
      <3> DEFINE B == {x \in Candidates : score[x] > score[k]}
      <3>1. B \in SUBSET Keys
        BY DEF Candidates, Stored
      <3>2. Cardinality(B) \in Nat
        BY <3>1, SearchAssumption, FS_Subset, FS_CardinalityType
      <3>3. Place(k) = Cardinality(B) + 1
        BY DEF Place
      <3>4. QED
        BY <1>2, <3>2, <3>3
    <2>4. QED
      BY <1>2, <2>2, <2>3, EmptyFacts DEF Tracked
  <1>9. OneState /\ BestMatchesReturned
    BY <1>2, EmptyFacts DEF OneState, BestMatchesReturned
  <1>10. QED
    BY <1>2, <1>3, <1>4, <1>6, <1>7, <1>8, <1>9 DEF SearchInv

\* A write leaves the records it does not touch where they are, or moves them down.
LEMMA WriteStep ==
  ASSUME SearchInv, outcome = "running", NEW w \in Keys, NEW s \in Scores \cup {Absent},
         s \in Unused \/ s = score[w],
         score' = [score EXCEPT ![w] = s], touched' = touched \cup {w},
         \A k \in Keys \ {w} : k \in retired' <=> k \in retired,
         sank' \in BOOLEAN, ~sank' => ~sank /\ s >= score[w],
         UNCHANGED <<req, parts, offset, accepted, gathered, outcome, result, short, pages>>
  PROVE  SearchInv'
  <1>1. StoreOK /\ SearchType /\ Paged /\ PartsOK /\ ReadOK /\ ScanOK /\ OneState
    BY DEF SearchInv, SearchType
  <1>2. /\ \A k \in Keys : score[k] \in Nat /\ score[k] \in Scores \cup {Absent}
        /\ s \in Nat /\ score'[w] = s /\ \A k \in Keys \ {w} : score'[k] = score[k]
    <2>1. score \in [Keys -> Scores \cup {Absent}] /\ Scores \cup {Absent} \subseteq Nat
      BY <1>1, SearchAssumption DEF StoreOK, Absent
    <2>2. score'[w] = s /\ \A k \in Keys \ {w} : score'[k] = score[k]
      BY <2>1
    <2>3. QED
      BY <2>1, <2>2
  <1>3. StoreOK'
    <2>1. score' \in [Keys -> Scores \cup {Absent}]
      BY <1>1 DEF StoreOK
    <2>2. ASSUME NEW j \in Keys, NEW k \in Keys, score'[j] = score'[k], score'[j] # Absent
          PROVE  j = k
      <3>1. CASE s = score[w]
        BY <1>1, <1>2, <2>2, <3>1 DEF StoreOK
      <3>2. CASE s \in Unused
        <4>1. \A x \in Keys : score[x] # s
          BY <3>2 DEF Unused
        <4>2. QED
          BY <1>1, <1>2, <2>2, <4>1 DEF StoreOK
      <3>3. QED
        BY <3>1, <3>2
    <2>3. QED
      BY <2>1, <2>2 DEF StoreOK
  <1>4. \A k \in (Stored \ touched)' : k \in Keys \ {w} /\ score'[k] = score[k] /\ k \in Stored \ touched
    BY <1>2 DEF Stored
  <1>5. ASSUME NEW k \in Settled' PROVE k \in Settled /\ k \in Keys \ {w} /\ score'[k] = score[k]
    <2>1. k \in (Stored \ touched)' /\ Asked(k)' /\ Matches(Item(k))'
      BY DEF Settled
    <2>2. k \in Keys \ {w} /\ score'[k] = score[k] /\ k \in Stored \ touched
      BY <1>4, <2>1
    <2>3. (k \in retired') = (k \in retired)
      BY <2>2
    <2>4. Item(k)' = Item(k)
      BY <2>2, <2>3 DEF Item
    <2>5. Asked(k) /\ Matches(Item(k))
      BY <2>1, <2>4 DEF Asked, Matches
    <2>6. QED
      BY <2>2, <2>5 DEF Settled
  <1>6. SearchType' /\ Paged' /\ PartsOK'
    BY <1>1, <1>3 DEF SearchType, Paged, PagesBounded, PartsOK
  <1>8. ReadOK'
    <2>1. Current(accepted) /\ Current(gathered)
      BY <1>1 DEF ReadOK
    <2>2. Current(accepted)' /\ Current(gathered)'
      BY <1>4, <2>1 DEF Current
    <2>3. QED
      BY <1>1, <2>2 DEF ReadOK, Distinct, InPart
  <1>9. ScanOK'
    <2> SUFFICES ASSUME ~sank', ~short', NEW k \in Settled'
                 PROVE  /\ Waits(k)' \/ Has(gathered, k)' \/ Beaten(gathered, k)'
                        /\ InPart(k, Head(parts))' => Tracked(k)'
      BY DEF ScanOK
    <2>1. k \in Settled /\ k \in Keys \ {w} /\ score'[k] = score[k]
      BY <1>5
    <2>2. /\ Waits(k) \/ Has(gathered, k) \/ Beaten(gathered, k)
          /\ InPart(k, Head(parts)) => Tracked(k)
      BY <1>1, <2>1 DEF ScanOK
    <2>3. /\ Waits(k)' = Waits(k) /\ Has(gathered, k)' = Has(gathered, k)
          /\ Has(accepted, k)' = Has(accepted, k)
          /\ Beaten(gathered, k)' = Beaten(gathered, k)
      BY <2>1 DEF Waits, Has, Beaten, InPart
    <2>4. Place(k)' >= Place(k) /\ Place(k) \in Nat /\ Place(k)' \in Nat
      <3> DEFINE B == {x \in Candidates : score[x] > score[k]}
                 After == {x \in Candidates' : score'[x] > score'[k]}
      <3>1. B \in SUBSET Keys /\ After \in SUBSET Keys
        BY DEF Candidates, Stored
      <3>2. IsFiniteSet(B) /\ IsFiniteSet(After)
        BY <3>1, SearchAssumption, FS_Subset
      <3>3. B \in SUBSET After
        <4> SUFFICES ASSUME NEW x \in B PROVE x \in After
          OBVIOUS
        <4>1. x \in Keys /\ score[x] > score[k] /\ InPart(x, Head(parts))
          BY <3>1 DEF Candidates, InPart
        <4>2. score'[x] \in Nat /\ score'[x] >= score[x]
          BY <1>2, <4>1
        <4>3. score'[x] > score'[k] /\ score'[x] # Absent
          BY <1>2, <2>1, <4>1, <4>2 DEF Absent
        <4>4. QED
          BY <4>1, <4>3 DEF Candidates, Stored, InPart
      <3>4. Place(k) = Cardinality(B) + 1 /\ Place(k)' = Cardinality(After) + 1
        BY DEF Place
      <3> HIDE DEF B, After
      <3>5. Cardinality(B) <= Cardinality(After)
        BY <3>2, <3>3, FS_Subset
      <3>6. Cardinality(B) \in Nat /\ Cardinality(After) \in Nat
        BY <3>2, FS_CardinalityType
      <3>7. QED
        BY <3>4, <3>5, <3>6
    <2>5. offset \in Nat
      BY <1>1 DEF SearchType
    <2>6. Tracked(k) => Tracked(k)'
      <3>1. CASE Has(accepted, k)
        BY <2>3, <3>1 DEF Tracked
      <3>2. CASE Place(k) > offset /\ \A i \in DOMAIN accepted : accepted[i].score > score[k]
        <4>1. Place(k)' > offset'
          BY <2>4, <2>5, <3>2
        <4>2. QED
          BY <2>1, <3>2, <4>1 DEF Tracked
      <3>3. QED
        BY <3>1, <3>2 DEF Tracked
    <2>7. QED
      BY <2>2, <2>3, <2>6 DEF InPart
  <1>10. OneState' /\ BestMatchesReturned'
    BY <1>1 DEF OneState, BestMatchesReturned
  <1>11. (req.substantive /\ short => outcome = "incomplete")'
    BY DEF SearchInv
  <1>12. QED
    BY <1>6, <1>8, <1>9, <1>10, <1>11 DEF SearchInv

\* The end of a partition, with the items it contributes.
LEMMA DoneStep ==
  ASSUME SearchInv, outcome = "running", PartitionDone(Got), pages' = 0,
         UNCHANGED <<storeVars, req>>,
         short' \in BOOLEAN, req.substantive => ~short',
         ~short' => ~short /\ (Len(Got) >= ResultLimit \/ Exhausted)
  PROVE  SearchInv'
  <1>1. StoreOK /\ SearchType /\ Paged /\ PartsOK /\ ReadOK /\ ScanOK /\ OneState
    BY DEF SearchInv, SearchType
  <1>2. /\ score' = score /\ retired' = retired /\ touched' = touched /\ sank' = sank
        /\ req' = req /\ parts' = Tail(parts) /\ offset' = 0 /\ accepted' = <<>>
    BY DEF storeVars, PartitionDone
  <1>3. Stored' = Stored /\ StoreOK'
    BY <1>1, <1>2 DEF Stored, StoreOK
  <1>4. Settled' = Settled
    BY <1>2, <1>3 DEF Settled, Asked, Matches, Item
  <1>5. /\ All \in Seq(Reading) /\ Distinct(All) /\ Current(All)
        /\ \A i \in DOMAIN All : \A j \in 2 .. Len(parts) : ~InPart(All[i].key, parts[j])
    BY AllFacts
  <1>6. /\ parts \in Seq(PartNames) /\ parts # <<>>
        /\ \A i, j \in DOMAIN parts : parts[i] = parts[j] => i = j
        /\ Len(parts) = 1 \/ \A i \in DOMAIN parts : parts[i] # AllTypes
    BY <1>1 DEF PartsOK
  <1>7. Len(parts) \in Nat \ {0} /\ DOMAIN parts = 1 .. Len(parts)
    BY <1>6, SeqFacts, TailFacts
  <1>8. /\ parts' \in Seq(PartNames) /\ Len(parts') = Len(parts) - 1
        /\ \A i \in 1 .. Len(parts) - 1 : parts'[i] = parts[i + 1]
    BY <1>2, <1>6, TailFacts
  <1>9. DOMAIN parts' = 1 .. Len(parts) - 1
    BY <1>8, SeqFacts
  <1>10. \A i \in DOMAIN parts' :
           /\ i \in Nat /\ i + 1 \in DOMAIN parts /\ i + 1 \in 2 .. Len(parts)
           /\ parts'[i] = parts[i + 1]
    BY <1>7, <1>8, <1>9
  <1>11. (req.substantive /\ short => outcome = "incomplete")'
    BY <1>2
  <1>12. Paged'
    BY <1>2, SearchAssumption DEF Paged, PagesBounded
  <1>13. \A k \in Settled : sank \/ short' \/ Has(All, k) \/ Beaten(All, k)
           \/ \E j \in 2 .. Len(parts) : InPart(k, parts[j])
    BY <1>1, AllServed DEF SearchType
  <1>14. CASE Tail(parts) # <<>>
    <2>1. gathered' = All /\ outcome' = outcome /\ result' = result
      BY <1>14 DEF PartitionDone, All
    <2>2. SearchType'
      BY <1>1, <1>2, <1>3, <1>5, <2>1, EmptyFacts DEF SearchType
    <2>3. PartsOK'
      <3>1. parts' # <<>>
        BY <1>2, <1>14
      <3>2. ASSUME NEW i \in DOMAIN parts', NEW j \in DOMAIN parts', parts'[i] = parts'[j]
            PROVE  i = j
        <4>1. i + 1 = j + 1
          BY <1>6, <1>10, <3>2
        <4>2. QED
          BY <1>10, <4>1
      <3>3. Len(parts') = 1 \/ \A i \in DOMAIN parts' : parts'[i] # AllTypes
        <4>1. Len(parts) # 1
          <5>1. Len(parts') # 0
            BY <1>8, <3>1
          <5>2. QED
            BY <1>7, <1>8, <5>1
        <4>2. QED
          BY <1>6, <1>10, <4>1
      <3>4. QED
        BY <1>8, <3>1, <3>2, <3>3 DEF PartsOK
    <2>4. ReadOK'
      <3>1. Len(accepted') < ResultLimit
        BY <1>2, EmptyFacts, SearchAssumption
      <3>2. /\ Distinct(accepted)' /\ Current(accepted)'
            /\ \A i \in DOMAIN accepted' : InPart(accepted[i].key, Head(parts))'
        BY <1>2, EmptyFacts DEF Distinct, Current
      <3>3. Distinct(gathered)' /\ Current(gathered)'
        BY <1>2, <1>3, <1>5, <2>1 DEF Distinct, Current
      <3>4. \A i \in DOMAIN gathered' : \A j \in DOMAIN parts' : ~InPart(gathered'[i].key, parts'[j])
        BY <1>5, <1>10, <2>1
      <3>5. QED
        BY <3>1, <3>2, <3>3, <3>4 DEF ReadOK, InPart
    <2>5. ScanOK'
      <3> SUFFICES ASSUME ~sank', ~short', NEW k \in Settled'
                   PROVE  /\ Waits(k)' \/ Has(gathered, k)' \/ Beaten(gathered, k)'
                          /\ Tracked(k)'
        BY DEF ScanOK
      <3>1. k \in Settled /\ ~sank
        BY <1>2, <1>4
      <3>2. /\ Has(gathered, k)' = Has(All, k) /\ Beaten(gathered, k)' = Beaten(All, k)
        BY <1>2, <2>1 DEF Has, Beaten
      <3>3. (\E j \in 2 .. Len(parts) : InPart(k, parts[j])) => Waits(k)'
        <4> SUFFICES ASSUME NEW j \in 2 .. Len(parts), InPart(k, parts[j]) PROVE Waits(k)'
          OBVIOUS
        <4>1. j - 1 \in DOMAIN parts' /\ (j - 1) + 1 = j
          BY <1>7, <1>9
        <4>2. parts'[j - 1] = parts[j]
          BY <1>10, <4>1
        <4>3. QED
          BY <4>1, <4>2 DEF Waits, InPart
      <3>4. Place(k)' > offset'
        <4> DEFINE B == {x \in Candidates' : score'[x] > score'[k]}
        <4>1. B \in SUBSET Keys
          BY DEF Candidates, Stored
        <4>2. Cardinality(B) \in Nat
          BY <4>1, SearchAssumption, FS_Subset, FS_CardinalityType
        <4>3. Place(k)' = Cardinality(B) + 1
          BY DEF Place
        <4>4. QED
          BY <1>2, <4>2, <4>3
      <3>5. Tracked(k)'
        BY <1>2, <3>4, EmptyFacts DEF Tracked
      <3>6. QED
        BY <1>13, <3>1, <3>2, <3>3, <3>5
    <2>6. OneState' /\ BestMatchesReturned'
      BY <1>1, <2>1 DEF OneState, BestMatchesReturned
    <2>7. QED
      BY <1>11, <1>12, <2>2, <2>3, <2>4, <2>5, <2>6 DEF SearchInv
  <1>15. CASE Tail(parts) = <<>>
    <2> DEFINE r == Merge(All)
    <2>1. gathered' = <<>> /\ outcome' = "returned" /\ result' = r
      BY <1>15 DEF PartitionDone, All
    <2>2. /\ r \in Seq(Reading) /\ Distinct(r)
          /\ \A k \in Stored \ touched : Has(All, k) \/ Beaten(All, k) =>
               \/ Has(r, k)
               \/ /\ Len(r) = ResultLimit
                  /\ req.query => \A i \in DOMAIN r : r[i].score > score[k]
      BY <1>1, <1>5, MergeFacts
    <2> HIDE DEF r
    <2>3. SearchType'
      BY <1>1, <1>2, <1>3, <2>1, <2>2, EmptyFacts DEF SearchType
    <2>4. PartsOK' /\ ReadOK' /\ ScanOK'
      BY <2>1 DEF PartsOK, ReadOK, ScanOK
    <2>5. OneState'
      BY <2>1, <2>2 DEF OneState, Distinct
    <2>6. BestMatchesReturned'
      <3> SUFFICES ASSUME (req.substantive \/ ~short)', ~sank', NEW k \in Settled'
                   PROVE  \/ Returned(k)'
                          \/ /\ Len(result') = ResultLimit
                             /\ req'.query => \A i \in DOMAIN result' : result'[i].score > score'[k]
        BY DEF BestMatchesReturned, Served
      <3>1. ~short' /\ ~sank /\ k \in Settled /\ k \in Stored \ touched
        BY <1>2, <1>4 DEF Settled
      <3>2. Len(parts) = 1
        <4>1. Len(parts') = 0
          BY <1>2, <1>15, EmptyFacts
        <4>2. Len(parts') = Len(parts) - 1 /\ Len(parts) \in Nat
          BY <1>7, <1>8
        <4>3. QED
          BY <4>1, <4>2
      <3>3. Has(All, k) \/ Beaten(All, k)
        BY <1>13, <3>1, <3>2
      <3>4. Has(r, k) = Returned(k)'
        BY <2>1 DEF Has, Returned
      <3>5. QED
        BY <1>2, <2>1, <2>2, <3>1, <3>3, <3>4
    <2>7. QED
      BY <1>11, <1>12, <2>3, <2>4, <2>5, <2>6 DEF SearchInv
  <1>16. QED
    BY <1>14, <1>15

\* The next page of the same partition.
LEMMA MoreStep ==
  ASSUME SearchInv, outcome = "running", Len(Got) < ResultLimit, ~Exhausted,
         offset + Len(Page) < MaxScanned,
         offset' = offset + Len(Page), accepted' = Got, pages' = pages + 1,
         UNCHANGED <<parts, gathered, outcome, result, short, storeVars, req>>
  PROVE  SearchInv'
  <1>1. StoreOK /\ SearchType /\ Paged /\ PartsOK /\ ReadOK /\ ScanOK /\ OneState
    BY DEF SearchInv, SearchType
  <1>2. /\ score' = score /\ retired' = retired /\ touched' = touched /\ sank' = sank
        /\ req' = req /\ parts' = parts /\ gathered' = gathered /\ outcome' = outcome
        /\ result' = result /\ short' = short
    BY DEF storeVars
  <1>3. Stored' = Stored /\ StoreOK'
    BY <1>1, <1>2 DEF Stored, StoreOK
  <1>4. Settled' = Settled
    BY <1>2, <1>3 DEF Settled, Asked, Matches, Item
  <1>5. /\ Got \in Seq(Reading) /\ Distinct(Got) /\ Current(Got)
        /\ \A i \in DOMAIN Got : InPart(Got[i].key, Head(parts))
    BY GotFacts
  <1>6. offset \in Nat /\ pages \in Nat /\ offset = pages * PageSize /\ offset < MaxScanned
    BY <1>1 DEF SearchType, Paged
  <1>7. /\ PageLimit \in 1 .. PageSize /\ Len(Page) = PageLimit
        /\ PageLimit = PageSize \/ offset + PageLimit = MaxScanned
    BY <1>1, <1>6, PageFacts
  <1>8. PageSize \in Nat /\ MaxScanned \in Nat /\ Len(Page) = PageSize
    BY <1>6, <1>7, SearchAssumption
  <1>9. offset' \in Nat /\ pages' \in Nat /\ offset' = pages' * PageSize
    BY <1>6, <1>8
  <1>10. SearchType' /\ Paged'
    BY <1>1, <1>2, <1>3, <1>5, <1>9 DEF SearchType, Paged, PagesBounded
  <1>11. PartsOK'
    BY <1>1, <1>2 DEF PartsOK
  <1>12. ReadOK'
    BY <1>1, <1>2, <1>3, <1>5 DEF ReadOK, Distinct, Current, InPart
  <1>13. ScanOK'
    <2> SUFFICES ASSUME ~sank', ~short', NEW k \in Settled'
                 PROVE  /\ Waits(k)' \/ Has(gathered, k)' \/ Beaten(gathered, k)'
                        /\ InPart(k, Head(parts))' => Tracked(k)'
      BY DEF ScanOK
    <2>1. k \in Settled
      BY <1>4
    <2>2. /\ Waits(k) \/ Has(gathered, k) \/ Beaten(gathered, k)
          /\ InPart(k, Head(parts)) => Tracked(k)
      BY <1>1, <1>2, <2>1 DEF ScanOK
    <2>3. /\ Waits(k)' = Waits(k) /\ Has(gathered, k)' = Has(gathered, k)
          /\ Beaten(gathered, k)' = Beaten(gathered, k) /\ Has(accepted, k)' = Has(Got, k)
          /\ InPart(k, Head(parts))' = InPart(k, Head(parts))
      BY <1>2 DEF Waits, Has, Beaten, InPart
    <2>4. Place(k)' = Place(k)
      BY <1>2 DEF Place, Candidates, Stored
    <2>5. ASSUME InPart(k, Head(parts)) PROVE Tracked(k)'
      <3>1. \/ Has(Got, k)
            \/ /\ \A i \in DOMAIN Got : Got[i].score > score[k]
               /\ \/ Len(Got) = ResultLimit
                  \/ Place(k) > offset + Len(Page)
        BY <2>1, <2>2, <2>5, PageTracks
      <3>2. Len(Got) # ResultLimit
        BY <1>5, SeqFacts, SearchAssumption
      <3>3. QED
        BY <1>2, <2>3, <2>4, <3>1, <3>2 DEF Tracked
    <2>6. QED
      BY <2>2, <2>3, <2>5
  <1>14. OneState' /\ BestMatchesReturned'
    BY <1>1, <1>2 DEF OneState, BestMatchesReturned
  <1>15. (req.substantive /\ short => outcome = "incomplete")'
    BY <1>2 DEF SearchInv
  <1>16. QED
    BY <1>10, <1>11, <1>12, <1>13, <1>14, <1>15 DEF SearchInv

\* A search that ends without a result.
LEMMA FailStep ==
  ASSUME SearchInv, outcome = "running", outcome' \in {"incomplete", "failed"},
         pages' \in {0, pages}, short' \in BOOLEAN,
         req.substantive /\ short' => outcome' = "incomplete",
         UNCHANGED <<parts, offset, accepted, gathered, result, storeVars, req>>
  PROVE  SearchInv'
  <1>1. StoreOK /\ SearchType /\ Paged /\ OneState
    BY DEF SearchInv, SearchType
  <1>2. /\ score' = score /\ sank' = sank /\ req' = req /\ offset' = offset
        /\ accepted' = accepted /\ gathered' = gathered /\ result' = result
    BY DEF storeVars
  <1>3. StoreOK'
    BY <1>1, <1>2 DEF StoreOK
  <1>4. SearchType'
    BY <1>1, <1>2, <1>3 DEF SearchType
  <1>5. Paged'
    <2>1. 0 * PageSize < MaxScanned
      BY SearchAssumption
    <2>2. pages * PageSize < MaxScanned
      BY <1>1 DEF Paged, PagesBounded
    <2>3. pages' * PageSize < MaxScanned
      BY <2>1, <2>2, Zenon
    <2>4. QED
      BY <2>3 DEF Paged, PagesBounded
  <1>6. PartsOK' /\ ReadOK' /\ ScanOK' /\ BestMatchesReturned'
    BY DEF PartsOK, ReadOK, ScanOK, BestMatchesReturned
  <1>7. OneState'
    BY <1>1, <1>2 DEF OneState
  <1>8. QED
    BY <1>2, <1>4, <1>5, <1>6, <1>7 DEF SearchInv

LEMMA FetchStep == SearchInv /\ FetchPage => SearchInv'
  <1> SUFFICES ASSUME SearchInv, FetchPage PROVE SearchInv'
    OBVIOUS
  <1>1. /\ outcome = "running"
        /\ \/ /\ Len(Got) >= ResultLimit \/ Exhausted
              /\ PartitionDone(Got) /\ pages' = 0 /\ UNCHANGED short
           \/ /\ ~(Len(Got) >= ResultLimit) /\ ~Exhausted /\ offset + Len(Page) >= MaxScanned
              /\ ScanBoundReached(Got) /\ pages' = 0
           \/ /\ ~(Len(Got) >= ResultLimit) /\ ~Exhausted /\ offset + Len(Page) < MaxScanned
              /\ offset' = offset + Len(Page) /\ accepted' = Got /\ pages' = pages + 1
              /\ UNCHANGED <<parts, gathered, outcome, result, short>>
        /\ UNCHANGED <<storeVars, req>>
    BY Zenon DEF FetchPage, Exhausted, Got, New, Page, Fetched, PageLimit, OffsetAfter
  <1>2. short \in BOOLEAN /\ ~(req.substantive /\ short)
    BY <1>1 DEF SearchInv, SearchType
  <1>3. CASE /\ Len(Got) >= ResultLimit \/ Exhausted
             /\ PartitionDone(Got) /\ pages' = 0 /\ UNCHANGED short
    BY <1>1, <1>2, <1>3, DoneStep
  <1>4. CASE ScanBoundReached(Got) /\ pages' = 0
    <2>1. CASE MustBeComplete /\ outcome' = "incomplete" /\ short' = TRUE
                 /\ UNCHANGED <<parts, offset, accepted, gathered, result>>
      BY <1>1, <1>4, <2>1, FailStep
    <2>2. CASE ~MustBeComplete /\ PartitionDone(Got) /\ short' = TRUE
      <3>1. ~req.substantive
        BY <2>2 DEF MustBeComplete
      <3>2. QED
        BY <1>1, <1>4, <2>2, <3>1, DoneStep
    <2>3. QED
      BY <1>4, <2>1, <2>2 DEF ScanBoundReached
  <1>5. CASE /\ ~(Len(Got) >= ResultLimit) /\ ~Exhausted /\ offset + Len(Page) < MaxScanned
             /\ offset' = offset + Len(Page) /\ accepted' = Got /\ pages' = pages + 1
             /\ UNCHANGED <<parts, gathered, outcome, result, short>>
    <2>1. Got \in Seq(Reading)
      BY <1>1, GotFacts
    <2>2. Len(Got) < ResultLimit
      BY <1>5, <2>1, SeqFacts, SearchAssumption
    <2>3. QED
      BY <1>1, <1>5, <2>2, MoreStep
  <1>6. QED
    BY <1>1, <1>3, <1>4, <1>5

LEMMA SearchStep == SearchInv /\ [Next]_vars => SearchInv'
  <1> SUFFICES ASSUME SearchInv, [Next]_vars PROVE SearchInv'
    OBVIOUS
  <1>1. CASE FetchPage
    BY <1>1, FetchStep
  <1>2. CASE SearchRaises
    <2>1. short \in BOOLEAN /\ ~(req.substantive /\ short)
      BY <1>2 DEF SearchInv, SearchType, SearchRaises
    <2>2. QED
      BY <1>2, <2>1, FailStep DEF SearchRaises
  <1>3. score \in [Keys -> Scores \cup {Absent}] /\ Scores \cup {Absent} \subseteq Nat
        /\ sank \in BOOLEAN
    BY SearchAssumption DEF SearchInv, SearchType, StoreOK, Absent
  <1>4. ASSUME NEW k \in Keys, NEW s \in Scores, Put(k, s),
               \A x \in Keys \ {k} : x \in retired' <=> x \in retired
        PROVE  SearchInv'
    <2>1. sank' \in BOOLEAN /\ (~sank' => ~sank /\ s >= score[k])
      <3>1. sank' = (sank \/ s < score[k]) /\ s \in Nat /\ score[k] \in Nat
        BY <1>3, <1>4 DEF Put
      <3>2. s < score[k] \/ s >= score[k]
        BY <3>1
      <3>3. sank' \in BOOLEAN
        BY <3>1, Zenon
      <3>4. QED
        BY <3>1, <3>2, <3>3, Zenon
    <2>2. s \in Unused /\ outcome = "running"
      BY <1>4 DEF Put
    <2>3. QED
      BY <1>4, <2>1, <2>2, WriteStep DEF Put
  <1>5. ASSUME NEW k \in Keys, Supersede(k) PROVE SearchInv'
    <2>1. \A x \in Keys \ {k} : x \in retired' <=> x \in retired
      BY <1>5 DEF Supersede
    <2>2. CASE \E s \in Scores : Put(k, s)
      BY <1>4, <2>1, <2>2
    <2>3. CASE /\ req.query /\ outcome = "running" /\ changes < MaxChanges
               /\ touched' = touched \cup {k}
               /\ UNCHANGED <<score, sank, req, parts, offset, accepted, gathered, outcome,
                              result, short, pages>>
      <3>1. score' = [score EXCEPT ![k] = score[k]] /\ score[k] \in Scores \cup {Absent}
        BY <1>3, <2>3
      <3>2. sank' \in BOOLEAN /\ (~sank' => ~sank /\ score[k] >= score[k])
        BY <1>3, <2>3, <3>1
      <3>3. QED
        BY <2>1, <2>3, <3>1, <3>2, WriteStep
    <2>4. QED
      BY <1>5, <2>2, <2>3 DEF Supersede
  <1>6. ASSUME NEW k \in Keys, NEW s \in Scores, WriteRecord(k, s) PROVE SearchInv'
    <2>1. Put(k, s) /\ \A x \in Keys \ {k} : x \in retired' <=> x \in retired
      BY <1>6 DEF WriteRecord
    <2>2. QED
      BY <1>4, <2>1
  <1>7. CASE UNCHANGED vars
    <2>1. /\ score' = score /\ retired' = retired /\ req' = req /\ parts' = parts
          /\ offset' = offset /\ accepted' = accepted /\ gathered' = gathered
          /\ outcome' = outcome /\ result' = result /\ touched' = touched
          /\ sank' = sank /\ short' = short /\ pages' = pages
      BY <1>7 DEF vars
    <2>2. /\ Stored' = Stored /\ Candidates' = Candidates /\ Settled' = Settled
          /\ \A k : Place(k)' = Place(k)
      BY <2>1 DEF Stored, Candidates, Settled, Asked, Matches, Item, Place
    <2>3. SearchType' /\ Paged' /\ PartsOK' /\ ReadOK' /\ OneState'
      BY <2>1, <2>2 DEF SearchInv, SearchType, StoreOK, Paged, PagesBounded, PartsOK, ReadOK,
                        Distinct, Current, InPart, OneState
    <2>4. ScanOK'
      BY <2>1, <2>2 DEF SearchInv, ScanOK, Waits, Has, Beaten, Tracked, InPart
    <2>5. BestMatchesReturned'
      BY <2>1, <2>2 DEF SearchInv, BestMatchesReturned, Served, Returned
    <2>6. QED
      BY <2>1, <2>3, <2>4, <2>5 DEF SearchInv
  <1>8. QED
    BY <1>1, <1>2, <1>5, <1>6, <1>7 DEF Next

LEMMA SearchInvariant == Spec => []SearchInv
  BY SearchInit, SearchStep, PTL DEF Spec

\* _search_partition: whatever the filters reject and the writers do, a partition costs no
\* more queries than it takes to scan _MAX_SCANNED_PER_PARTITION candidates.
THEOREM ScansAreBounded == Spec => []PagesBounded
  <1>1. SearchInv => PagesBounded
    BY DEF SearchInv, Paged
  <1>2. QED
    BY <1>1, SearchInvariant, PTL

\* search: a record read on two pages, once current and once superseded, is one result.
THEOREM RecordsHaveOneState == Spec => []OneState
  <1>1. SearchInv => OneState
    BY DEF SearchInv
  <1>2. QED
    BY <1>1, SearchInvariant, PTL

\* search: every match that nobody wrote while the search ran is returned or beaten by a
\* full result of more relevant ones, in any number of pages and partitions and with any
\* writes between the pages, unless a partition ended at the scan bound of a search that
\* need not be complete, or a record lost rank.
THEOREM BestMatchesAreReturned == Spec => []BestMatchesReturned
  <1>1. SearchInv => BestMatchesReturned
    BY DEF SearchInv
  <1>2. QED
    BY <1>1, SearchInvariant, PTL

=============================================================================
