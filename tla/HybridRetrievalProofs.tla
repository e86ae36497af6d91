--------------------------- MODULE HybridRetrievalProofs ---------------------------
(***************************************************************************)
(* What one search of RetrievalRunner keeps, proved for any corpus, texts,  *)
(* rankings, limits and weights.  Everything that is put in order - hits by *)
(* score, places in a sequence, hits of several searches - is put in order  *)
(* by InOrder, so the first lemma carries the others.                       *)
(***************************************************************************)
EXTENDS HybridRetrieval, FiniteSetTheorems, SequenceTheorems, WellFoundedInduction, TLAPS

\* There are n numbers up to n.
LEMMA UpTo ==
  ASSUME NEW n \in Nat
  PROVE  IsFiniteSet(1 .. n) /\ Cardinality(1 .. n) = n
  BY FS_Interval

\* A function on the first n numbers is a sequence.
LEMMA FunctionIsSeq ==
  ASSUME NEW T, NEW n \in Nat, NEW f \in [1 .. n -> T]
  PROVE  f \in Seq(T) /\ Len(f) = n
  BY LenProperties

-----------------------------------------------------------------------------
(* Putting a finite set in order.                                          *)

\* before[p] are the elements of S that come no later than p.
IsOrder(before, S) ==
  /\ before \in [S -> SUBSET S]
  /\ \A p, q \in S : p \in before[q] \/ q \in before[p]
  /\ \A p, q \in S : p \in before[q] /\ q \in before[p] => p = q
  /\ \A p, q \in S : q \in before[p] => before[q] \subseteq before[p]

\* Every element gets one place, and the places are in order.
LEMMA InOrderIs ==
  ASSUME NEW S, IsFiniteSet(S), NEW before, IsOrder(before, S)
  PROVE  /\ Cardinality(S) \in Nat
         /\ InOrder(before) \in [1 .. Cardinality(S) -> S]
         /\ \A p \in S : \E n \in 1 .. Cardinality(S) : InOrder(before)[n] = p
         /\ \A m, n \in 1 .. Cardinality(S) :
              m <= n <=> InOrder(before)[m] \in before[InOrder(before)[n]]
<1> DEFINE size == Cardinality(S)
           rank == [p \in S |-> Cardinality(before[p])]
           order == InOrder(before)
<1>1. size \in Nat /\ DOMAIN before = S
  BY FS_CardinalityType DEF IsOrder
<1>2. ASSUME NEW p \in S
      PROVE  before[p] \in SUBSET S /\ IsFiniteSet(before[p]) /\ Cardinality(before[p]) \in 1 .. size
  <2>1. before[p] \in SUBSET S /\ p \in before[p]
    BY DEF IsOrder
  <2>2. IsFiniteSet(before[p]) /\ Cardinality(before[p]) <= size
    BY <2>1, FS_Subset
  <2>3. Cardinality(before[p]) \in Nat /\ Cardinality(before[p]) # 0
    BY <2>1, <2>2, FS_CardinalityType, FS_EmptySet
  <2> QED
    BY <1>1, <2>1, <2>2, <2>3
<1>3. ASSUME NEW p \in S, NEW q \in S
      PROVE  rank[p] <= rank[q] <=> p \in before[q]
  <2>1. ASSUME NEW a \in S, NEW b \in S, a \in before[b]
        PROVE  /\ Cardinality(before[a]) <= Cardinality(before[b])
               /\ Cardinality(before[a]) = Cardinality(before[b]) => a = b
    <3>1. before[a] \in SUBSET before[b]
      BY <2>1 DEF IsOrder
    <3>2. /\ Cardinality(before[a]) <= Cardinality(before[b])
          /\ Cardinality(before[a]) = Cardinality(before[b]) => before[a] = before[b]
      BY <1>2, <3>1, FS_Subset
    <3>3. b \in before[b]
      BY DEF IsOrder
    <3>4. before[a] = before[b] => a = b
      BY <2>1, <3>3 DEF IsOrder
    <3> QED
      BY <3>2, <3>4
  <2>2. CASE p \in before[q]
    BY <2>1, <2>2
  <2>3. CASE p \notin before[q]
    <3>1. q \in before[p] /\ p # q
      BY <2>3 DEF IsOrder
    <3>2. Cardinality(before[q]) <= Cardinality(before[p]) /\ Cardinality(before[q]) # Cardinality(before[p])
      BY <2>1, <3>1
    <3>3. Cardinality(before[p]) \in Nat /\ Cardinality(before[q]) \in Nat
      BY <1>1, <1>2
    <3> QED
      BY <2>3, <3>2, <3>3
  <2> QED
    BY <2>2, <2>3
<1>4. ASSUME NEW p \in S, NEW q \in S, rank[p] = rank[q] PROVE p = q
  <2>1. rank[p] \in Nat /\ rank[q] \in Nat
    BY <1>1, <1>2
  <2>2. p \in before[q] /\ q \in before[p]
    BY <1>3, <1>4, <2>1
  <2> QED
    BY <2>2 DEF IsOrder
<1>5. rank \in Injection(S, 1 .. size)
  BY <1>2, <1>4 DEF Injection, IsInjective
<1>6. rank \in Surjection(S, 1 .. size)
  <2>1. IsFiniteSet(1 .. size) /\ Cardinality(1 .. size) = size
    BY <1>1, FS_Interval
  <2> HIDE DEF rank
  <2> QED
    BY <1>5, <2>1, FS_Injection DEF size
<1>7. ASSUME NEW n \in 1 .. size PROVE order[n] \in S /\ rank[order[n]] = n
  <2>1. \E p \in S : rank[p] = n
    BY <1>6 DEF Surjection
  <2>2. \E p \in S : Cardinality(before[p]) = n
    BY <2>1
  <2>3. order[n] = CHOOSE p \in S : Cardinality(before[p]) = n
    BY <1>1 DEF InOrder
  <2>4. order[n] \in S /\ Cardinality(before[order[n]]) = n
    <3> HIDE DEF order
    <3> QED
      BY <2>2, <2>3
  <2> QED
    BY <2>4
<1>8. order \in [1 .. size -> S]
  <2>1. order = [n \in 1 .. size |-> order[n]]
    BY <1>1 DEF InOrder
  <2> HIDE DEF order
  <2> QED
    BY <1>7, <2>1
<1>9. ASSUME NEW p \in S PROVE \E n \in 1 .. size : order[n] = p
  <2>1. rank[p] \in 1 .. size
    BY <1>2
  <2>2. order[rank[p]] \in S /\ rank[order[rank[p]]] = rank[p]
    BY <1>7, <2>1
  <2> HIDE DEF order, rank
  <2> QED
    BY <1>4, <2>1, <2>2
<1>10. ASSUME NEW m \in 1 .. size, NEW n \in 1 .. size
       PROVE  m <= n <=> order[m] \in before[order[n]]
  <2> HIDE DEF order, rank
  <2> QED
    BY <1>3, <1>7
<1> HIDE DEF order
<1> QED
  BY <1>1, <1>8, <1>9, <1>10 DEF order

\* The places of a sequence up to each of some of its places.
LEMMA PlacesUpTo ==
  ASSUME NEW S \in SUBSET Int
  PROVE  IsOrder([i \in S |-> {j \in S : j <= i}], S)
<1> DEFINE before == [i \in S |-> {j \in S : j <= i}]
<1>1. before \in [S -> SUBSET S] /\ \A i, j \in S : j \in before[i] <=> j <= i
  OBVIOUS
<1> HIDE DEF before
<1>2. \A p, q \in S : /\ p \in before[q] \/ q \in before[p]
                      /\ p \in before[q] /\ q \in before[p] => p = q
  BY <1>1
<1>3. ASSUME NEW p \in S, NEW q \in S, q \in before[p], NEW r \in before[q] PROVE r \in before[p]
  <2>1. r \in S
    BY <1>1
  <2>2. r <= q /\ q <= p
    BY <1>1, <1>3, <2>1
  <2> QED
    BY <1>1, <2>1, <2>2
<1> QED
  BY <1>1, <1>2, <1>3 DEF IsOrder, before

\* at[n] is the place that the n-th of the elements at some places comes from.
Placing(seq, places, at) ==
  /\ at \in [1 .. Cardinality(places) -> places]
  /\ \A p \in places : \E n \in 1 .. Cardinality(places) : at[n] = p
  /\ \A m, n \in 1 .. Cardinality(places) : m <= n <=> at[m] <= at[n]
  /\ \A n \in 1 .. Cardinality(places) : Those(seq, places)[n] = seq[at[n]]

\* The elements at some places of a sequence keep their order.
LEMMA ThoseAre ==
  ASSUME NEW T, NEW seq \in Seq(T), NEW places \in SUBSET DOMAIN seq
  PROVE  /\ IsFiniteSet(places) /\ Cardinality(places) \in Nat
         /\ Those(seq, places) \in Seq(T)
         /\ Len(Those(seq, places)) = Cardinality(places)
         /\ \E at : Placing(seq, places, at)
<1> DEFINE before == [i \in places |-> {j \in places : j <= i}]
           size == Cardinality(places)
           at == InOrder(before)
<1>1. DOMAIN seq = 1 .. Len(seq) /\ Len(seq) \in Nat /\ places \in SUBSET Int
  BY LenProperties
<1>2. IsFiniteSet(places)
  <2>1. IsFiniteSet(1 .. Len(seq))
    BY <1>1, FS_Interval
  <2>2. places \in SUBSET (1 .. Len(seq))
    BY <1>1
  <2> QED
    BY <2>1, <2>2, FS_Subset
<1>3. IsOrder(before, places)
  BY <1>1, PlacesUpTo
<1>4. /\ size \in Nat /\ at \in [1 .. size -> places]
      /\ \A p \in places : \E n \in 1 .. size : at[n] = p
      /\ \A m, n \in 1 .. size : m <= n <=> at[m] \in before[at[n]]
  <2> HIDE DEF before
  <2> QED
    BY <1>2, <1>3, InOrderIs
<1>5. ASSUME NEW m \in 1 .. size, NEW n \in 1 .. size PROVE m <= n <=> at[m] <= at[n]
  <2>1. at[m] \in places /\ at[n] \in places
    BY <1>4
  <2>2. m <= n <=> at[m] \in before[at[n]]
    BY <1>4
  <2>3. before[at[n]] = {j \in places : j <= at[n]}
    BY <2>1
  <2> HIDE DEF at, before
  <2> QED
    BY <2>1, <2>2, <2>3
<1>6. Those(seq, places) = [n \in 1 .. size |-> seq[at[n]]]
  <2>1. Those(seq, places) = [n \in DOMAIN at |-> seq[at[n]]]
    BY DEF Those
  <2> HIDE DEF at
  <2> QED
    BY <1>4, <2>1
<1> HIDE DEF at, size
<1>7. ASSUME NEW n \in 1 .. size PROVE seq[at[n]] \in T
  <2>1. at[n] \in 1 .. Len(seq)
    BY <1>1, <1>4
  <2> QED
    BY <2>1, ElementOfSeq
<1>8. Those(seq, places) \in [1 .. size -> T]
  BY <1>6, <1>7
<1>9. Those(seq, places) \in Seq(T) /\ Len(Those(seq, places)) = size
  BY <1>4, <1>8, FunctionIsSeq
<1>10. \A n \in 1 .. size : Those(seq, places)[n] = seq[at[n]]
  BY <1>6
<1>11. Placing(seq, places, at)
  BY <1>4, <1>5, <1>10 DEF Placing, size
<1> QED
  BY <1>2, <1>4, <1>9, <1>11 DEF size

\* Of two hits the one with the better score comes first, of equals the earlier.
LEMMA ScoreOrder ==
  ASSUME NEW S \in SUBSET Nat, NEW hits, \A i \in S : hits[i].score \in Nat
  PROVE  IsOrder([i \in S |-> {j \in S : \/ hits[j].score > hits[i].score
                                         \/ hits[j].score = hits[i].score /\ j <= i}], S)
<1> DEFINE before == [i \in S |-> {j \in S : \/ hits[j].score > hits[i].score
                                             \/ hits[j].score = hits[i].score /\ j <= i}]
<1>1. before \in [S -> SUBSET S]
  OBVIOUS
<1>2. \A p, q \in S : p \in before[q] <=> \/ hits[p].score > hits[q].score
                                          \/ hits[p].score = hits[q].score /\ p <= q
  OBVIOUS
<1> HIDE DEF before
<1>3. \A p, q \in S : p \in before[q] \/ q \in before[p]
  BY <1>2
<1>4. \A p, q \in S : p \in before[q] /\ q \in before[p] => p = q
  BY <1>2
<1>5. ASSUME NEW p \in S, NEW q \in S, q \in before[p], NEW r \in before[q] PROVE r \in before[p]
  <2>1. r \in S
    BY <1>1
  <2> QED
    BY <1>2, <1>5, <2>1
<1> QED
  BY <1>1, <1>3, <1>4, <1>5 DEF IsOrder, before

\* sorted keeps the hits, and their scores descend.
LEMMA DescendingIs ==
  ASSUME NEW T, NEW hits \in Seq(T), \A i \in 1 .. Len(hits) : hits[i].score \in Nat
  PROVE  /\ Descending(hits) \in Seq(T) /\ Len(Descending(hits)) = Len(hits)
         /\ \E at \in [1 .. Len(hits) -> 1 .. Len(hits)] :
              /\ \A i \in 1 .. Len(hits) : \E n \in 1 .. Len(hits) : at[n] = i
              /\ \A m, n \in 1 .. Len(hits) : at[m] = at[n] => m = n
              /\ \A n \in 1 .. Len(hits) : Descending(hits)[n] = hits[at[n]]
              /\ \A m, n \in 1 .. Len(hits) : m <= n => hits[at[m]].score >= hits[at[n]].score
<1> DEFINE S == 1 .. Len(hits)
           before == [i \in DOMAIN hits |-> {j \in DOMAIN hits :
                        \/ hits[j].score > hits[i].score
                        \/ hits[j].score = hits[i].score /\ j <= i}]
           at == InOrder(before)
<1>1. DOMAIN hits = S /\ Len(hits) \in Nat
  BY LenProperties
<1>2. IsFiniteSet(S) /\ Cardinality(S) = Len(hits)
  BY <1>1, UpTo
<1>3. IsOrder(before, S)
  <2>1. before = [i \in S |-> {j \in S : \/ hits[j].score > hits[i].score
                                         \/ hits[j].score = hits[i].score /\ j <= i}]
    BY <1>1
  <2>2. S \in SUBSET Nat
    BY <1>1
  <2> HIDE DEF before
  <2> QED
    BY <2>1, <2>2, ScoreOrder
<1>4. /\ at \in [S -> S]
      /\ \A p \in S : \E n \in S : at[n] = p
      /\ \A m, n \in S : m <= n <=> at[m] \in before[at[n]]
  <2> HIDE DEF before
  <2>1. /\ InOrder(before) \in [1 .. Cardinality(S) -> S]
        /\ \A p \in S : \E n \in 1 .. Cardinality(S) : InOrder(before)[n] = p
        /\ \A m, n \in 1 .. Cardinality(S) : m <= n <=> InOrder(before)[m] \in before[InOrder(before)[n]]
    <3> HIDE DEF S
    <3> QED
      BY <1>2, <1>3, InOrderIs
  <2> QED
    BY <1>2, <2>1
<1>5. Descending(hits) = [n \in S |-> hits[at[n]]]
  <2>1. Descending(hits) = [n \in DOMAIN at |-> hits[at[n]]]
    BY DEF Descending
  <2> HIDE DEF at
  <2> QED
    BY <1>4, <2>1
<1>6. ASSUME NEW m \in S, NEW n \in S, m <= n PROVE hits[at[m]].score >= hits[at[n]].score
  <2>1. at[m] \in S /\ at[n] \in S /\ at[m] \in before[at[n]]
    BY <1>4, <1>6
  <2>2. hits[at[m]].score \in Nat /\ hits[at[n]].score \in Nat
    BY <2>1
  <2> HIDE DEF at
  <2>3. hits[at[m]].score > hits[at[n]].score \/ hits[at[m]].score = hits[at[n]].score
    BY <1>1, <2>1
  <2> QED
    BY <2>2, <2>3
<1>7. ASSUME NEW m \in S, NEW n \in S, at[m] = at[n] PROVE m = n
  <2>1. m <= n /\ n <= m
    <3>1. \A p \in S : p \in before[p]
      BY <1>3 DEF IsOrder
    <3> HIDE DEF at, before
    <3> QED
      BY <1>4, <1>7, <3>1
  <2> QED
    BY <1>1, <2>1
<1> HIDE DEF at
<1>8. \A n \in S : hits[at[n]] \in T
  BY <1>1, <1>4, ElementOfSeq
<1>9. Descending(hits) \in [S -> T]
  BY <1>5, <1>8
<1>10. Descending(hits) \in Seq(T) /\ Len(Descending(hits)) = Len(hits)
  BY <1>1, <1>9, FunctionIsSeq
<1>11. \A n \in S : Descending(hits)[n] = hits[at[n]]
  BY <1>5
<1> QED
  BY <1>4, <1>6, <1>7, <1>10, <1>11

LEMMA LeastNumber ==
  ASSUME NEW S \in SUBSET Nat, S # {}
  PROVE  \E m \in S : \A n \in S : m <= n
<1> DEFINE R == OpToRel(<, Nat)
<1>1. \A x, y \in Nat : <<x, y>> \in R <=> x < y
  BY DEF OpToRel
<1>2. IsWellFoundedOn(R, Nat)
  BY NatLessThanWellFounded
<1> HIDE DEF R
<1>3. PICK m \in S : \A n \in S : ~(<<n, m>> \in R)
  BY <1>2, WFMin
<1>4. \A n \in S : ~(n < m)
  BY <1>1, <1>3
<1> QED
  BY <1>4

\* Every element stays, and none is there twice.
LEMMA DistinctIs ==
  ASSUME NEW T, NEW seq \in Seq(T)
  PROVE  /\ Distinct(seq) \in Seq(T)
         /\ \A n \in 1 .. Len(Distinct(seq)) : \E i \in 1 .. Len(seq) : Distinct(seq)[n] = seq[i]
         /\ \A i \in 1 .. Len(seq) : \E n \in 1 .. Len(Distinct(seq)) : Distinct(seq)[n] = seq[i]
         /\ \A m, n \in 1 .. Len(Distinct(seq)) : Distinct(seq)[m] = Distinct(seq)[n] => m = n
<1> DEFINE firsts == {i \in DOMAIN seq : \A j \in 1 .. i - 1 : seq[j] # seq[i]}
<1>1. DOMAIN seq = 1 .. Len(seq) /\ Len(seq) \in Nat
  BY LenProperties
<1>2. firsts \in SUBSET DOMAIN seq /\ Distinct(seq) = Those(seq, firsts)
  BY DEF Distinct
<1>3. ASSUME NEW i \in 1 .. Len(seq) PROVE \E f \in firsts : seq[f] = seq[i]
  <2> DEFINE same == {j \in 1 .. Len(seq) : seq[j] = seq[i]}
  <2>1. same \in SUBSET Nat /\ i \in same
    BY <1>1
  <2>2. PICK f \in same : \A j \in same : f <= j
    <3> HIDE DEF same
    <3> QED
      BY <2>1, LeastNumber
  <2>3. \A j \in 1 .. f - 1 : seq[j] # seq[f]
    <3>1. SUFFICES ASSUME NEW j \in 1 .. f - 1, seq[j] = seq[f] PROVE FALSE
      OBVIOUS
    <3>2. f \in 1 .. Len(seq) /\ seq[f] = seq[i]
      BY <2>2
    <3>3. j \in 1 .. Len(seq) /\ j < f
      BY <1>1, <3>2
    <3>4. j \in same
      BY <3>1, <3>2, <3>3
    <3> QED
      BY <1>1, <2>2, <3>2, <3>3, <3>4
  <2> QED
    BY <1>1, <2>2, <2>3
<1>4. \A i, j \in firsts : seq[i] = seq[j] => i = j
  <2>1. \A i, j \in firsts : seq[i] = seq[j] => ~(i < j)
    BY <1>1
  <2> QED
    BY <1>1, <2>1
<1> HIDE DEF firsts
<1> DEFINE n == Cardinality(firsts)
<1>5. n \in Nat /\ Those(seq, firsts) \in Seq(T) /\ Len(Those(seq, firsts)) = n
  BY <1>2, ThoseAre
<1>at. PICK at : Placing(seq, firsts, at)
  BY <1>2, ThoseAre
<1>6. /\ at \in [1 .. n -> firsts]
      /\ \A p \in firsts : \E k \in 1 .. n : at[k] = p
      /\ \A k, l \in 1 .. n : k <= l <=> at[k] <= at[l]
      /\ \A k \in 1 .. n : Those(seq, firsts)[k] = seq[at[k]]
  BY <1>at DEF Placing
<1> HIDE DEF n
<1>7. \A k \in 1 .. n : at[k] \in firsts /\ at[k] \in 1 .. Len(seq) /\ Distinct(seq)[k] = seq[at[k]]
  BY <1>1, <1>2, <1>6
<1>8. ASSUME NEW k \in 1 .. n, NEW l \in 1 .. n, Distinct(seq)[k] = Distinct(seq)[l] PROVE k = l
  <2>1. at[k] = at[l]
    BY <1>4, <1>7, <1>8
  <2>2. at[k] \in Nat
    BY <1>1, <1>7
  <2>3. k <= l /\ l <= k
    BY <1>6, <2>1, <2>2
  <2> QED
    BY <1>5, <2>3
<1>9. ASSUME NEW i \in 1 .. Len(seq) PROVE \E k \in 1 .. n : Distinct(seq)[k] = seq[i]
  <2>1. PICK f \in firsts : seq[f] = seq[i]
    BY <1>3
  <2>2. PICK k \in 1 .. n : at[k] = f
    BY <1>6
  <2> QED
    BY <1>7, <2>1, <2>2
<1>10. Distinct(seq) \in Seq(T) /\ Len(Distinct(seq)) = n
  BY <1>2, <1>5
<1>11. \A k \in 1 .. n : \E i \in 1 .. Len(seq) : Distinct(seq)[k] = seq[i]
  BY <1>7
<1> QED
  BY <1>8, <1>9, <1>10, <1>11

\* A sequence without repetition is no longer than the set of its elements.
LEMMA DistinctLen ==
  ASSUME NEW F, IsFiniteSet(F), NEW seq \in Seq(F),
         \A m, n \in 1 .. Len(seq) : seq[m] = seq[n] => m = n
  PROVE  Len(seq) <= Cardinality(F)
<1>1. Len(seq) \in Nat /\ DOMAIN seq = 1 .. Len(seq) /\ seq \in [1 .. Len(seq) -> F]
  BY LenProperties
<1>2. seq \in Injection(1 .. Len(seq), F)
  BY <1>1 DEF Injection, IsInjective
<1>3. Cardinality(1 .. Len(seq)) = Len(seq)
  BY <1>1, UpTo
<1> QED
  BY <1>2, <1>3, FS_Injection

\* The elements of the sequences of a sequence, and nothing else.
LEMMA FlatIs ==
  ASSUME NEW T, NEW lists \in Seq(Seq(T))
  PROVE  /\ Flat(lists) \in Seq(T)
         /\ \A n \in 1 .. Len(Flat(lists)) : \E k \in 1 .. Len(lists) :
              \E i \in 1 .. Len(lists[k]) : Flat(lists)[n] = lists[k][i]
         /\ \A k \in 1 .. Len(lists) : \A i \in 1 .. Len(lists[k]) :
              \E n \in 1 .. Len(Flat(lists)) : Flat(lists)[n] = lists[k][i]
<1> DEFINE row == [k \in DOMAIN lists |-> {k} \X DOMAIN lists[k]]
           places == UNION {{k} \X DOMAIN lists[k] : k \in DOMAIN lists}
           before == [p \in places |-> {q \in places : \/ q[1] < p[1]
                                                       \/ q[1] = p[1] /\ q[2] <= p[2]}]
           order == InOrder(before)
           size == Cardinality(places)
<1>1. DOMAIN lists = 1 .. Len(lists) /\ Len(lists) \in Nat
  BY LenProperties
<1>2. ASSUME NEW k \in DOMAIN lists
      PROVE  lists[k] \in Seq(T) /\ DOMAIN lists[k] = 1 .. Len(lists[k]) /\ Len(lists[k]) \in Nat
  <2>1. lists[k] \in Seq(T)
    BY <1>1, ElementOfSeq
  <2> QED
    BY <2>1, LenProperties
<1>3. IsFiniteSet(places)
  <2>1. row \in Surjection(DOMAIN lists, {row[k] : k \in DOMAIN lists})
    BY DEF Surjection
  <2>2. IsFiniteSet(DOMAIN lists)
    BY <1>1, FS_Interval
  <2>3. IsFiniteSet({row[k] : k \in DOMAIN lists})
    <3> HIDE DEF row
    <3> QED
      BY <2>1, <2>2, FS_Surjection
  <2>4. ASSUME NEW k \in DOMAIN lists PROVE IsFiniteSet(row[k])
    <3>1. IsFiniteSet(DOMAIN lists[k])
      BY <1>2, FS_Interval
    <3>2. IsFiniteSet({k})
      BY FS_Singleton
    <3> QED
      BY <3>1, <3>2, FS_Product
  <2>5. places = UNION {row[k] : k \in DOMAIN lists}
    OBVIOUS
  <2> HIDE DEF row, places
  <2> QED
    BY <2>3, <2>4, <2>5, FS_UNION
<1>4. \A p \in places : /\ p = <<p[1], p[2]>> /\ p[1] \in DOMAIN lists /\ p[1] \in Nat
                        /\ p[2] \in DOMAIN lists[p[1]] /\ p[2] \in Nat
  BY <1>1, <1>2
<1>5. \A k \in DOMAIN lists : \A i \in DOMAIN lists[k] : <<k, i>> \in places
  OBVIOUS
<1> HIDE DEF places
<1>6. IsOrder(before, places)
  <2>1. before \in [places -> SUBSET places]
    OBVIOUS
  <2>2. \A p, q \in places : q \in before[p] <=> q[1] < p[1] \/ (q[1] = p[1] /\ q[2] <= p[2])
    OBVIOUS
  <2> HIDE DEF before
  <2>3. ASSUME NEW p \in places, NEW q \in places PROVE p \in before[q] \/ q \in before[p]
    <3>1. p[1] \in Nat /\ p[2] \in Nat /\ q[1] \in Nat /\ q[2] \in Nat
      BY <1>4
    <3>2. \/ p[1] < q[1] \/ (p[1] = q[1] /\ p[2] <= q[2])
          \/ q[1] < p[1] \/ (q[1] = p[1] /\ q[2] <= p[2])
      BY <3>1
    <3> QED
      BY <2>2, <3>2
  <2>4. ASSUME NEW p \in places, NEW q \in places, p \in before[q], q \in before[p] PROVE p = q
    <3>1. p[1] \in Nat /\ p[2] \in Nat /\ q[1] \in Nat /\ q[2] \in Nat
      BY <1>4
    <3>2. /\ p[1] < q[1] \/ (p[1] = q[1] /\ p[2] <= q[2])
          /\ q[1] < p[1] \/ (q[1] = p[1] /\ q[2] <= p[2])
      BY <2>2, <2>4
    <3>3. p[1] = q[1] /\ p[2] = q[2]
      BY <3>1, <3>2
    <3>4. p = <<p[1], p[2]>> /\ q = <<q[1], q[2]>>
      BY <1>4
    <3> QED
      BY <3>3, <3>4
  <2>5. ASSUME NEW p \in places, NEW q \in places, q \in before[p], NEW r \in before[q] PROVE r \in before[p]
    <3>1. r \in places
      BY <2>1
    <3>2. /\ p[1] \in Nat /\ p[2] \in Nat /\ q[1] \in Nat /\ q[2] \in Nat /\ r[1] \in Nat /\ r[2] \in Nat
      BY <1>4, <3>1
    <3>3. /\ q[1] < p[1] \/ (q[1] = p[1] /\ q[2] <= p[2])
          /\ r[1] < q[1] \/ (r[1] = q[1] /\ r[2] <= q[2])
      BY <2>2, <2>5, <3>1
    <3>4. r[1] < p[1] \/ (r[1] = p[1] /\ r[2] <= p[2])
      BY <3>2, <3>3
    <3> QED
      BY <2>2, <3>1, <3>4
  <2> QED
    BY <2>1, <2>3, <2>4, <2>5 DEF IsOrder
<1>7. /\ size \in Nat /\ order \in [1 .. size -> places]
      /\ \A p \in places : \E n \in 1 .. size : order[n] = p
  <2> HIDE DEF before
  <2> QED
    BY <1>3, <1>6, InOrderIs
<1>8. Flat(lists) = [n \in 1 .. size |-> lists[order[n][1]][order[n][2]]]
  <2>1. Flat(lists) = [n \in DOMAIN order |-> lists[order[n][1]][order[n][2]]]
    BY DEF Flat, places
  <2> HIDE DEF order
  <2> QED
    BY <1>7, <2>1
<1> HIDE DEF order, size
<1>9. ASSUME NEW n \in 1 .. size
      PROVE  /\ order[n][1] \in DOMAIN lists /\ order[n][2] \in DOMAIN lists[order[n][1]]
             /\ Flat(lists)[n] \in T
  <2>1. order[n][1] \in DOMAIN lists /\ order[n][2] \in DOMAIN lists[order[n][1]]
    BY <1>4, <1>7
  <2>2. lists[order[n][1]][order[n][2]] \in T
    BY <1>2, <2>1, ElementOfSeq
  <2> QED
    BY <1>8, <2>1, <2>2
<1>10. Flat(lists) \in [1 .. size -> T]
  BY <1>8, <1>9
<1>11. Flat(lists) \in Seq(T) /\ Len(Flat(lists)) = size
  BY <1>7, <1>10, FunctionIsSeq
<1>12. ASSUME NEW n \in 1 .. size
       PROVE \E k \in 1 .. Len(lists) : \E i \in 1 .. Len(lists[k]) : Flat(lists)[n] = lists[k][i]
  <2>1. order[n][1] \in 1 .. Len(lists) /\ order[n][2] \in 1 .. Len(lists[order[n][1]])
    BY <1>1, <1>2, <1>9
  <2> QED
    BY <1>8, <2>1
<1>13. ASSUME NEW k \in 1 .. Len(lists), NEW i \in 1 .. Len(lists[k])
       PROVE  \E n \in 1 .. size : Flat(lists)[n] = lists[k][i]
  <2>1. k \in DOMAIN lists /\ i \in DOMAIN lists[k]
    BY <1>1, <1>2
  <2>2. PICK n \in 1 .. size : order[n] = <<k, i>>
    BY <1>5, <1>7, <2>1
  <2> QED
    BY <1>8, <2>2
<1> QED
  BY <1>11, <1>12, <1>13

\* Of the hits of a chunk the one that is kept is a best one.
LEMMA BestIs ==
  ASSUME NEW T, NEW hits \in Seq(T), \A i \in 1 .. Len(hits) : hits[i].score \in Nat,
         NEW chunk, Places(hits, chunk) # {}
  PROVE  /\ Best(hits, chunk) \in Places(hits, chunk)
         /\ \A i \in Places(hits, chunk) : hits[Best(hits, chunk)].score >= hits[i].score
<1> DEFINE S == Places(hits, chunk)
           before == [i \in S |-> {j \in S : \/ hits[j].score > hits[i].score
                                             \/ hits[j].score = hits[i].score /\ j <= i}]
           order == InOrder(before)
<1>1. S \in SUBSET (1 .. Len(hits)) /\ Len(hits) \in Nat /\ S \in SUBSET Nat
  BY LenProperties DEF Places
<1>2. IsFiniteSet(S) /\ \A i \in S : hits[i].score \in Nat
  <2>1. IsFiniteSet(1 .. Len(hits))
    BY <1>1, FS_Interval
  <2> HIDE DEF S
  <2> QED
    BY <1>1, <2>1, FS_Subset
<1> HIDE DEF S
<1>3. IsOrder(before, S)
  BY <1>1, <1>2, ScoreOrder
<1>4. /\ Cardinality(S) \in Nat /\ order \in [1 .. Cardinality(S) -> S]
      /\ \A p \in S : \E n \in 1 .. Cardinality(S) : order[n] = p
      /\ \A m, n \in 1 .. Cardinality(S) : m <= n <=> order[m] \in before[order[n]]
  <2> HIDE DEF before
  <2> QED
    BY <1>2, <1>3, InOrderIs
<1>5. 1 \in 1 .. Cardinality(S)
  <2>1. S # {}
    BY DEF S
  <2>2. Cardinality(S) # 0
    BY <1>2, <2>1, FS_EmptySet
  <2> HIDE DEF order
  <2> QED
    BY <1>4, <2>2
<1>6. ASSUME NEW i \in S PROVE order[1] \in before[i]
  <2>1. PICK n \in 1 .. Cardinality(S) : order[n] = i
    BY <1>4
  <2> HIDE DEF order, before
  <2> QED
    BY <1>4, <1>5, <2>1
<1>7. \E j \in S : \A i \in S : \/ hits[j].score > hits[i].score
                                \/ hits[j].score = hits[i].score /\ j <= i
  <2>1. order[1] \in S
    BY <1>4, <1>5
  <2> HIDE DEF order
  <2> QED
    BY <1>6, <2>1
<1>8. /\ Best(hits, chunk) \in S
      /\ \A i \in S : \/ hits[Best(hits, chunk)].score > hits[i].score
                      \/ hits[Best(hits, chunk)].score = hits[i].score /\ Best(hits, chunk) <= i
  BY <1>7 DEF Best, S
<1>9. ASSUME NEW i \in S PROVE hits[Best(hits, chunk)].score >= hits[i].score
  <2>1. hits[Best(hits, chunk)].score \in Nat /\ hits[i].score \in Nat
    BY <1>2, <1>8
  <2> QED
    BY <1>8, <2>1
<1> QED
  BY <1>8, <1>9 DEF S

\* seq[:n].
LEMMA TakeIs ==
  ASSUME NEW T, NEW seq \in Seq(T), NEW n \in Nat
  PROVE  /\ Take(seq, n) \in Seq(T)
         /\ Len(Take(seq, n)) = IF n < Len(seq) THEN n ELSE Len(seq)
         /\ \A i \in 1 .. Len(Take(seq, n)) : Take(seq, n)[i] = seq[i]
<1> DEFINE k == IF n < Len(seq) THEN n ELSE Len(seq)
<1>1. Len(seq) \in Nat /\ k \in Nat /\ k <= Len(seq)
  BY LenProperties
<1>2. \A i \in 1 .. k : seq[i] \in T
  <2> HIDE DEF k
  <2> QED
    BY <1>1, ElementOfSeq
<1>3. Take(seq, n) = SubSeq(seq, 1, k)
  BY DEF Take
<1> HIDE DEF k
<1>4. /\ SubSeq(seq, 1, k) \in Seq(T)
      /\ Len(SubSeq(seq, 1, k)) = IF 1 <= k THEN k - 1 + 1 ELSE 0
      /\ \A i \in 1 .. k - 1 + 1 : SubSeq(seq, 1, k)[i] = seq[1 + i - 1]
  BY <1>1, <1>2, SubSeqProperties
<1>5. Len(SubSeq(seq, 1, k)) = k /\ \A i \in 1 .. k : SubSeq(seq, 1, k)[i] = seq[i]
  BY <1>1, <1>4
<1> QED
  BY <1>3, <1>4, <1>5 DEF k

-----------------------------------------------------------------------------
(* The parts of a search.                                                  *)

Hits == [chunk : Chunks, score : Nat, dense : Nat]
RankedHits == [chunk : Chunks, score : Nat]

\* The chunks of a sequence of matches, hits or passages.
ChunksOf(seq) == {seq[i].chunk : i \in 1 .. Len(seq)}

LEMMA RankingIs ==
  /\ \A r \in DenseRankings :
       /\ r \in Seq([chunk : Chunks, similarity : Similarities]) /\ Len(r) <= Limit
  /\ \A r \in SparseRankings : r \in Seq([chunk : Chunks]) /\ Len(r) <= Limit
  /\ <<>> \in DenseRankings /\ <<>> \in SparseRankings
<1>1. ASSUME NEW matches, NEW r \in Ranking(matches) PROVE r \in Seq(matches) /\ Len(r) <= Limit
  <2>1. PICK m \in 0 .. MaxRanking : r \in [1 .. m -> matches]
    BY DEF Ranking, BoundedSeq, SeqOf
  <2>2. m \in Nat /\ m <= Limit
    BY BoundsAssumption
  <2>3. r \in Seq(matches) /\ Len(r) = m
    BY <2>1, <2>2, FunctionIsSeq
  <2> QED
    BY <2>2, <2>3
<1>2. ASSUME NEW matches PROVE <<>> \in Ranking(matches)
  <2>1. <<>> \in [1 .. 0 -> matches] /\ 0 \in 0 .. MaxRanking
    BY BoundsAssumption
  <2>2. <<>> \in BoundedSeq(matches, MaxRanking)
    BY <2>1 DEF BoundedSeq, SeqOf
  <2> QED
    BY <2>2 DEF Ranking
<1>3. <<>> \in DenseRankings
  BY <1>2 DEF DenseRankings
<1> QED
  BY <1>1, <1>2, <1>3 DEF DenseRankings, SparseRankings

\* The number a rank is worth.
LEMMA ReciprocalType == \A rank \in 1 .. Limit : Reciprocal(rank) \in Nat
  BY ScoresAssumption, BoundsAssumption DEF Reciprocal

LEMMA ScoreTypes ==
  ASSUME NEW chunk
  PROVE  /\ \A r \in DenseRankings : RankScore(r, chunk) \in Nat /\ Similarity(r, chunk) \in Nat
         /\ \A r \in SparseRankings : RankScore(r, chunk) \in Nat
<1>1. ASSUME NEW T, NEW r \in Seq(T), Len(r) <= Limit PROVE RankScore(r, chunk) \in Nat
  <2>1. CASE Places(r, chunk) = {}
    BY <2>1 DEF RankScore
  <2>2. CASE Places(r, chunk) # {}
    <3> DEFINE p == CHOOSE i \in Places(r, chunk) : TRUE
    <3>1. p \in Places(r, chunk)
      BY <2>2
    <3> HIDE DEF p
    <3>2. p \in 1 .. Len(r) /\ Len(r) \in Nat
      BY <3>1, LenProperties DEF Places
    <3>3. p \in 1 .. Limit
      BY <1>1, <3>2, BoundsAssumption
    <3>4. RankScore(r, chunk) = Reciprocal(p)
      BY <2>2 DEF RankScore, p
    <3> QED
      BY <3>3, <3>4, ReciprocalType
  <2> QED
    BY <2>1, <2>2
<1>2. ASSUME NEW r \in DenseRankings PROVE Similarity(r, chunk) \in Nat
  <2>1. CASE Places(r, chunk) = {}
    BY <2>1 DEF Similarity
  <2>2. CASE Places(r, chunk) # {}
    <3> DEFINE p == CHOOSE i \in Places(r, chunk) : TRUE
    <3>1. p \in Places(r, chunk)
      BY <2>2
    <3> HIDE DEF p
    <3>2. p \in 1 .. Len(r)
      BY <3>1, RankingIs, LenProperties DEF Places
    <3>3. r[p] \in [chunk : Chunks, similarity : Similarities]
      BY <3>2, RankingIs, ElementOfSeq
    <3>4. Similarity(r, chunk) = r[p].similarity
      BY <2>2 DEF Similarity, p
    <3> QED
      BY <3>3, <3>4, ScoresAssumption
  <2> QED
    BY <2>1, <2>2
<1> QED
  BY <1>1, <1>2, RankingIs

LEMMA ChunkIdsAre ==
  ASSUME NEW T, NEW seq \in Seq(T), \A t \in T : t.chunk \in Chunks
  PROVE  /\ ChunkIds(seq) \in Seq(Chunks) /\ Len(ChunkIds(seq)) = Len(seq)
         /\ \A i \in 1 .. Len(seq) : ChunkIds(seq)[i] = seq[i].chunk
         /\ ChunksOf(seq) \in SUBSET Chunks
<1>1. Len(seq) \in Nat /\ \A i \in 1 .. Len(seq) : seq[i] \in T
  BY LenProperties, ElementOfSeq
<1>2. ChunkIds(seq) \in [1 .. Len(seq) -> Chunks]
  BY <1>1 DEF ChunkIds
<1>3. ChunkIds(seq) \in Seq(Chunks) /\ Len(ChunkIds(seq)) = Len(seq)
  BY <1>1, <1>2, FunctionIsSeq
<1> QED
  BY <1>1, <1>3 DEF ChunkIds, ChunksOf

\* Whatever hits are sorted and cut: no chunk is made up or doubled, and with few
\* enough none is lost.
LEMMA TopHitsAre ==
  ASSUME NEW hits \in Seq(Hits),
         \A m, n \in 1 .. Len(hits) : hits[m].chunk = hits[n].chunk => m = n
  PROVE  LET top == Take(Descending(hits), Limit)
         IN  /\ top \in Seq(Hits)
             /\ ChunksOf(top) \in SUBSET ChunksOf(hits)
             /\ \A m, n \in 1 .. Len(top) : m <= n => top[m].score >= top[n].score
             /\ \A m, n \in 1 .. Len(top) : top[m].chunk = top[n].chunk => m = n
             /\ Len(hits) <= Limit => ChunksOf(top) = ChunksOf(hits)
<1> DEFINE S == 1 .. Len(hits)
           sorted == Descending(hits)
           top == Take(sorted, Limit)
<1>1. Len(hits) \in Nat /\ \A i \in S : hits[i] \in Hits
  BY LenProperties, ElementOfSeq
<1>2. \A i \in S : hits[i].score \in Nat
  BY <1>1 DEF Hits
<1>3. sorted \in Seq(Hits) /\ Len(sorted) = Len(hits)
  BY <1>2, DescendingIs
<1>4. PICK at \in [S -> S] :
        /\ \A i \in S : \E n \in S : at[n] = i
        /\ \A m, n \in S : at[m] = at[n] => m = n
        /\ \A n \in S : sorted[n] = hits[at[n]]
        /\ \A m, n \in S : m <= n => hits[at[m]].score >= hits[at[n]].score
  BY <1>2, DescendingIs
<1> HIDE DEF sorted
<1>5. /\ top \in Seq(Hits)
      /\ Len(top) = IF Limit < Len(hits) THEN Limit ELSE Len(hits)
      /\ \A i \in 1 .. Len(top) : top[i] = sorted[i]
  BY <1>3, TakeIs, BoundsAssumption
<1> HIDE DEF top
<1>6. ASSUME NEW i \in 1 .. Len(top) PROVE i \in S /\ at[i] \in S /\ top[i] = hits[at[i]]
  <2>1. i \in S
    BY <1>1, <1>5, BoundsAssumption
  <2> QED
    BY <1>4, <1>5, <2>1
<1>7. \A m, n \in 1 .. Len(top) : m <= n => top[m].score >= top[n].score
  BY <1>4, <1>6
<1>8. ASSUME NEW m \in 1 .. Len(top), NEW n \in 1 .. Len(top), top[m].chunk = top[n].chunk
      PROVE  m = n
  <2>1. hits[at[m]].chunk = hits[at[n]].chunk /\ at[m] \in S /\ at[n] \in S
    BY <1>6, <1>8
  <2>2. at[m] = at[n]
    BY <2>1
  <2> QED
    BY <1>4, <1>6, <2>2
<1>9. ChunksOf(top) \in SUBSET ChunksOf(hits)
  BY <1>6 DEF ChunksOf
<1>10. ASSUME Len(hits) <= Limit, NEW i \in S PROVE \E n \in 1 .. Len(top) : top[n] = hits[i]
  <2>1. Len(top) = Len(hits)
    BY <1>1, <1>5, <1>10, BoundsAssumption
  <2> QED
    BY <1>4, <1>6, <2>1
<1>11. Len(hits) <= Limit => ChunksOf(top) = ChunksOf(hits)
  <2>1. ASSUME Len(hits) <= Limit, NEW c \in ChunksOf(hits) PROVE c \in ChunksOf(top)
    <3>1. PICK i \in S : c = hits[i].chunk
      BY DEF ChunksOf
    <3>2. PICK n \in 1 .. Len(top) : top[n] = hits[i]
      BY <1>10, <2>1
    <3> QED
      BY <3>1, <3>2 DEF ChunksOf
  <2> QED
    BY <1>9, <2>1
<1> QED
  BY <1>5, <1>7, <1>8, <1>9, <1>11 DEF top, sorted

\* A hybrid search has the chunks of its two sides, each once.
LEMMA FuseIs ==
  ASSUME NEW dense \in DenseRankings, NEW sparse \in SparseRankings
  PROVE  /\ Fuse(dense, sparse) \in Seq(Hits)
         /\ ChunksOf(Fuse(dense, sparse)) \in SUBSET (ChunksOf(dense) \union ChunksOf(sparse))
         /\ \A F : IsFiniteSet(F) /\ Cardinality(F) <= Limit
                   /\ ChunksOf(dense) \union ChunksOf(sparse) \in SUBSET F
              => ChunksOf(Fuse(dense, sparse)) = ChunksOf(dense) \union ChunksOf(sparse)
<1> DEFINE d == ChunkIds(dense)
           s == ChunkIds(sparse)
           both == d \o s
           ids == Distinct(both)
           hits == [n \in 1 .. Len(ids) |->
                      [chunk |-> ids[n],
                       score |-> RankScore(dense, ids[n]) + RankScore(sparse, ids[n]),
                       dense |-> Similarity(dense, ids[n])]]
           all == ChunksOf(dense) \union ChunksOf(sparse)
<1>1. /\ d \in Seq(Chunks) /\ Len(d) = Len(dense) /\ \A i \in 1 .. Len(dense) : d[i] = dense[i].chunk
      /\ ChunksOf(dense) \in SUBSET Chunks
  <2>1. dense \in Seq([chunk : Chunks, similarity : Similarities])
    BY RankingIs
  <2>2. \A t \in [chunk : Chunks, similarity : Similarities] : t.chunk \in Chunks
    OBVIOUS
  <2> QED
    BY <2>1, <2>2, ChunkIdsAre
<1>2. /\ s \in Seq(Chunks) /\ Len(s) = Len(sparse) /\ \A i \in 1 .. Len(sparse) : s[i] = sparse[i].chunk
      /\ ChunksOf(sparse) \in SUBSET Chunks
  <2>1. sparse \in Seq([chunk : Chunks])
    BY RankingIs
  <2>2. \A t \in [chunk : Chunks] : t.chunk \in Chunks
    OBVIOUS
  <2> QED
    BY <2>1, <2>2, ChunkIdsAre
<1>3. Len(d) \in Nat /\ Len(s) \in Nat
  BY <1>1, <1>2, LenProperties
<1> HIDE DEF d, s
<1>4. /\ both \in Seq(Chunks) /\ Len(both) = Len(d) + Len(s)
      /\ \A i \in 1 .. Len(d) + Len(s) : both[i] = IF i <= Len(d) THEN d[i] ELSE s[i - Len(d)]
  <2>1. /\ d \o s \in Seq(Chunks) /\ Len(d \o s) = Len(d) + Len(s)
        /\ \A i \in 1 .. Len(d) + Len(s) : (d \o s)[i] = IF i <= Len(d) THEN d[i] ELSE s[i - Len(d)]
    <3>1. d \in Seq(Chunks) /\ s \in Seq(Chunks)
      BY <1>1, <1>2
    <3> HIDE DEF both, ids, hits, all
    <3> QED
      BY <3>1, ConcatProperties, Zenon
  <2> QED
    BY <2>1
<1> HIDE DEF both
<1>5. {both[i] : i \in 1 .. Len(both)} = all
  <2>1. ASSUME NEW i \in 1 .. Len(both) PROVE both[i] \in all
    <3>1. CASE i <= Len(d)
      <4>1. i \in 1 .. Len(dense) /\ both[i] = dense[i].chunk
        BY <1>1, <1>3, <1>4, <3>1
      <4> QED
        BY <4>1 DEF ChunksOf
    <3>2. CASE ~(i <= Len(d))
      <4>1. i - Len(d) \in 1 .. Len(sparse) /\ both[i] = s[i - Len(d)]
        BY <1>2, <1>3, <1>4, <3>2
      <4>2. both[i] = sparse[i - Len(d)].chunk
        BY <1>2, <4>1
      <4> QED
        BY <4>1, <4>2 DEF ChunksOf
    <3> QED
      BY <3>1, <3>2
  <2>2. ASSUME NEW c \in ChunksOf(dense) PROVE \E i \in 1 .. Len(both) : both[i] = c
    <3>1. PICK i \in 1 .. Len(dense) : c = dense[i].chunk
      BY DEF ChunksOf
    <3>2. i \in 1 .. Len(both) /\ both[i] = d[i]
      BY <1>1, <1>3, <1>4
    <3> QED
      BY <1>1, <3>1, <3>2
  <2>3. ASSUME NEW c \in ChunksOf(sparse) PROVE \E i \in 1 .. Len(both) : both[i] = c
    <3>1. PICK i \in 1 .. Len(sparse) : c = sparse[i].chunk
      BY DEF ChunksOf
    <3>2. Len(d) + i \in 1 .. Len(both) /\ ~(Len(d) + i <= Len(d)) /\ Len(d) + i - Len(d) = i
      BY <1>2, <1>3, <1>4
    <3>3. both[Len(d) + i] = s[i]
      BY <1>4, <3>2
    <3> QED
      BY <1>2, <3>1, <3>2, <3>3
  <2> QED
    BY <2>1, <2>2, <2>3
<1>6. /\ ids \in Seq(Chunks) /\ Len(ids) \in Nat
      /\ \A m, n \in 1 .. Len(ids) : ids[m] = ids[n] => m = n
      /\ {ids[n] : n \in 1 .. Len(ids)} = all
  <2>1. /\ ids \in Seq(Chunks)
        /\ \A n \in 1 .. Len(ids) : \E i \in 1 .. Len(both) : ids[n] = both[i]
        /\ \A i \in 1 .. Len(both) : \E n \in 1 .. Len(ids) : ids[n] = both[i]
        /\ \A m, n \in 1 .. Len(ids) : ids[m] = ids[n] => m = n
    BY <1>4, DistinctIs
  <2>2. Len(ids) \in Nat
    BY <2>1, LenProperties
  <2> HIDE DEF ids, all
  <2>3. \A n \in 1 .. Len(ids) : ids[n] \in all
    BY <1>5, <2>1
  <2>4. \A c \in all : \E n \in 1 .. Len(ids) : ids[n] = c
    BY <1>5, <2>1
  <2>5. {ids[n] : n \in 1 .. Len(ids)} = all
    BY <2>3, <2>4
  <2> QED
    BY <2>1, <2>2, <2>5
<1> HIDE DEF ids, all
<1>7. ASSUME NEW n \in 1 .. Len(ids)
      PROVE  hits[n] \in Hits /\ hits[n].chunk = ids[n]
  <2>1. ids[n] \in Chunks
    BY <1>6, ElementOfSeq
  <2>2. /\ RankScore(dense, ids[n]) + RankScore(sparse, ids[n]) \in Nat
        /\ Similarity(dense, ids[n]) \in Nat
    BY ScoreTypes
  <2> QED
    BY <2>1, <2>2 DEF Hits
<1>8. hits \in Seq(Hits) /\ Len(hits) = Len(ids)
  <2>1. hits \in [1 .. Len(ids) -> Hits]
    BY <1>7
  <2> HIDE DEF hits
  <2> QED
    BY <1>6, <2>1, FunctionIsSeq
<1>9. \A m, n \in 1 .. Len(hits) : hits[m].chunk = hits[n].chunk => m = n
  <2> HIDE DEF hits
  <2> QED
    BY <1>6, <1>7, <1>8
<1>10. ChunksOf(hits) = all
  <2> HIDE DEF hits
  <2> QED
    BY <1>6, <1>7, <1>8 DEF ChunksOf
<1>11. Fuse(dense, sparse) = Take(Descending(hits), Limit)
  BY DEF Fuse, ids, both, d, s
<1> HIDE DEF hits
<1>12. /\ Fuse(dense, sparse) \in Seq(Hits)
       /\ ChunksOf(Fuse(dense, sparse)) \in SUBSET all
       /\ Len(hits) <= Limit => ChunksOf(Fuse(dense, sparse)) = all
  BY <1>8, <1>9, <1>10, <1>11, TopHitsAre
<1>13. ASSUME NEW F, IsFiniteSet(F), Cardinality(F) <= Limit, all \in SUBSET F PROVE Len(hits) <= Limit
  <2>1. ids \in Seq(F)
    <3>1. \A n \in 1 .. Len(ids) : ids[n] \in F
      BY <1>6, <1>13
    <3>2. ids = [n \in 1 .. Len(ids) |-> ids[n]]
      BY <1>6, LenProperties
    <3>3. ids \in [1 .. Len(ids) -> F]
      BY <3>1, <3>2
    <3> QED
      BY <1>6, <3>3, FunctionIsSeq
  <2>2. Len(ids) <= Cardinality(F)
    BY <1>6, <1>13, <2>1, DistinctLen
  <2>3. Cardinality(F) \in Nat
    BY <1>13, FS_CardinalityType
  <2> QED
    BY <1>6, <1>8, <1>13, <2>2, <2>3, BoundsAssumption
<1> QED
  BY <1>12, <1>13 DEF all

\* The chunks of all hits of the searches.
Listed(lists) == UNION {ChunksOf(lists[k]) : k \in 1 .. Len(lists)}

\* The merge has every chunk of the searches once, while they are not too many,
\* and its scores descend.
LEMMA MergeIs ==
  ASSUME NEW lists \in Seq(Seq(Hits))
  PROVE  /\ Merge(lists) \in Seq(Hits)
         /\ ChunksOf(Merge(lists)) \in SUBSET Listed(lists)
         /\ \A m, n \in 1 .. Len(Merge(lists)) : m <= n => Merge(lists)[m].score >= Merge(lists)[n].score
         /\ \A F : IsFiniteSet(F) /\ Cardinality(F) <= Limit /\ Listed(lists) \in SUBSET F
              => ChunksOf(Merge(lists)) = Listed(lists)
<1> DEFINE all == Flat(lists)
           c == ChunkIds(all)
           ids == Distinct(c)
           hits == [n \in 1 .. Len(ids) |-> all[Best(all, ids[n])]]
<1>1. /\ all \in Seq(Hits) /\ Len(all) \in Nat
      /\ \A n \in 1 .. Len(all) : \E k \in 1 .. Len(lists) : \E i \in 1 .. Len(lists[k]) : all[n] = lists[k][i]
      /\ \A k \in 1 .. Len(lists) : \A i \in 1 .. Len(lists[k]) : \E n \in 1 .. Len(all) : all[n] = lists[k][i]
  <2> HIDE DEF c, ids, hits
  <2>1. all \in Seq(Hits) /\ \A k \in 1 .. Len(lists) : \A i \in 1 .. Len(lists[k]) :
                                \E n \in 1 .. Len(all) : all[n] = lists[k][i]
    BY FlatIs
  <2>2. \A n \in 1 .. Len(all) :
          \E k \in 1 .. Len(lists) : \E i \in 1 .. Len(lists[k]) : all[n] = lists[k][i]
    BY FlatIs
  <2>3. Len(all) \in Nat
    BY <2>1, LenProperties
  <2> QED
    BY <2>1, <2>2, <2>3
<1> HIDE DEF all
<1>2. /\ DOMAIN all = 1 .. Len(all) /\ \A i \in 1 .. Len(all) : all[i] \in Hits
      /\ \A i \in 1 .. Len(all) : all[i].score \in Nat
  <2>1. DOMAIN all = 1 .. Len(all) /\ \A i \in 1 .. Len(all) : all[i] \in Hits
    BY <1>1, LenProperties, ElementOfSeq
  <2> QED
    BY <2>1 DEF Hits
<1>3. /\ c \in Seq(Chunks) /\ Len(c) = Len(all) /\ \A i \in 1 .. Len(all) : c[i] = all[i].chunk
  <2>1. \A h \in Hits : h.chunk \in Chunks
    BY DEF Hits
  <2> QED
    BY <1>1, <2>1, ChunkIdsAre
<1> HIDE DEF c
<1>4. /\ ids \in Seq(Chunks) /\ Len(ids) \in Nat
      /\ \A n \in 1 .. Len(ids) : \E i \in 1 .. Len(c) : ids[n] = c[i]
      /\ \A i \in 1 .. Len(c) : \E n \in 1 .. Len(ids) : ids[n] = c[i]
      /\ \A m, n \in 1 .. Len(ids) : ids[m] = ids[n] => m = n
  BY <1>3, DistinctIs, LenProperties
<1> HIDE DEF ids
<1>5. \A n \in 1 .. Len(ids) : ids[n] \in Listed(lists)
  <2> SUFFICES ASSUME NEW n \in 1 .. Len(ids) PROVE ids[n] \in Listed(lists)
    OBVIOUS
  <2>1. PICK j \in 1 .. Len(all) : ids[n] = all[j].chunk
    BY <1>3, <1>4
  <2>2. PICK k \in 1 .. Len(lists) : \E i \in 1 .. Len(lists[k]) : all[j] = lists[k][i]
    BY <1>1
  <2>3. ids[n] \in ChunksOf(lists[k])
    BY <2>1, <2>2 DEF ChunksOf
  <2> QED
    BY <2>3 DEF Listed
<1>6. ASSUME NEW x \in Listed(lists) PROVE \E n \in 1 .. Len(ids) : ids[n] = x
  <2>1. PICK k \in 1 .. Len(lists) : x \in ChunksOf(lists[k])
    BY DEF Listed
  <2>2. PICK i \in 1 .. Len(lists[k]) : x = lists[k][i].chunk
    BY <2>1 DEF ChunksOf
  <2>3. PICK j \in 1 .. Len(all) : all[j] = lists[k][i]
    BY <1>1
  <2>4. x = c[j] /\ j \in 1 .. Len(c)
    BY <1>3, <2>2, <2>3
  <2> QED
    BY <1>4, <2>4
<1>7. ASSUME NEW n \in 1 .. Len(ids) PROVE hits[n] \in Hits /\ hits[n].chunk = ids[n]
  <2>1. PICK j \in 1 .. Len(all) : ids[n] = all[j].chunk
    BY <1>3, <1>4
  <2>2. Places(all, ids[n]) # {}
    BY <1>2, <2>1 DEF Places
  <2>3. Best(all, ids[n]) \in Places(all, ids[n])
    BY <1>1, <1>2, <2>2, BestIs
  <2> QED
    BY <1>2, <2>3 DEF Places
<1>8. hits \in Seq(Hits) /\ Len(hits) = Len(ids)
  <2>1. hits \in [1 .. Len(ids) -> Hits]
    BY <1>7
  <2> HIDE DEF hits
  <2> QED
    BY <1>4, <2>1, FunctionIsSeq
<1>9. Merge(lists) = Take(Descending(hits), Limit)
  BY DEF Merge, ids, c, all
<1> HIDE DEF hits
<1>10. \A m, n \in 1 .. Len(hits) : hits[m].chunk = hits[n].chunk => m = n
  BY <1>4, <1>7, <1>8
<1>11. ChunksOf(hits) = Listed(lists)
  <2>1. ChunksOf(hits) \in SUBSET Listed(lists)
    BY <1>5, <1>7, <1>8 DEF ChunksOf
  <2>2. ASSUME NEW x \in Listed(lists) PROVE x \in ChunksOf(hits)
    <3>1. PICK n \in 1 .. Len(hits) : hits[n].chunk = x
      BY <1>6, <1>7, <1>8
    <3> QED
      BY <3>1 DEF ChunksOf
  <2> QED
    BY <2>1, <2>2
<1>12. /\ Merge(lists) \in Seq(Hits)
       /\ ChunksOf(Merge(lists)) \in SUBSET Listed(lists)
       /\ \A m, n \in 1 .. Len(Merge(lists)) : m <= n => Merge(lists)[m].score >= Merge(lists)[n].score
       /\ Len(hits) <= Limit => ChunksOf(Merge(lists)) = Listed(lists)
  BY <1>8, <1>9, <1>10, <1>11, TopHitsAre
<1>13. ASSUME NEW F, IsFiniteSet(F), Cardinality(F) <= Limit, Listed(lists) \in SUBSET F
       PROVE  Len(hits) <= Limit
  <2>1. ids \in Seq(F)
    <3>1. \A n \in 1 .. Len(ids) : ids[n] \in F
      BY <1>5, <1>13
    <3>2. ids = [n \in 1 .. Len(ids) |-> ids[n]]
      BY <1>4, LenProperties
    <3>3. ids \in [1 .. Len(ids) -> F]
      BY <3>1, <3>2
    <3> QED
      BY <1>4, <3>3, FunctionIsSeq
  <2>2. Len(ids) <= Cardinality(F)
    BY <1>4, <1>13, <2>1, DistinctLen
  <2>3. Cardinality(F) \in Nat
    BY <1>13, FS_CardinalityType
  <2> QED
    BY <1>4, <1>8, <1>13, <2>2, <2>3, BoundsAssumption
<1> QED
  BY <1>12, <1>13

\* The ranking has the chunks of the merge, its scores descend, and a reranked
\* score is no less than the overlap of the words.
LEMMA RankIs ==
  ASSUME reranking \in BOOLEAN, NEW hits \in Seq(Hits),
         \A m, n \in 1 .. Len(hits) : m <= n => hits[m].score >= hits[n].score
  PROVE  /\ Rank(hits) \in Seq(RankedHits)
         /\ ChunksOf(Rank(hits)) = ChunksOf(hits)
         /\ \A m, n \in 1 .. Len(Rank(hits)) : m <= n => Rank(hits)[m].score >= Rank(hits)[n].score
         /\ reranking => \A n \in 1 .. Len(Rank(hits)) : Rank(hits)[n].score >= Overlap[Rank(hits)[n].chunk]
<1> DEFINE S == 1 .. Len(hits)
           scored == Scored(hits)
<1>1. Len(hits) \in Nat /\ \A i \in S : hits[i] \in Hits
  BY LenProperties, ElementOfSeq
<1>2. ASSUME NEW i \in S
      PROVE  /\ scored[i] \in RankedHits /\ scored[i].chunk = hits[i].chunk
             /\ scored[i].score = IF reranking THEN Strength(hits[i]) ELSE hits[i].score
             /\ Strength(hits[i]) \in Nat /\ Strength(hits[i]) >= Overlap[hits[i].chunk]
  <2>1. hits[i].chunk \in Chunks /\ hits[i].score \in Nat /\ hits[i].dense \in Nat
    BY <1>1 DEF Hits
  <2>2. Overlap[hits[i].chunk] \in Nat
    BY <2>1, ScoresAssumption
  <2>3. Strength(hits[i]) \in Nat /\ Strength(hits[i]) >= Overlap[hits[i].chunk]
    BY <2>1, <2>2 DEF Strength
  <2>4. scored[i] = [chunk |-> hits[i].chunk,
                     score |-> IF reranking THEN Strength(hits[i]) ELSE hits[i].score]
    BY DEF Scored
  <2> QED
    BY <2>1, <2>3, <2>4 DEF RankedHits
<1>3. scored \in Seq(RankedHits) /\ Len(scored) = Len(hits)
  <2>1. scored = [i \in S |-> scored[i]]
    BY DEF Scored
  <2> HIDE DEF scored
  <2>2. scored \in [S -> RankedHits]
    BY <1>2, <2>1
  <2> QED
    BY <1>1, <2>2, FunctionIsSeq
<1> HIDE DEF scored
<1>4. ChunksOf(scored) = ChunksOf(hits)
  BY <1>2, <1>3 DEF ChunksOf
<1>5. CASE ~reranking
  <2>1. Rank(hits) = scored
    BY <1>5 DEF Rank, scored
  <2>2. \A m, n \in S : m <= n => scored[m].score >= scored[n].score
    BY <1>2, <1>5
  <2> QED
    BY <1>3, <1>4, <1>5, <2>1, <2>2
<1>6. CASE reranking
  <2> DEFINE ranked == Descending(scored)
  <2>1. Rank(hits) = ranked
    BY <1>6 DEF Rank, scored
  <2>2. \A i \in 1 .. Len(scored) : scored[i].score \in Nat
    BY <1>2, <1>3 DEF RankedHits
  <2>3. ranked \in Seq(RankedHits) /\ Len(ranked) = Len(hits)
    BY <1>3, <2>2, DescendingIs
  <2>4. PICK at \in [1 .. Len(scored) -> 1 .. Len(scored)] :
          /\ \A i \in 1 .. Len(scored) : \E n \in 1 .. Len(scored) : at[n] = i
          /\ \A m, n \in 1 .. Len(scored) : at[m] = at[n] => m = n
          /\ \A n \in 1 .. Len(scored) : ranked[n] = scored[at[n]]
          /\ \A m, n \in 1 .. Len(scored) : m <= n => scored[at[m]].score >= scored[at[n]].score
    BY <1>3, <2>2, DescendingIs
  <2> HIDE DEF ranked
  <2>5. ASSUME NEW n \in S
        PROVE  at[n] \in S /\ ranked[n] = scored[at[n]]
    BY <1>3, <2>4
  <2>6. ChunksOf(ranked) = ChunksOf(scored)
    <3>1. ASSUME NEW x \in ChunksOf(ranked) PROVE x \in ChunksOf(scored)
      <4>1. PICK n \in S : x = ranked[n].chunk
        BY <2>3 DEF ChunksOf
      <4>2. x = scored[at[n]].chunk /\ at[n] \in 1 .. Len(scored)
        BY <1>3, <2>5, <4>1
      <4> QED
        BY <4>2 DEF ChunksOf
    <3>2. ASSUME NEW x \in ChunksOf(scored) PROVE x \in ChunksOf(ranked)
      <4>1. PICK i \in S : x = scored[i].chunk
        BY <1>3 DEF ChunksOf
      <4>2. PICK n \in 1 .. Len(scored) : at[n] = i
        BY <1>3, <2>4
      <4>3. n \in 1 .. Len(ranked) /\ ranked[n] = scored[i]
        BY <1>3, <2>3, <2>5, <4>2
      <4> QED
        BY <4>1, <4>3 DEF ChunksOf
    <3> QED
      BY <3>1, <3>2
  <2>7. ASSUME NEW m \in S, NEW n \in S, m <= n PROVE ranked[m].score >= ranked[n].score
    <3>1. scored[at[m]].score >= scored[at[n]].score
      BY <1>3, <2>4, <2>7
    <3> QED
      BY <2>5, <3>1
  <2>8. ASSUME NEW n \in S PROVE ranked[n].score >= Overlap[ranked[n].chunk]
    <3>1. at[n] \in S /\ ranked[n] = scored[at[n]]
      BY <2>5
    <3> HIDE DEF S
    <3>2. scored[at[n]].score >= Overlap[scored[at[n]].chunk]
      BY <1>2, <1>6, <3>1
    <3> QED
      BY <3>1, <3>2
  <2> QED
    BY <1>4, <2>1, <2>3, <2>6, <2>7, <2>8
<1> QED
  BY <1>5, <1>6

\* The result of the compression: in order, above the floor, no passage twice;
\* and whatever it drops above the floor is as good as represented in it.
LEMMA CompressIs ==
  ASSUME NEW ranked \in Seq(RankedHits), NEW top \in Nat \ {0},
         \A m, n \in 1 .. Len(ranked) : m <= n => ranked[m].score >= ranked[n].score,
         NEW result, result = Compress(ranked, top)
  PROVE  /\ result \in Seq(RankedHits) /\ Len(result) <= top
         /\ ChunksOf(result) \in SUBSET ChunksOf(ranked)
         /\ reranking => \A n \in 1 .. Len(result) : result[n].score >= Floor
         /\ \A m, n \in 1 .. Len(result) : m < n =>
              /\ result[m].score >= result[n].score
              /\ Passage[result[m].chunk] # Passage[result[n].chunk]
         /\ \A i \in 1 .. Len(ranked) : ranked[i].score >= Floor =>
              \/ \E n \in 1 .. Len(result) : /\ Passage[result[n].chunk] = Passage[ranked[i].chunk]
                                             /\ result[n].score >= ranked[i].score
              \/ Len(result) = top /\ \A n \in 1 .. Len(result) : result[n].score >= ranked[i].score
<1> DEFINE S == 1 .. Len(ranked)
           kept == Kept(ranked)
           those == Those(ranked, kept)
           size == Cardinality(kept)
<1>1. Len(ranked) \in Nat /\ DOMAIN ranked = S /\ \A i \in S : ranked[i] \in RankedHits
  BY LenProperties, ElementOfSeq
<1>2. \A i \in S : ranked[i].score \in Nat /\ i \in Nat
  BY <1>1 DEF RankedHits
<1>3. kept \in SUBSET S /\ kept \in SUBSET DOMAIN ranked
  BY <1>1 DEF Kept
<1>4. \A i \in kept : /\ reranking => ranked[i].score >= Floor
                      /\ \A j \in S : j < i => Passage[ranked[j].chunk] # Passage[ranked[i].chunk]
  <2> SUFFICES ASSUME NEW i \in kept
               PROVE  /\ reranking => ranked[i].score >= Floor
                      /\ \A j \in S : j < i => Passage[ranked[j].chunk] # Passage[ranked[i].chunk]
    OBVIOUS
  <2>1. i \in 1 .. i /\ i \in Nat /\ \A j \in S : j < i => j \in 1 .. i - 1
    BY <1>1, <1>3
  <2> QED
    BY <2>1 DEF Kept
<1> HIDE DEF kept
<1>5. /\ size \in Nat /\ those \in Seq(RankedHits) /\ Len(those) = size
  BY <1>3, ThoseAre
<1>at. PICK at : Placing(ranked, kept, at)
  BY <1>3, ThoseAre
<1>6. /\ at \in [1 .. size -> kept]
      /\ \A p \in kept : \E n \in 1 .. size : at[n] = p
      /\ \A m, n \in 1 .. size : m <= n <=> at[m] <= at[n]
      /\ \A n \in 1 .. size : those[n] = ranked[at[n]]
  BY <1>at DEF Placing
<1> USE DEF kept
<1>7. result = Take(those, top)
  BY DEF Compress
<1>8. ASSUME NEW i \in S, ranked[i].score >= Floor
      PROVE  \E f \in kept : f <= i /\ Passage[ranked[f].chunk] = Passage[ranked[i].chunk]
  <2> DEFINE same == {j \in S : Passage[ranked[j].chunk] = Passage[ranked[i].chunk]}
  <2>1. same \in SUBSET Nat /\ i \in same
    BY <1>2
  <2>2. PICK f \in same : \A j \in same : f <= j
    <3> HIDE DEF same
    <3> QED
      BY <2>1, LeastNumber
  <2>3. f \in S /\ f <= i /\ f \in Nat /\ i \in Nat
    BY <1>2, <2>1, <2>2
  <2>4. ASSUME NEW j \in 1 .. f PROVE ranked[j].score >= Floor
    <3>1. j \in S /\ j <= i
      BY <1>1, <2>3
    <3>2. ranked[j].score >= ranked[i].score /\ ranked[j].score \in Nat /\ ranked[i].score \in Nat
      BY <1>2, <3>1
    <3> QED
      BY <1>8, <3>2, ScoresAssumption
  <2>5. ASSUME NEW j \in 1 .. f - 1 PROVE Passage[ranked[j].chunk] # Passage[ranked[f].chunk]
    <3>1. j \in S /\ ~(f <= j)
      BY <1>1, <2>3
    <3>2. j \notin same
      BY <2>2, <3>1
    <3> QED
      BY <2>2, <3>1, <3>2
  <2>6. f \in kept
    BY <1>1, <2>3, <2>4, <2>5 DEF Kept
  <2> QED
    BY <2>2, <2>3, <2>6
<1> HIDE DEF kept, those, size
<1>9. /\ result \in Seq(RankedHits)
      /\ Len(result) = IF top < size THEN top ELSE size
      /\ \A n \in 1 .. Len(result) : result[n] = those[n]
  BY <1>5, <1>7, TakeIs
<1>10. Len(result) \in Nat /\ Len(result) <= top /\ Len(result) <= size
  BY <1>5, <1>9
<1>11. ASSUME NEW n \in 1 .. Len(result)
       PROVE  n \in 1 .. size /\ at[n] \in kept /\ at[n] \in S /\ result[n] = ranked[at[n]]
  <2>1. n \in 1 .. size
    BY <1>5, <1>10
  <2> QED
    BY <1>3, <1>6, <1>9, <2>1
<1>12. ChunksOf(result) \in SUBSET ChunksOf(ranked)
  BY <1>11 DEF ChunksOf
<1>13. reranking => \A n \in 1 .. Len(result) : result[n].score >= Floor
  BY <1>4, <1>11
<1>14. ASSUME NEW m \in 1 .. Len(result), NEW n \in 1 .. Len(result), m < n
       PROVE  /\ result[m].score >= result[n].score
              /\ Passage[result[m].chunk] # Passage[result[n].chunk]
  <2>1. m <= n /\ ~(n <= m)
    BY <1>10, <1>14
  <2>2. at[m] <= at[n] /\ ~(at[n] <= at[m])
    BY <1>6, <1>11, <2>1
  <2>3. at[m] < at[n]
    BY <1>2, <1>11, <2>2
  <2> QED
    BY <1>4, <1>11, <2>2, <2>3
<1>15. ASSUME NEW i \in S, ranked[i].score >= Floor
       PROVE  \/ \E n \in 1 .. Len(result) : /\ Passage[result[n].chunk] = Passage[ranked[i].chunk]
                                             /\ result[n].score >= ranked[i].score
              \/ Len(result) = top /\ \A n \in 1 .. Len(result) : result[n].score >= ranked[i].score
  <2>1. PICK f \in kept : f <= i /\ Passage[ranked[f].chunk] = Passage[ranked[i].chunk]
    BY <1>8, <1>15
  <2>2. PICK n \in 1 .. size : at[n] = f
    BY <1>6
  <2>3. CASE n <= Len(result)
    <3>1. n \in 1 .. Len(result) /\ result[n] = ranked[f]
      BY <1>5, <1>10, <1>11, <2>2, <2>3
    <3>2. f \in S
      BY <1>3
    <3> QED
      BY <2>1, <3>1, <3>2
  <2>4. CASE ~(n <= Len(result))
    <3>1. Len(result) = top
      BY <1>5, <1>9, <2>2, <2>4
    <3>2. ASSUME NEW m \in 1 .. Len(result) PROVE result[m].score >= ranked[i].score
      <4>1. m <= n /\ m \in 1 .. size
        BY <1>5, <1>10, <2>4
      <4>2. at[m] <= f /\ at[m] \in S /\ f \in S /\ result[m] = ranked[at[m]]
        BY <1>3, <1>6, <1>11, <2>2, <4>1
      <4>3. at[m] <= i
        BY <1>2, <2>1, <4>2
      <4> QED
        BY <4>2, <4>3
    <3> QED
      BY <3>1, <3>2
  <2> QED
    BY <2>3, <2>4
<1> QED
  BY <1>9, <1>10, <1>12, <1>13, <1>14, <1>15

-----------------------------------------------------------------------------
(* The searches.                                                           *)

\* The sides of a search, by name.
BothSides == {"dense", "sparse"}

LEMMA SidesAre ==
  ASSUME NEW search \in Searches
  PROVE  /\ search.dense.ranking \in DenseRankings /\ search.sparse.ranking \in SparseRankings
         /\ \A side \in BothSides :
              /\ search[side].state \in {"pending", "failed", "returned"}
              /\ search[side].state # "returned" => search[side].ranking = <<>>
              /\ search[side] = Pending <=> search[side].state = "pending"
              /\ search[side] = Failed <=> search[side].state = "failed"
<1>1. ASSUME NEW rankings, <<>> \in rankings, NEW end \in Sides(rankings)
      PROVE  /\ end.ranking \in rankings /\ end.state \in {"pending", "failed", "returned"}
             /\ end.state # "returned" => end.ranking = <<>>
             /\ end = Pending <=> end.state = "pending"
             /\ end = Failed <=> end.state = "failed"
  <2>1. CASE end = Pending
    BY <1>1, <2>1 DEF Pending, Failed
  <2>2. CASE end = Failed
    BY <1>1, <2>2 DEF Pending, Failed
  <2>3. CASE \E r \in rankings : end = Returned(r)
    BY <2>3 DEF Pending, Failed, Returned
  <2> QED
    BY <2>1, <2>2, <2>3 DEF Sides
<1>2. search.dense \in Sides(DenseRankings) /\ search.sparse \in Sides(SparseRankings)
  BY DEF Searches
<1>3. <<>> \in DenseRankings /\ <<>> \in SparseRankings
  BY RankingIs
<1>4. ASSUME NEW side \in BothSides
      PROVE  /\ search[side].state \in {"pending", "failed", "returned"}
             /\ search[side].state # "returned" => search[side].ranking = <<>>
             /\ search[side] = Pending <=> search[side].state = "pending"
             /\ search[side] = Failed <=> search[side].state = "failed"
  <2>1. CASE side = "dense"
    BY <1>1, <1>2, <1>3, <2>1
  <2>2. CASE side = "sparse"
    BY <1>1, <1>2, <1>3, <2>2
  <2> QED
    BY <2>1, <2>2 DEF BothSides
<1>5. search.dense.ranking \in DenseRankings /\ search.sparse.ranking \in SparseRankings
  BY <1>1, <1>2, <1>3
<1> QED
  BY <1>4, <1>5

\* The chunks a search found.
FoundBy(search) == ChunksOf(search.dense.ranking) \union ChunksOf(search.sparse.ranking)

\* What was found is what some search found, and it is finite.
LEMMA FoundIs ==
  ASSUME TypeOK
  PROVE  /\ IsFiniteSet(Found) /\ Cardinality(Found) \in Nat
         /\ \A k \in 1 .. Len(searches) : FoundBy(searches[k]) \in SUBSET Found
         /\ \A c \in Found : \E k \in 1 .. Len(searches) : c \in FoundBy(searches[k])
<1>1. DOMAIN searches = 1 .. Len(searches) /\ \A k \in 1 .. Len(searches) : searches[k] \in Searches
  BY LenProperties, ElementOfSeq DEF TypeOK
<1>2. Found \in SUBSET Chunks
  BY DEF Found
<1>3. IsFiniteSet(Found) /\ Cardinality(Found) \in Nat
  BY <1>2, CorpusAssumption, FS_Subset, FS_CardinalityType
<1>4. ASSUME NEW matches, NEW r \in Seq(matches), \A m \in matches : m.chunk \in Chunks
      PROVE  /\ ChunksOf(r) \in SUBSET Chunks
             /\ \A c \in Chunks : Places(r, c) # {} <=> c \in ChunksOf(r)
  <2>1. DOMAIN r = 1 .. Len(r) /\ \A i \in 1 .. Len(r) : r[i] \in matches
    BY LenProperties, ElementOfSeq
  <2> QED
    BY <1>4, <2>1 DEF Places, ChunksOf
<1>5. ASSUME NEW k \in 1 .. Len(searches)
      PROVE  /\ FoundBy(searches[k]) \in SUBSET Chunks
             /\ \A c \in Chunks : c \in FoundBy(searches[k])
                  <=> \E side \in BothSides : Places(searches[k][side].ranking, c) # {}
  <2> DEFINE d == searches[k].dense.ranking
             s == searches[k].sparse.ranking
  <2>1. d \in DenseRankings /\ s \in SparseRankings
    BY <1>1, SidesAre
  <2>2. d \in Seq([chunk : Chunks, similarity : Similarities]) /\ s \in Seq([chunk : Chunks])
    BY <2>1, RankingIs
  <2> HIDE DEF d, s
  <2>3. /\ \A m \in [chunk : Chunks, similarity : Similarities] : m.chunk \in Chunks
        /\ \A m \in [chunk : Chunks] : m.chunk \in Chunks
    OBVIOUS
  <2>4. /\ ChunksOf(d) \in SUBSET Chunks /\ ChunksOf(s) \in SUBSET Chunks
        /\ \A c \in Chunks : Places(d, c) # {} <=> c \in ChunksOf(d)
        /\ \A c \in Chunks : Places(s, c) # {} <=> c \in ChunksOf(s)
    BY <1>4, <2>2, <2>3
  <2>5. FoundBy(searches[k]) = ChunksOf(d) \union ChunksOf(s)
    BY DEF FoundBy, d, s
  <2>6. searches[k]["dense"].ranking = d /\ searches[k]["sparse"].ranking = s
    BY DEF d, s
  <2> QED
    BY <2>4, <2>5, <2>6 DEF BothSides
<1>6. ASSUME NEW k \in 1 .. Len(searches) PROVE FoundBy(searches[k]) \in SUBSET Found
  BY <1>1, <1>5 DEF Found, BothSides
<1>7. ASSUME NEW c \in Found PROVE \E k \in 1 .. Len(searches) : c \in FoundBy(searches[k])
  BY <1>1, <1>2, <1>5 DEF Found, BothSides
<1> QED
  BY <1>3, <1>6, <1>7

\* The hits of the searches are chunks that were found: all of them, unless they
\* exceed the limit of a fusion.
LEMMA HitListsAre ==
  ASSUME TypeOK
  PROVE  /\ HitLists \in Seq(Seq(Hits))
         /\ Listed(HitLists) \in SUBSET Found
         /\ Cardinality(Found) <= Limit => Listed(HitLists) = Found
<1> DEFINE those == Those(searches, Answered)
           size == Cardinality(Answered)
           List(k) == Fuse(those[k].dense.ranking, those[k].sparse.ranking)
<1>1. /\ searches \in Seq(Searches) /\ DOMAIN searches = 1 .. Len(searches)
      /\ \A k \in 1 .. Len(searches) : searches[k] \in Searches
  BY LenProperties, ElementOfSeq DEF TypeOK
<1>2. Answered \in SUBSET DOMAIN searches
  BY DEF Answered
<1>3. those \in Seq(Searches) /\ Len(those) = size /\ size \in Nat
  BY <1>1, <1>2, ThoseAre
<1>at. PICK at : Placing(searches, Answered, at)
  BY <1>1, <1>2, ThoseAre
<1>4. /\ at \in [1 .. size -> Answered]
      /\ \A p \in Answered : \E n \in 1 .. size : at[n] = p
      /\ \A n \in 1 .. size : those[n] = searches[at[n]]
  BY <1>at DEF Placing
<1> HIDE DEF those, size
<1>5. DOMAIN those = 1 .. size
  BY <1>3, LenProperties
<1>6. ASSUME NEW n \in 1 .. size
      PROVE  /\ those[n] \in Searches /\ at[n] \in 1 .. Len(searches) /\ those[n] = searches[at[n]]
             /\ List(n) \in Seq(Hits)
             /\ ChunksOf(List(n)) \in SUBSET FoundBy(those[n])
             /\ \A F : IsFiniteSet(F) /\ Cardinality(F) <= Limit /\ FoundBy(those[n]) \in SUBSET F
                  => ChunksOf(List(n)) = FoundBy(those[n])
  <2>1. those[n] \in Searches /\ at[n] \in 1 .. Len(searches) /\ those[n] = searches[at[n]]
    BY <1>1, <1>2, <1>4
  <2>2. those[n].dense.ranking \in DenseRankings /\ those[n].sparse.ranking \in SparseRankings
    BY <2>1, SidesAre
  <2> QED
    BY <2>1, <2>2, FuseIs DEF FoundBy
<1>7. HitLists = [n \in 1 .. size |-> List(n)]
  BY <1>5 DEF HitLists, those
<1> HIDE DEF List
<1>8. HitLists \in Seq(Seq(Hits)) /\ Len(HitLists) = size
  <2>1. HitLists \in [1 .. size -> Seq(Hits)]
    BY <1>6, <1>7
  <2> QED
    BY <1>3, <2>1, FunctionIsSeq
<1>9. Listed(HitLists) \in SUBSET Found
  <2> SUFFICES ASSUME NEW x \in Listed(HitLists) PROVE x \in Found
    OBVIOUS
  <2>1. PICK n \in 1 .. size : x \in ChunksOf(List(n))
    BY <1>7, <1>8 DEF Listed
  <2>2. x \in FoundBy(searches[at[n]]) /\ at[n] \in 1 .. Len(searches)
    BY <1>6, <2>1
  <2> QED
    BY <2>2, FoundIs
<1>10. ASSUME Cardinality(Found) <= Limit, NEW x \in Found PROVE x \in Listed(HitLists)
  <2>1. PICK k \in 1 .. Len(searches) : x \in FoundBy(searches[k])
    BY FoundIs
  <2>2. ~Lost(searches[k])
    <3> SUFFICES ASSUME Lost(searches[k]) PROVE FALSE
      OBVIOUS
    <3>1. searches[k].dense.ranking = <<>> /\ searches[k].sparse.ranking = <<>>
      BY DEF Lost, Failed
    <3> QED
      BY <2>1, <3>1 DEF FoundBy, ChunksOf
  <2>3. k \in Answered
    BY <1>1, <2>2 DEF Answered
  <2>4. PICK n \in 1 .. size : at[n] = k
    BY <1>4, <2>3
  <2>5. those[n] = searches[k] /\ FoundBy(those[n]) \in SUBSET Found
    BY <1>6, <2>4, FoundIs
  <2>6. ChunksOf(List(n)) = FoundBy(those[n])
    BY <1>6, <1>10, <2>5, FoundIs
  <2>7. x \in ChunksOf(HitLists[n])
    BY <1>7, <2>1, <2>5, <2>6
  <2> QED
    BY <1>8, <2>7 DEF Listed
<1> QED
  BY <1>8, <1>9, <1>10

-----------------------------------------------------------------------------
(* The types.                                                              *)

LEMMA EffectiveType ==
  ASSUME topN \in TopNs
  PROVE  EffectiveTopN \in Nat \ {0}
  BY BoundsAssumption DEF EffectiveTopN

LEMMA RemainingType ==
  ASSUME NEW canonical \in Seq(Texts), NEW variants \in Seq(Texts)
  PROVE  Remaining(canonical, variants) \in Seq(Texts)
<1> DEFINE all == <<Original>> \o canonical \o variants
           kept == Take(Distinct(all), MaxVariants)
<1>1. <<Original>> \in Seq(Texts) /\ Len(<<Original>>) = 1 /\ <<Original>>[1] = Original
  BY CorpusAssumption
<1>2. /\ <<Original>> \o canonical \in Seq(Texts)
      /\ Len(<<Original>> \o canonical) = 1 + Len(canonical)
      /\ Len(canonical) \in Nat /\ Len(variants) \in Nat
  BY <1>1, ConcatProperties, LenProperties, Zenon
<1>3. all \in Seq(Texts) /\ Len(all) = 1 + Len(canonical) + Len(variants)
  <2> HIDE DEF kept
  <2>1. /\ all \in Seq(Texts)
        /\ Len(all) = Len(<<Original>> \o canonical) + Len(variants)
    BY <1>2, ConcatProperties, Zenon
  <2> QED
    BY <1>2, <2>1
<1>4. Len(all) \in Nat /\ Len(all) >= 1
  <2> HIDE DEF all
  <2> QED
    BY <1>2, <1>3
<1> HIDE DEF all
<1>5. Distinct(all) \in Seq(Texts) /\ Len(Distinct(all)) \in Nat /\ Len(Distinct(all)) >= 1
  <2>1. Distinct(all) \in Seq(Texts) /\ Len(Distinct(all)) \in Nat
    BY <1>3, DistinctIs, LenProperties
  <2>2. 1 \in 1 .. Len(all)
    BY <1>4
  <2>3. \E n \in 1 .. Len(Distinct(all)) : Distinct(all)[n] = all[1]
    <3>1. \A i \in 1 .. Len(all) : \E n \in 1 .. Len(Distinct(all)) : Distinct(all)[n] = all[i]
      BY <1>3, DistinctIs
    <3> QED
      BY <2>2, <3>1
  <2> QED
    BY <2>1, <2>3
<1>6. kept \in Seq(Texts) /\ kept # <<>>
  <2>1. kept \in Seq(Texts) /\ Len(kept) >= 1
    BY <1>5, TakeIs, BoundsAssumption
  <2> HIDE DEF kept
  <2> QED
    BY <2>1, EmptySeq
<1>7. Remaining(canonical, variants) = Tail(kept)
  BY DEF Remaining, all
<1> HIDE DEF kept
<1> QED
  BY <1>6, <1>7, HeadTailProperties

LEMMA StartedType ==
  ASSUME NEW text \in Texts
  PROVE  Started(text) \in Searches
  BY DEF Started, Searches, Sides

LEMMA TypeInit == Init => TypeOK
<1> SUFFICES ASSUME Init PROVE TypeOK
  OBVIOUS
<1>1. searches \in Seq(Searches) /\ evidence \in Seq([chunk : Chunks, score : Nat])
  BY EmptySeq DEF Init
<1> QED
  BY <1>1 DEF Init, TypeOK, Phases

\* What Collect makes of the searches.
LEMMA ResultType ==
  ASSUME TypeOK
  PROVE  /\ Merge(HitLists) \in Seq(Hits)
         /\ Rank(Merge(HitLists)) \in Seq(RankedHits)
         /\ Compress(Rank(Merge(HitLists)), EffectiveTopN) \in Seq(RankedHits)
<1>1. HitLists \in Seq(Seq(Hits)) /\ EffectiveTopN \in Nat \ {0} /\ reranking \in BOOLEAN
  BY HitListsAre, EffectiveType DEF TypeOK
<1> DEFINE merged == Merge(HitLists)
           ranked == Rank(merged)
<1>2. /\ merged \in Seq(Hits)
      /\ \A m, n \in 1 .. Len(merged) : m <= n => merged[m].score >= merged[n].score
  BY <1>1, MergeIs
<1> HIDE DEF merged
<1>3. /\ ranked \in Seq(RankedHits)
      /\ \A m, n \in 1 .. Len(ranked) : m <= n => ranked[m].score >= ranked[n].score
  BY <1>1, <1>2, RankIs
<1> HIDE DEF ranked
<1>4. Compress(ranked, EffectiveTopN) \in Seq(RankedHits)
  BY <1>1, <1>3, CompressIs
<1> QED
  BY <1>2, <1>3, <1>4 DEF ranked, merged

LEMMA SideStep ==
  ASSUME TypeOK, NEW k \in DOMAIN searches, NEW side \in BothSides, SideEnds(k, side)
  PROVE  TypeOK'
<1>1. DOMAIN searches = 1 .. Len(searches) /\ searches[k] \in Searches
  BY LenProperties, ElementOfSeq DEF TypeOK
<1>2. PICK outcome \in {Failed} \union {Returned(r) : r \in IF side = "dense" THEN DenseRankings
                                                             ELSE SparseRankings} :
        searches' = [searches EXCEPT ![k][side] = outcome]
  BY DEF SideEnds
<1> DEFINE ended == [searches[k] EXCEPT ![side] = outcome]
<1>3. ended \in Searches
  <2>1. CASE side = "dense"
    <3>1. outcome \in Sides(DenseRankings)
      BY <1>2, <2>1 DEF Sides
    <3> QED
      BY <1>1, <2>1, <3>1 DEF Searches
  <2>2. CASE side = "sparse"
    <3>1. outcome \in Sides(SparseRankings)
      BY <1>2, <2>2 DEF Sides
    <3> QED
      BY <1>1, <2>2, <3>1 DEF Searches
  <2> QED
    BY <2>1, <2>2 DEF BothSides
<1>4. searches' = [searches EXCEPT ![k] = ended]
  BY <1>2
<1> HIDE DEF ended
<1>5. searches' \in Seq(Searches)
  BY <1>1, <1>3, <1>4, ExceptSeq DEF TypeOK
<1> QED
  BY <1>5 DEF SideEnds, TypeOK, request

LEMMA TypeStep == TypeOK /\ [Next]_vars => TypeOK'
<1> SUFFICES ASSUME TypeOK, [Next]_vars PROVE TypeOK'
  OBVIOUS
<1>1. CASE Reject
  BY <1>1 DEF Reject, TypeOK, Phases, request
<1>2. CASE Begin
  <2>1. <<Started(Original)>> \in Seq(Searches)
    BY StartedType, CorpusAssumption
  <2> QED
    BY <1>2, <2>1 DEF Begin, TypeOK, Phases, request
<1>3. CASE Translated
  <2>1. PICK canonical \in {<<>>} \union {<<t>> : t \in Texts} :
          \E variants \in BoundedSeq(Texts, IF canonical = <<>> THEN 0 ELSE MaxVariants) :
             searches' = searches \o [k \in 1 .. Len(Remaining(canonical, variants)) |->
                                        Started(Remaining(canonical, variants)[k])]
    BY <1>3 DEF Translated
  <2>2. PICK variants \in BoundedSeq(Texts, IF canonical = <<>> THEN 0 ELSE MaxVariants) :
          searches' = searches \o [k \in 1 .. Len(Remaining(canonical, variants)) |->
                                     Started(Remaining(canonical, variants)[k])]
    BY <2>1
  <2> DEFINE remaining == Remaining(canonical, variants)
             more == [k \in 1 .. Len(remaining) |-> Started(remaining[k])]
  <2>3. canonical \in Seq(Texts)
    <3> HIDE DEF more, remaining
    <3>1. ASSUME NEW t \in Texts PROVE <<t>> \in Seq(Texts)
      OBVIOUS
    <3> QED
      BY <2>1, <3>1, EmptySeq
  <2>4. variants \in Seq(Texts)
    <3> DEFINE bound == IF canonical = <<>> THEN 0 ELSE MaxVariants
    <3>1. bound \in Nat
      BY BoundsAssumption
    <3>2. PICK m \in 0 .. bound : variants \in [1 .. m -> Texts]
      BY DEF BoundedSeq, SeqOf
    <3> HIDE DEF bound
    <3> QED
      BY <3>1, <3>2, FunctionIsSeq
  <2>5. remaining \in Seq(Texts) /\ Len(remaining) \in Nat
    BY <2>3, <2>4, RemainingType, LenProperties
  <2> HIDE DEF remaining
  <2>6. \A k \in 1 .. Len(remaining) : more[k] \in Searches
    BY <2>5, StartedType, ElementOfSeq
  <2>7. more \in [1 .. Len(remaining) -> Searches]
    BY <2>6
  <2> HIDE DEF more
  <2>8. more \in Seq(Searches)
    BY <2>5, <2>7, FunctionIsSeq
  <2>9. searches' = searches \o more
    BY <2>2 DEF more, remaining
  <2>10. searches' \in Seq(Searches)
    BY <2>8, <2>9, ConcatProperties, Zenon DEF TypeOK
  <2> QED
    BY <1>3, <2>10 DEF Translated, TypeOK, Phases, request
<1>4. CASE ExpansionFails
  BY <1>4 DEF ExpansionFails, TypeOK, Phases, request
<1>5. CASE Collect
  <2>1. Compress(Rank(Merge(HitLists)), EffectiveTopN) \in Seq([chunk : Chunks, score : Nat])
    BY ResultType DEF RankedHits
  <2> QED
    BY <1>5, <2>1 DEF Collect, TypeOK, Phases, request
<1>6. CASE \E k \in DOMAIN searches, side \in {"dense", "sparse"} : SideEnds(k, side)
  BY <1>6, SideStep DEF BothSides
<1>7. CASE UNCHANGED vars
  BY <1>7 DEF vars, request, TypeOK
<1> QED
  BY <1>1, <1>2, <1>3, <1>4, <1>5, <1>6, <1>7 DEF Next

\* Whatever the searches return and in whatever order, they stay a sequence of
\* searches of texts, and the evidence a sequence of chunks of the corpus with
\* their scores (RetrievalRunner.search, _search_candidates).
THEOREM TypeCorrect == Spec => []TypeOK
<1>1. Init => TypeOK
  BY TypeInit
<1>2. TypeOK /\ [Next]_vars => TypeOK'
  BY TypeStep
<1> QED
  BY <1>1, <1>2, PTL DEF Spec

-----------------------------------------------------------------------------
(* What the evidence promises.                                             *)

\* The result of a search, from the searches it was made of.
LEMMA ResultIs ==
  ASSUME TypeOK, NEW result, result = Compress(Rank(Merge(HitLists)), EffectiveTopN)
  PROVE  /\ result \in Seq(RankedHits) /\ Len(result) <= EffectiveTopN
         /\ \A i \in 1 .. Len(result) : /\ result[i].chunk \in Found
                                        /\ reranking => result[i].score >= Floor
         /\ \A i, j \in 1 .. Len(result) : i < j =>
              /\ result[i].score >= result[j].score
              /\ Passage[result[i].chunk] # Passage[result[j].chunk]
         /\ reranking /\ Cardinality(Found) <= Limit =>
              \A c \in Found : Overlap[c] >= Floor =>
                \/ \E i \in 1 .. Len(result) : /\ Passage[result[i].chunk] = Passage[c]
                                               /\ result[i].score >= Overlap[c]
                \/ /\ Len(result) = EffectiveTopN
                   /\ \A i \in 1 .. Len(result) : result[i].score >= Overlap[c]
<1> DEFINE lists == HitLists
           merged == Merge(lists)
           ranked == Rank(merged)
           top == EffectiveTopN
<1>1. /\ lists \in Seq(Seq(Hits)) /\ Listed(lists) \in SUBSET Found
      /\ Cardinality(Found) <= Limit => Listed(lists) = Found
      /\ top \in Nat \ {0} /\ reranking \in BOOLEAN /\ IsFiniteSet(Found)
  BY HitListsAre, FoundIs, EffectiveType DEF TypeOK
<1> HIDE DEF lists, top
<1>2. /\ merged \in Seq(Hits) /\ ChunksOf(merged) \in SUBSET Listed(lists)
      /\ \A m, n \in 1 .. Len(merged) : m <= n => merged[m].score >= merged[n].score
  BY <1>1, MergeIs
<1>3. Cardinality(Found) <= Limit => ChunksOf(merged) = Found
  <2> SUFFICES ASSUME Cardinality(Found) <= Limit PROVE ChunksOf(merged) = Found
    OBVIOUS
  <2>1. IsFiniteSet(Found) /\ Cardinality(Found) <= Limit /\ Listed(lists) \in SUBSET Found
    BY <1>1
  <2>2. ChunksOf(merged) = Listed(lists)
    BY <1>1, <2>1, MergeIs
  <2> QED
    BY <1>1, <2>2
<1> HIDE DEF merged
<1>4. /\ ranked \in Seq(RankedHits) /\ ChunksOf(ranked) = ChunksOf(merged)
      /\ \A m, n \in 1 .. Len(ranked) : m <= n => ranked[m].score >= ranked[n].score
      /\ reranking => \A n \in 1 .. Len(ranked) : ranked[n].score >= Overlap[ranked[n].chunk]
  BY <1>1, <1>2, RankIs
<1> HIDE DEF ranked
<1>5. result = Compress(ranked, top)
  BY DEF ranked, merged, lists, top
<1>6. /\ result \in Seq(RankedHits) /\ Len(result) <= top
      /\ ChunksOf(result) \in SUBSET ChunksOf(ranked)
      /\ reranking => \A n \in 1 .. Len(result) : result[n].score >= Floor
      /\ \A m, n \in 1 .. Len(result) : m < n =>
           /\ result[m].score >= result[n].score
           /\ Passage[result[m].chunk] # Passage[result[n].chunk]
      /\ \A i \in 1 .. Len(ranked) : ranked[i].score >= Floor =>
           \/ \E n \in 1 .. Len(result) : /\ Passage[result[n].chunk] = Passage[ranked[i].chunk]
                                          /\ result[n].score >= ranked[i].score
           \/ Len(result) = top /\ \A n \in 1 .. Len(result) : result[n].score >= ranked[i].score
  BY <1>1, <1>4, <1>5, CompressIs
<1>7. ASSUME NEW i \in 1 .. Len(result) PROVE result[i].chunk \in Found
  <2>1. result[i].chunk \in ChunksOf(result)
    BY DEF ChunksOf
  <2> QED
    BY <1>1, <1>2, <1>4, <1>6, <2>1
<1>8. ASSUME reranking, Cardinality(Found) <= Limit, NEW c \in Found, Overlap[c] >= Floor
      PROVE  \/ \E i \in 1 .. Len(result) : /\ Passage[result[i].chunk] = Passage[c]
                                            /\ result[i].score >= Overlap[c]
             \/ Len(result) = top /\ \A i \in 1 .. Len(result) : result[i].score >= Overlap[c]
  <2>1. c \in ChunksOf(ranked) /\ c \in Chunks
    BY <1>3, <1>4, <1>8 DEF Found
  <2>2. PICK n \in 1 .. Len(ranked) : ranked[n].chunk = c
    BY <2>1 DEF ChunksOf
  <2>3. ranked[n].score \in Nat /\ Overlap[c] \in Nat /\ ranked[n].score >= Overlap[c]
    <3>1. ranked[n] \in RankedHits
      BY <1>4, ElementOfSeq
    <3> QED
      BY <1>4, <1>8, <2>1, <2>2, <3>1, ScoresAssumption DEF RankedHits
  <2>4. ranked[n].score >= Floor
    BY <1>8, <2>3, ScoresAssumption
  <2>5. ASSUME NEW i \in 1 .. Len(result) PROVE result[i].score \in Nat
    <3>1. result[i] \in RankedHits
      BY <1>6, ElementOfSeq
    <3> QED
      BY <3>1 DEF RankedHits
  <2>6. \A i \in 1 .. Len(result) : result[i].score >= ranked[n].score => result[i].score >= Overlap[c]
    BY <2>3, <2>5
  <2>7. CASE \E i \in 1 .. Len(result) : /\ Passage[result[i].chunk] = Passage[ranked[n].chunk]
                                         /\ result[i].score >= ranked[n].score
    BY <2>2, <2>6, <2>7
  <2>8. CASE Len(result) = top /\ \A i \in 1 .. Len(result) : result[i].score >= ranked[n].score
    BY <2>6, <2>8
  <2> QED
    BY <1>6, <2>4, <2>7, <2>8
<1> QED
  BY <1>6, <1>7, <1>8 DEF top

\* There is evidence only at the end; the other steps leave none and no verdict.
Unreported == phase # "done" => evidence = <<>>

LEMMA OtherSteps ==
  ASSUME TypeOK, Unreported, [Next]_vars, ~Collect
  PROVE  \/ UNCHANGED <<vars, topN, reranking>>
         \/ phase' \notin {"done", "outage"} /\ evidence' = <<>>
<1>1. CASE Reject
  BY <1>1 DEF Reject, Unreported
<1>2. CASE Begin
  BY <1>2 DEF Begin, Unreported
<1>3. CASE Translated
  BY <1>3 DEF Translated, Unreported
<1>4. CASE ExpansionFails
  BY <1>4 DEF ExpansionFails, Unreported
<1>5. CASE \E k \in DOMAIN searches, side \in {"dense", "sparse"} : SideEnds(k, side)
  BY <1>5 DEF SideEnds, Unreported
<1>6. CASE UNCHANGED vars
  BY <1>6 DEF vars, request
<1> QED
  BY <1>1, <1>2, <1>3, <1>4, <1>5, <1>6 DEF Next

LEMMA UnreportedStep == TypeOK /\ Unreported /\ [Next]_vars => Unreported'
<1> SUFFICES ASSUME TypeOK, Unreported, [Next]_vars PROVE Unreported'
  OBVIOUS
<1>1. CASE Collect
  BY <1>1 DEF Collect, Unreported
<1>2. CASE ~Collect
  BY <1>2, OtherSteps DEF Unreported, vars
<1> QED
  BY <1>1, <1>2

LEMMA AlwaysUnreported == Spec => [](TypeOK /\ Unreported)
<1>1. Init => Unreported
  BY DEF Init, Unreported
<1>2. TypeOK /\ Unreported /\ [Next]_vars => Unreported'
  BY UnreportedStep
<1> QED
  BY <1>1, <1>2, TypeCorrect, PTL DEF Spec

\* A search that has ended is lost unless one of its sides returned.
LEMMA AnsweredIs ==
  ASSUME TypeOK, \A k \in DOMAIN searches : Ended(searches[k])
  PROVE  Answered # {} <=> \E k \in DOMAIN searches, side \in BothSides :
                             searches[k][side].state = "returned"
<1>1. ASSUME NEW k \in DOMAIN searches
      PROVE  ~Lost(searches[k]) <=> \E side \in BothSides : searches[k][side].state = "returned"
  <2>1. searches[k] \in Searches
    BY LenProperties, ElementOfSeq DEF TypeOK
  <2>2. searches[k].dense # Pending /\ searches[k].sparse # Pending
    BY DEF Ended
  <2>3. ASSUME NEW side \in BothSides
        PROVE  /\ searches[k][side].state \in {"pending", "failed", "returned"}
               /\ searches[k][side] = Pending <=> searches[k][side].state = "pending"
               /\ searches[k][side] = Failed <=> searches[k][side].state = "failed"
    BY <2>1, SidesAre
  <2> QED
    BY <2>2, <2>3 DEF Lost, BothSides
<1> QED
  BY <1>1 DEF Answered

\* A result is given if and only if some side of some search returned, however
\* many searches there are and whichever of them fail: an outage of the store is
\* never taken for an absence of evidence (_search_candidates).
THEOREM OutageIsAlwaysRaised == Spec => []OutageIsRaised
<1>1. Init => OutageIsRaised
  BY DEF Init, OutageIsRaised
<1>2. TypeOK /\ Unreported /\ OutageIsRaised /\ [Next]_vars => OutageIsRaised'
  <2> SUFFICES ASSUME TypeOK, Unreported, OutageIsRaised, [Next]_vars PROVE OutageIsRaised'
    OBVIOUS
  <2>1. CASE Collect
    BY <2>1, AnsweredIs DEF Collect, OutageIsRaised, BothSides
  <2>2. CASE UNCHANGED <<vars, topN, reranking>>
    BY <2>2 DEF OutageIsRaised, vars
  <2>3. CASE phase' \notin {"done", "outage"}
    BY <2>3 DEF OutageIsRaised
  <2> QED
    BY <2>1, <2>2, <2>3, OtherSteps
<1> QED
  BY <1>1, <1>2, AlwaysUnreported, PTL DEF Spec

\* The evidence descends, is above the floor when it is reranked, has no passage
\* twice and at most top_n, and every chunk of it was found by a search, for any
\* hits of any number of searches (_merge_hits, _rerank, _compress).
THEOREM EvidenceIsAlwaysSound == Spec => []EvidenceIsSound
<1>1. Init => EvidenceIsSound
  BY EffectiveType, EmptySeq DEF Init, EvidenceIsSound
<1>2. TypeOK /\ Unreported /\ EvidenceIsSound /\ [Next]_vars => EvidenceIsSound'
  <2> SUFFICES ASSUME TypeOK, Unreported, EvidenceIsSound, [Next]_vars PROVE EvidenceIsSound'
    OBVIOUS
  <2>1. TypeOK'
    BY TypeStep
  <2>2. CASE UNCHANGED <<vars, topN, reranking>>
    <3>1. Found' = Found /\ EffectiveTopN' = EffectiveTopN
          /\ reranking' = reranking /\ evidence' = evidence
      BY <2>2 DEF vars, Found, EffectiveTopN
    <3> QED
      BY <3>1 DEF EvidenceIsSound
  <2>3. CASE evidence' = <<>>
    <3>1. EffectiveTopN' \in Nat
      BY <2>1, BoundsAssumption DEF TypeOK, EffectiveTopN
    <3>2. Len(evidence') = 0 /\ DOMAIN evidence' = {}
      BY <2>3
    <3> QED
      BY <3>1, <3>2 DEF EvidenceIsSound
  <2>4. CASE Collect
    <3>1. Found' = Found /\ EffectiveTopN' = EffectiveTopN /\ reranking' = reranking
      BY <2>4 DEF Collect, Found, EffectiveTopN, request
    <3>2. CASE Answered = {}
      <4>1. evidence' = evidence
        BY <2>4, <3>2 DEF Collect
      <4> QED
        BY <3>1, <4>1 DEF EvidenceIsSound
    <3>3. CASE Answered # {}
      <4>1. evidence' = Compress(Rank(Merge(HitLists)), EffectiveTopN)
        BY <2>4, <3>3 DEF Collect
      <4> DEFINE result == evidence'
      <4>2. result \in Seq(RankedHits)
        BY <4>1, ResultIs
      <4>3. DOMAIN evidence' = 1 .. Len(evidence')
        BY <4>2, LenProperties
      <4> QED
        BY <3>1, <4>1, <4>3, ResultIs DEF EvidenceIsSound
    <3> QED
      BY <3>2, <3>3
  <2> QED
    BY <2>2, <2>3, <2>4, OtherSteps
<1> QED
  BY <1>1, <1>2, AlwaysUnreported, PTL DEF Spec

\* A chunk that any side of any search found and whose words overlap up to the
\* floor is in the evidence, or its passage is, or the evidence is full of chunks
\* as good, while the chunks found do not exceed the limit of the merge.
THEOREM NothingBetterIsEverLost == Spec => []NothingBetterIsLost
<1>1. Init => NothingBetterIsLost
  BY DEF Init, NothingBetterIsLost
<1>2. TypeOK /\ Unreported /\ NothingBetterIsLost /\ [Next]_vars => NothingBetterIsLost'
  <2> SUFFICES ASSUME TypeOK, Unreported, NothingBetterIsLost, [Next]_vars
               PROVE  NothingBetterIsLost'
    OBVIOUS
  <2>1. CASE UNCHANGED <<vars, topN, reranking>>
    <3>1. Found' = Found /\ EffectiveTopN' = EffectiveTopN
          /\ reranking' = reranking /\ evidence' = evidence /\ phase' = phase
      BY <2>1 DEF vars, Found, EffectiveTopN
    <3> QED
      BY <3>1 DEF NothingBetterIsLost
  <2>2. CASE phase' # "done"
    BY <2>2 DEF NothingBetterIsLost
  <2>3. CASE Collect /\ phase' = "done"
    <3>1. Found' = Found /\ EffectiveTopN' = EffectiveTopN /\ reranking' = reranking
      BY <2>3 DEF Collect, Found, EffectiveTopN, request
    <3>2. evidence' = Compress(Rank(Merge(HitLists)), EffectiveTopN)
      BY <2>3 DEF Collect
    <3>3. evidence' \in Seq(RankedHits)
      BY <3>2, ResultIs
    <3>4. DOMAIN evidence' = 1 .. Len(evidence')
      BY <3>3, LenProperties
    <3> QED
      BY <3>1, <3>2, <3>4, ResultIs DEF NothingBetterIsLost
  <2> QED
    BY <2>1, <2>2, <2>3, OtherSteps
<1> QED
  BY <1>1, <1>2, AlwaysUnreported, PTL DEF Spec

=============================================================================
