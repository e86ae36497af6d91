--------------------------- MODULE BookStructureProofs ----------------------------
(***************************************************************************)
(* What the structuring of a book keeps, proved for any pages, any limit   *)
(* of a passage and any overlap.  The loops of the code are recursive      *)
(* functions here, so each is first shown to be the function its equation  *)
(* says it is; what it computes then follows by Counting.                  *)
(***************************************************************************)
EXTENDS BookStructure, FiniteSetTheorems, SequenceTheorems, WellFoundedInduction, TLAPS

-----------------------------------------------------------------------------
(* Numbers and sequences.                                                  *)

LEMMA LeastNumber ==
  ASSUME NEW S \in SUBSET Nat, S # {}
  PROVE  \E m \in S : \A n \in S : m <= n
<1> DEFINE R == OpToRel(<, Nat)
<1>1. \A x, y \in Nat : <<x, y>> \in R <=> x < y
  BY DEF OpToRel
<1>2. IsWellFoundedOn(R, Nat)
  BY NatLessThanWellFounded
<1> HIDE DEF R
<1>3. PICK m \in S : \A n \in S : ~(<<n, m>> \in R)
  BY <1>2, WFMin
<1>4. \A n \in S : ~(n < m)
  BY <1>1, <1>3
<1> QED
  BY <1>4

\* Whatever holds at the start of a count and goes on at every step holds up to
\* its end.
LEMMA Counting ==
  ASSUME NEW n \in Nat, NEW S, 0 \in S, \A i \in 0 .. n - 1 : i \in S => i + 1 \in S
  PROVE  \A i \in 0 .. n : i \in S
<1> DEFINE missing == {i \in 0 .. n : i \notin S}
<1> SUFFICES ASSUME missing # {} PROVE FALSE
  OBVIOUS
<1>1. missing \in SUBSET Nat
  OBVIOUS
<1>2. PICK m \in missing : \A i \in missing : m <= i
  <2> HIDE DEF missing
  <2> QED BY <1>1, LeastNumber
<1>3. m # 0 /\ m \in 1 .. n /\ m - 1 \notin missing
  BY <1>2
<1>4. m - 1 \in S /\ m - 1 \in 0 .. n - 1
  BY <1>3
<1>5. (m - 1) + 1 \in S
  BY <1>4
<1> QED
  BY <1>3, <1>5

\* A function on the first n numbers is a sequence.
LEMMA FunctionIsSeq ==
  ASSUME NEW T, NEW n \in Nat, NEW f \in [1 .. n -> T]
  PROVE  f \in Seq(T) /\ Len(f) = n
  BY LenProperties

\* As much of a function on numbers as is read is a sequence.
LEMMA FirstOf ==
  ASSUME NEW T, NEW n \in Nat, NEW f, \A i \in 1 .. n : f[i] \in T
  PROVE  /\ SubSeq(f, 1, n) \in Seq(T)
         /\ Len(SubSeq(f, 1, n)) = n
         /\ \A i \in 1 .. n : SubSeq(f, 1, n)[i] = f[i]
<1>1. \A i \in 1 .. n : i \in Int /\ 1 + i - 1 = i
  OBVIOUS
<1> QED
  BY <1>1, SubSeqProperties

LEMMA SizeOfOne ==
  ASSUME NEW S, \A x, y \in S : x = y
  PROVE  IsFiniteSet(S) /\ Cardinality(S) \in {0, 1} /\ (Cardinality(S) = 0 <=> S = {})
<1>1. CASE S = {}
  BY <1>1, FS_EmptySet
<1>2. CASE S # {}
  <2>1. PICK x : S = {x}
    BY <1>2
  <2>2. IsFiniteSet(S) /\ Cardinality(S) = 1
    BY <2>1, FS_Singleton, Zenon
  <2> QED BY <1>2, <2>2
<1> QED
  BY <1>1, <1>2

-----------------------------------------------------------------------------
(* Putting a finite set in order: Sorted is a sequence of its elements, in  *)
(* which each has one place and the places are in order.                    *)

\* before[a] are the elements of S that come before a.
IsOrder(before, S) ==
  /\ before \in [S -> SUBSET S]
  /\ \A a \in S : a \notin before[a]
  /\ \A a, b \in S : a \in before[b] => before[a] \subseteq before[b]
  /\ \A a, b \in S : a = b \/ a \in before[b] \/ b \in before[a]

\* Sorted, by the elements that come before each.
SortedBy(S, before) ==
  SubSeq([p \in 1 .. Cardinality(S) |-> CHOOSE a \in S : 1 + Cardinality(before[a]) = p], 1, Cardinality(S))

InOrder(seq, S, before) ==
  /\ Cardinality(S) \in Nat /\ seq \in Seq(S) /\ Len(seq) = Cardinality(S)
  /\ \A a \in S : \E p \in 1 .. Len(seq) : seq[p] = a
  /\ \A p, q \in 1 .. Len(seq) : p < q <=> seq[p] \in before[seq[q]]

LEMMA SortedByIs ==
  ASSUME NEW S, IsFiniteSet(S), NEW before, IsOrder(before, S)
  PROVE  InOrder(SortedBy(S, before), S, before)
<1> DEFINE size == Cardinality(S)
           rank == [a \in S |-> 1 + Cardinality(before[a])]
           pick == [p \in 1 .. size |-> CHOOSE a \in S : 1 + Cardinality(before[a]) = p]
           seq == SubSeq(pick, 1, size)
<1>1. size \in Nat
  BY FS_CardinalityType
<1>2. ASSUME NEW a \in S
      PROVE  IsFiniteSet(before[a]) /\ Cardinality(before[a]) \in Nat /\ rank[a] \in 1 .. size
  <2>1. before[a] \in SUBSET S /\ a \notin before[a]
    BY DEF IsOrder
  <2>2. IsFiniteSet(before[a]) /\ Cardinality(before[a]) <= size /\ (Cardinality(before[a]) = size => before[a] = S)
    BY <2>1, FS_Subset
  <2>3. Cardinality(before[a]) \in Nat
    BY <2>2, FS_CardinalityType
  <2>4. Cardinality(before[a]) # size
    BY <2>1, <2>2
  <2> QED BY <1>1, <2>2, <2>3, <2>4
<1>3. ASSUME NEW a \in S, NEW b \in S, a \in before[b] PROVE rank[a] < rank[b]
  <2>1. before[a] \in SUBSET before[b] /\ before[a] # before[b]
    BY <1>3 DEF IsOrder
  <2>2. Cardinality(before[a]) <= Cardinality(before[b]) /\ Cardinality(before[a]) # Cardinality(before[b])
    BY <1>2, <2>1, FS_Subset
  <2> QED BY <1>2, <2>2
<1>4. ASSUME NEW a \in S, NEW b \in S PROVE (rank[a] < rank[b] <=> a \in before[b]) /\ (rank[a] = rank[b] => a = b)
  <2>1. a = b \/ a \in before[b] \/ b \in before[a]
    BY DEF IsOrder
  <2>2. rank[a] \in Nat /\ rank[b] \in Nat
    BY <1>1, <1>2
  <2>3. a = b => a \notin before[b]
    BY DEF IsOrder
  <2> HIDE DEF rank
  <2> QED BY <1>3, <2>1, <2>2, <2>3
<1>5. rank \in Injection(S, 1 .. size)
  BY <1>2, <1>4 DEF Injection, IsInjective
<1>6. rank \in Surjection(S, 1 .. size)
  <2>1. IsFiniteSet(1 .. size) /\ Cardinality(1 .. size) = size
    BY <1>1, FS_Interval
  <2> HIDE DEF rank
  <2> QED BY <1>5, <2>1, FS_Injection DEF size
<1>7. ASSUME NEW p \in 1 .. size PROVE pick[p] \in S /\ rank[pick[p]] = p
  <2>1. \E a \in S : rank[a] = p
    BY <1>6 DEF Surjection
  <2>2. \E a \in S : 1 + Cardinality(before[a]) = p
    BY <2>1
  <2>3. pick[p] = CHOOSE a \in S : 1 + Cardinality(before[a]) = p
    OBVIOUS
  <2>4. pick[p] \in S /\ 1 + Cardinality(before[pick[p]]) = p
    <3> HIDE DEF pick
    <3> QED BY <2>2, <2>3
  <2> QED BY <2>4
<1> HIDE DEF pick, rank, size
<1>8. seq \in Seq(S) /\ Len(seq) = size /\ \A p \in 1 .. size : seq[p] = pick[p]
  BY <1>1, <1>7, FirstOf
<1>9. ASSUME NEW a \in S PROVE \E p \in 1 .. size : seq[p] = a
  <2>1. rank[a] \in 1 .. size
    BY <1>2
  <2>2. pick[rank[a]] \in S /\ rank[pick[rank[a]]] = rank[a]
    BY <1>7, <2>1
  <2>3. pick[rank[a]] = a
    BY <1>4, <2>2
  <2> QED BY <1>8, <2>1, <2>3
<1>10. ASSUME NEW p \in 1 .. size, NEW q \in 1 .. size PROVE p < q <=> seq[p] \in before[seq[q]]
  BY <1>4, <1>7, <1>8
<1>11. SortedBy(S, before) = seq
  BY DEF SortedBy, seq, pick, size
<1> HIDE DEF seq
<1> QED
  BY <1>1, <1>8, <1>9, <1>10, <1>11 DEF InOrder, size

\* Elements at two places are two elements.
LEMMA InOrderDiffers ==
  ASSUME NEW S, NEW seq, NEW before, IsOrder(before, S), InOrder(seq, S, before)
  PROVE  \A p, q \in 1 .. Len(seq) : seq[p] = seq[q] => p = q
<1> SUFFICES ASSUME NEW p \in 1 .. Len(seq), NEW q \in 1 .. Len(seq), seq[p] = seq[q] PROVE p = q
  OBVIOUS
<1>1. seq[p] \in S
  BY ElementOfSeq DEF InOrder
<1>2. ~(p < q) /\ ~(q < p)
  BY <1>1 DEF InOrder, IsOrder
<1> QED
  BY <1>2 DEF InOrder

-----------------------------------------------------------------------------
(* Pages and their blocks.                                                 *)

LEMMA PageBlocks ==
  ASSUME NEW page \in Leaves \union Plates
  PROVE  /\ IsFiniteSet(Blocks(page))
         /\ \A b \in Blocks(page) :
              /\ b.x0 \in Int /\ b.y0 \in Int /\ b.x1 \in Int /\ b.y1 \in Int
              /\ b.x0 <= b.x1 /\ b.y0 <= b.y1
              /\ b.letters \in Nat /\ b.size \in Nat /\ b.index \in Nat
              /\ b.word \in LabelLevels \union {"none"}
              /\ b.sentences \in Seq(Nat) /\ b.ends \in BOOLEAN
              /\ b.numbers \in Seq([system : Range(Systems), value : Nat, letters : Seq(Nat)])
         /\ \A a, b \in Blocks(page) : a.index = b.index => a = b
<1> DEFINE seq == page.blocks
<1>1. seq \in Seq(Blocks(page))
  BY PagesAssumption
<1>2. DOMAIN seq = 1 .. Len(seq) /\ Len(seq) \in Nat
  BY <1>1, LenProperties
<1>3. ASSUME NEW i \in DOMAIN seq
      PROVE  /\ seq[i].index = i
             /\ {seq[i].x0, seq[i].y0, seq[i].x1, seq[i].y1} \subseteq Int
             /\ seq[i].x0 <= seq[i].x1 /\ seq[i].y0 <= seq[i].y1
             /\ seq[i].letters \in Nat /\ seq[i].size \in Nat
             /\ seq[i].word \in LabelLevels \union {"none"}
             /\ seq[i].sentences \in Seq(Nat) /\ seq[i].ends \in BOOLEAN
             /\ seq[i].numbers \in Seq([system : Range(Systems), value : Nat, letters : Seq(Nat)])
  BY PagesAssumption, Zenon
<1>4. Blocks(page) = {seq[i] : i \in 1 .. Len(seq)}
  BY <1>2 DEF Blocks
<1> HIDE DEF seq
<1>5. IsFiniteSet(Blocks(page))
  <2>1. IsFiniteSet(1 .. Len(seq))
    BY <1>2, FS_Interval
  <2>2. [i \in 1 .. Len(seq) |-> seq[i]] \in Surjection(1 .. Len(seq), Blocks(page))
    BY <1>4 DEF Surjection
  <2> QED BY <2>1, <2>2, FS_Surjection
<1>6. \A b \in Blocks(page) : \E i \in 1 .. Len(seq) : b = seq[i]
  BY <1>4
<1>7. ASSUME NEW b \in Blocks(page)
      PROVE  /\ b.x0 \in Int /\ b.y0 \in Int /\ b.x1 \in Int /\ b.y1 \in Int
             /\ b.x0 <= b.x1 /\ b.y0 <= b.y1
             /\ b.letters \in Nat /\ b.size \in Nat /\ b.index \in Nat
             /\ b.word \in LabelLevels \union {"none"}
             /\ b.sentences \in Seq(Nat) /\ b.ends \in BOOLEAN
             /\ b.numbers \in Seq([system : Range(Systems), value : Nat, letters : Seq(Nat)])
             /\ b = seq[b.index]
  <2>1. PICK i \in 1 .. Len(seq) : b = seq[i]
    BY <1>6
  <2>2. i \in Nat /\ i \in DOMAIN seq
    BY <1>2
  <2> QED BY <1>3, <2>1, <2>2
<1>8. ASSUME NEW a \in Blocks(page), NEW b \in Blocks(page), a.index = b.index PROVE a = b
  BY <1>7, <1>8
<1> QED
  BY <1>5, <1>7, <1>8

\* The blocks of S that are above each of them.
AboveIn(S) == [a \in S |-> {b \in S : Above(b, a)}]

\* Blocks from the top are in an order without ties.
LEMMA FromTheTop ==
  ASSUME NEW page \in Leaves \union Plates, NEW S \in SUBSET Blocks(page)
  PROVE  /\ IsFiniteSet(S) /\ IsOrder(AboveIn(S), S)
         /\ InOrder(Sorted(S, Above), S, AboveIn(S))
<1>1. IsFiniteSet(S)
  BY PageBlocks, FS_Subset
<1>2. \A b \in S : b.x0 \in Int /\ b.y0 \in Int /\ b.index \in Nat
  BY PageBlocks
<1>3. \A a, b \in S : a.index = b.index => a = b
  BY PageBlocks
<1>4. IsOrder(AboveIn(S), S)
  <2>1. AboveIn(S) \in [S -> SUBSET S] /\ \A a, b \in S : b \in AboveIn(S)[a] <=> Above(b, a)
    BY DEF AboveIn
  <2>2. \A a \in S : ~Above(a, a)
    BY <1>2 DEF Above
  <2>3. \A a, b \in S : a = b \/ Above(a, b) \/ Above(b, a)
    BY <1>2, <1>3 DEF Above
  <2>4. ASSUME NEW a \in S, NEW b \in S, NEW c \in S, Above(c, a), Above(a, b) PROVE Above(c, b)
    BY <1>2, <2>4 DEF Above
  <2>5. ASSUME NEW a \in S, NEW b \in S, a \in AboveIn(S)[b] PROVE AboveIn(S)[a] \subseteq AboveIn(S)[b]
    <3> SUFFICES ASSUME NEW c \in AboveIn(S)[a] PROVE c \in AboveIn(S)[b]
      OBVIOUS
    <3>1. c \in S
      BY <2>1
    <3> QED BY <2>1, <2>4, <2>5, <3>1
  <2> QED BY <2>1, <2>2, <2>3, <2>5 DEF IsOrder
<1>5. Sorted(S, Above) = SortedBy(S, AboveIn(S))
  BY DEF Sorted, SortedBy, AboveIn
<1> QED
  BY <1>1, <1>4, <1>5, SortedByIs

-----------------------------------------------------------------------------
(* Numbers in order, the least and the greatest.                           *)

LessIn(S) == [i \in S |-> {j \in S : Less(j, i)}]

LEMMA NumbersInOrder ==
  ASSUME NEW S \in SUBSET Int, IsFiniteSet(S)
  PROVE  /\ Cardinality(S) \in Nat /\ Sorted(S, Less) \in Seq(S) /\ Len(Sorted(S, Less)) = Cardinality(S)
         /\ \A a \in S : \E p \in 1 .. Cardinality(S) : Sorted(S, Less)[p] = a
         /\ \A p, q \in 1 .. Cardinality(S) : p < q <=> Sorted(S, Less)[p] < Sorted(S, Less)[q]
<1>1. LessIn(S) \in [S -> SUBSET S] /\ \A a, b \in S : a \in LessIn(S)[b] <=> a < b
  BY DEF LessIn, Less
<1>2. IsOrder(LessIn(S), S)
  <2>1. \A a \in S : a \notin LessIn(S)[a]
    BY <1>1
  <2>2. ASSUME NEW a \in S, NEW b \in S, a \in LessIn(S)[b], NEW c \in LessIn(S)[a] PROVE c \in LessIn(S)[b]
    <3>1. c \in S
      BY <1>1
    <3>2. c < a /\ a < b
      BY <1>1, <2>2, <3>1
    <3>3. c < b
      BY <3>1, <3>2
    <3> QED BY <1>1, <3>1, <3>3
  <2>3. \A a, b \in S : a = b \/ a \in LessIn(S)[b] \/ b \in LessIn(S)[a]
    BY <1>1
  <2> QED BY <1>1, <2>1, <2>2, <2>3 DEF IsOrder
<1>3. Sorted(S, Less) = SortedBy(S, LessIn(S))
  BY DEF Sorted, SortedBy, LessIn
<1>4. InOrder(Sorted(S, Less), S, LessIn(S))
  BY <1>2, <1>3, SortedByIs
<1>5. ASSUME NEW p \in 1 .. Cardinality(S), NEW q \in 1 .. Cardinality(S)
      PROVE  p < q <=> Sorted(S, Less)[p] < Sorted(S, Less)[q]
  <2>1. Sorted(S, Less)[p] \in S /\ Sorted(S, Less)[q] \in S
    BY <1>4, ElementOfSeq DEF InOrder
  <2>2. p < q <=> Sorted(S, Less)[p] \in LessIn(S)[Sorted(S, Less)[q]]
    BY <1>4 DEF InOrder
  <2> QED BY <1>1, <2>1, <2>2
<1> QED
  BY <1>4, <1>5 DEF InOrder

LEMMA MinMaxAre ==
  ASSUME NEW S \in SUBSET Int, IsFiniteSet(S), S # {}
  PROVE  /\ Min(S) \in S /\ \A n \in S : Min(S) <= n
         /\ Max(S) \in S /\ \A n \in S : n <= Max(S)
<1> DEFINE n == Cardinality(S)
           seq == Sorted(S, Less)
<1>1. n \in Nat /\ n # 0
  BY FS_CardinalityType, FS_EmptySet
<1>2. /\ seq \in Seq(S) /\ Len(seq) = n
      /\ \A a \in S : \E p \in 1 .. n : seq[p] = a
      /\ \A p, q \in 1 .. n : p < q <=> seq[p] < seq[q]
  BY NumbersInOrder
<1> HIDE DEF n, seq
<1>3. 1 \in 1 .. n /\ n \in 1 .. n /\ \A p \in 1 .. n : seq[p] \in S
  BY <1>1, <1>2, ElementOfSeq
<1>4. ASSUME NEW a \in S PROVE seq[1] <= a /\ a <= seq[n]
  <2>1. PICK p \in 1 .. n : seq[p] = a
    BY <1>2
  <2>2. seq[p] \in Int /\ seq[1] \in Int /\ seq[n] \in Int
    BY <1>3
  <2>3. ~(seq[p] < seq[1]) /\ ~(seq[n] < seq[p])
    BY <1>2, <1>3
  <2> QED BY <2>1, <2>2, <2>3
<1>5. \E m \in S : \A a \in S : m <= a
  BY <1>3, <1>4
<1>6. \E m \in S : \A a \in S : m >= a
  BY <1>3, <1>4
<1>7. Min(S) \in S /\ \A a \in S : Min(S) <= a
  BY <1>5 DEF Min
<1>8. Max(S) \in S /\ \A a \in S : Max(S) >= a
  BY <1>6 DEF Max
<1> QED
  BY <1>7, <1>8

-----------------------------------------------------------------------------
(* The reading order: every block has a place, and none shares it.          *)

LEMMA ImageFinite ==
  ASSUME NEW S, IsFiniteSet(S), NEW f, NEW T, T = {f[x] : x \in S}
  PROVE  IsFiniteSet(T)
<1>1. [x \in S |-> f[x]] \in Surjection(S, T)
  BY DEF Surjection
<1> QED
  BY <1>1, FS_Surjection

\* The edges of a column are those of blocks of it.
LEMMA ColumnEdges ==
  ASSUME NEW page \in Leaves \union Plates, NEW c \in SUBSET Blocks(page), c # {}
  PROVE  /\ Left(c) \in Int /\ Right(c) \in Int
         /\ \E x \in c : x.x0 = Left(c)
         /\ \E x \in c : x.x1 = Right(c)
         /\ \A x \in c : Left(c) <= x.x0 /\ x.x1 <= Right(c)
<1> DEFINE lefts == {x.x0 : x \in c}
           rights == {x.x1 : x \in c}
<1>1. IsFiniteSet(c) /\ \A b \in c : b.x0 \in Int /\ b.x1 \in Int
  BY PageBlocks, FS_Subset
<1>2. lefts # {} /\ rights # {} /\ lefts \in SUBSET Int /\ rights \in SUBSET Int
  BY <1>1
<1> DEFINE left == [x \in c |-> x.x0]
           right == [x \in c |-> x.x1]
<1>3. lefts = {left[x] : x \in c} /\ rights = {right[x] : x \in c}
  OBVIOUS
<1>4. IsFiniteSet(lefts) /\ IsFiniteSet(rights)
  <2> HIDE DEF left, right, lefts, rights
  <2> QED BY <1>1, <1>3, ImageFinite
<1>5. Left(c) = Min(lefts) /\ Right(c) = Max(rights)
  BY DEF Left, Right
<1>6. /\ Min(lefts) \in lefts /\ \A n \in lefts : Min(lefts) <= n
      /\ Max(rights) \in rights /\ \A n \in rights : n <= Max(rights)
  <2> HIDE DEF lefts, rights
  <2> QED BY <1>2, <1>4, MinMaxAre
<1> QED
  BY <1>2, <1>5, <1>6

\* The columns of a page share no block, and no two of them have both edges in
\* common.
LEMMA ColumnsAre ==
  ASSUME NEW page \in Leaves \union Plates, NEW S \in SUBSET Blocks(page)
  PROVE  /\ IsFiniteSet(Columns(S)) /\ Columns(S) \subseteq SUBSET S
         /\ \A b \in S : \E c \in Columns(S) : b \in c
         /\ \A c \in Columns(S) : Left(c) \in Int /\ Right(c) \in Int
         /\ \A c, d \in Columns(S) : Left(c) = Left(d) /\ Right(c) = Right(d) => c = d
<1> DEFINE gapAfter == {l \in S : \A b \in S : Center(b) > Center(l) => Center(b) - Center(l) > 2 * ColumnGap}
           column(b) == {c \in S : \A l \in gapAfter : (Center(b) <= Center(l)) <=> (Center(c) <= Center(l))}
<1>1. IsFiniteSet(S)
  BY PageBlocks, FS_Subset
<1>2. Columns(S) = {column(b) : b \in S}
  BY DEF Columns
<1>3. \A b \in S : b.x0 \in Int /\ b.x1 \in Int /\ Center(b) \in Int /\ Center(b) = b.x0 + b.x1
  BY PageBlocks DEF Center
<1>4. \A b \in S : b \in column(b) /\ column(b) \in SUBSET S
  OBVIOUS
<1>5. gapAfter \in SUBSET S
  OBVIOUS
<1>6. \A a, b, c \in S : c \in column(b) <=> \A l \in gapAfter : (Center(b) <= Center(l)) <=> (Center(c) <= Center(l))
  OBVIOUS
<1>7. IsFiniteSet(Columns(S))
  <2> DEFINE of == [b \in S |-> column(b)]
  <2>1. Columns(S) = {of[b] : b \in S}
    BY <1>2
  <2> HIDE DEF of
  <2> QED BY <1>1, <2>1, ImageFinite
<1>8. ASSUME NEW b \in S
      PROVE  LET c == column(b) IN
             /\ Left(c) \in Int /\ Right(c) \in Int
             /\ \E x \in c : x.x0 = Left(c)
             /\ \E x \in c : x.x1 = Right(c)
             /\ \A x \in c : Left(c) <= x.x0 /\ x.x1 <= Right(c)
  <2> DEFINE c == column(b)
  <2>1. c \in SUBSET Blocks(page) /\ c # {}
    BY <1>4
  <2> HIDE DEF c
  <2> QED BY <2>1, ColumnEdges DEF c
<1> HIDE DEF gapAfter
<1>9. ASSUME NEW a \in S, NEW b \in S, NEW l \in gapAfter, Center(a) <= Center(l), ~(Center(b) <= Center(l))
      PROVE  Left(column(a)) # Left(column(b)) \/ Right(column(a)) # Right(column(b))
  <2>1. PICK x \in column(a) : x.x1 = Right(column(a))
    BY <1>8
  <2>2. PICK y \in column(b) : y.x0 = Left(column(b))
    BY <1>8
  <2>3. x \in S /\ y \in S /\ l \in S
    BY <1>4, <1>5
  <2>4. Center(x) <= Center(l) /\ ~(Center(y) <= Center(l))
    BY <1>6, <1>9, <2>3
  <2>5. x.x0 + x.x1 < y.x0 + y.x1
    BY <1>3, <2>3, <2>4
  <2>6. Left(column(a)) <= x.x0 /\ y.x1 <= Right(column(b))
    BY <1>8
  <2>7. Left(column(a)) \in Int /\ Right(column(a)) \in Int /\ Left(column(b)) \in Int /\ Right(column(b)) \in Int
    BY <1>8
  <2> HIDE DEF column
  <2> QED BY <1>3, <2>1, <2>2, <2>3, <2>5, <2>6, <2>7
<1>10. ASSUME NEW a \in S, NEW b \in S, Left(column(a)) = Left(column(b)), Right(column(a)) = Right(column(b))
       PROVE  column(a) = column(b)
  <2>1. \A l \in gapAfter : (Center(a) <= Center(l)) <=> (Center(b) <= Center(l))
    <3> HIDE DEF column
    <3> QED BY <1>9, <1>10
  <2> QED BY <2>1
<1>11. \A c \in Columns(S) : \E b \in S : c = column(b)
  BY <1>2
<1>12. \A b \in S : column(b) \in Columns(S)
  BY <1>2
<1> HIDE DEF column
<1> QED
  BY <1>4, <1>7, <1>8, <1>10, <1>11, <1>12

-----------------------------------------------------------------------------
(* Sequences put together.                                                 *)

Flattens(f, n, seqs) == f = [i \in 1 .. n |-> IF i = 1 THEN seqs[i] ELSE f[i - 1] \o seqs[i]]

LEMMA FlattenLoop ==
  ASSUME NEW seqs, NEW n \in Nat, n # 0, Len(seqs) = n
  PROVE  \E f : Flattens(f, n, seqs) /\ FlattenSeq(seqs) = f[n]
<1> DEFINE good == {m \in Nat : \E f : Flattens(f, m, seqs)}
<1>1. 0 \in good
  <2>1. Flattens([i \in 1 .. 0 |-> <<>>], 0, seqs)
    BY DEF Flattens
  <2> QED BY <2>1
<1>2. ASSUME NEW m \in 0 .. n - 1, m \in good PROVE m + 1 \in good
  <2>1. PICK g : Flattens(g, m, seqs)
    BY <1>2
  <2> DEFINE f == [i \in 1 .. m + 1 |-> IF i = 1 THEN seqs[i] ELSE g[i - 1] \o seqs[i]]
  <2>2. ASSUME NEW i \in 1 .. m PROVE f[i] = g[i]
    <3>1. g[i] = IF i = 1 THEN seqs[i] ELSE g[i - 1] \o seqs[i]
      BY <2>1 DEF Flattens
    <3> QED BY <3>1
  <2>3. \A i \in 1 .. m + 1 : i # 1 => i - 1 \in 1 .. m
    OBVIOUS
  <2>4. f = [i \in 1 .. m + 1 |-> IF i = 1 THEN seqs[i] ELSE f[i - 1] \o seqs[i]]
    BY <2>2, <2>3
  <2>5. Flattens(f, m + 1, seqs)
    <3> HIDE DEF f
    <3> QED BY <2>4 DEF Flattens
  <2> QED BY <2>5
<1>3. n \in good
  <2> HIDE DEF good
  <2>1. \A m \in 0 .. n : m \in good
    BY <1>1, <1>2, Counting
  <2> QED BY <2>1
<1> DEFINE f == CHOOSE f : f = [i \in 1 .. n |-> IF i = 1 THEN seqs[i] ELSE f[i - 1] \o seqs[i]]
<1>4. f = [i \in 1 .. n |-> IF i = 1 THEN seqs[i] ELSE f[i - 1] \o seqs[i]]
  BY <1>3 DEF Flattens
<1>5. FlattenSeq(seqs) = f[n]
  BY DEF FlattenSeq
<1> HIDE DEF f
<1> QED
  BY <1>4, <1>5 DEF Flattens

\* What a part of the sequences gives, put together.
LEMMA FlattenIs ==
  ASSUME NEW T, NEW seqs \in Seq(Seq(T))
  PROVE  \E f : /\ f \in [0 .. Len(seqs) -> Seq(T)]
                /\ f[0] = <<>>
                /\ \A i \in 1 .. Len(seqs) : f[i] = f[i - 1] \o seqs[i]
                /\ FlattenSeq(seqs) = f[Len(seqs)]
<1> DEFINE n == Len(seqs)
<1>1. n \in Nat /\ \A i \in 1 .. n : seqs[i] \in Seq(T)
  BY LenProperties, ElementOfSeq
<1>2. CASE n = 0
  <2>1. seqs = <<>>
    BY <1>2, EmptySeq
  <2>2. FlattenSeq(seqs) = <<>>
    BY <1>2, <2>1 DEF FlattenSeq
  <2> DEFINE f == [i \in 0 .. n |-> <<>>]
  <2>3. f \in [0 .. n -> Seq(T)] /\ f[0] = <<>> /\ f[n] = <<>>
    BY <1>2, EmptySeq
  <2>4. \A i \in 1 .. n : f[i] = f[i - 1] \o seqs[i]
    BY <1>2
  <2> HIDE DEF f
  <2> QED BY <2>2, <2>3, <2>4
<1>3. CASE n # 0
  <2>1. PICK g : Flattens(g, n, seqs) /\ FlattenSeq(seqs) = g[n]
    BY <1>1, <1>3, FlattenLoop
  <2>2. \A i \in 1 .. n : g[i] = IF i = 1 THEN seqs[i] ELSE g[i - 1] \o seqs[i]
    BY <2>1 DEF Flattens
  <2> DEFINE f == [i \in 0 .. n |-> IF i = 0 THEN <<>> ELSE g[i]]
             good == {i \in 0 .. n : f[i] \in Seq(T)}
  <2>3. 0 \in good
    BY <1>1, EmptySeq
  <2>4. ASSUME NEW i \in 0 .. n - 1, i \in good
        PROVE  f[i + 1] = f[i] \o seqs[i + 1] /\ i + 1 \in good
    <3>1. i + 1 \in 1 .. n /\ f[i + 1] = g[i + 1] /\ (i + 1) - 1 = i /\ (i + 1 = 1 <=> i = 0)
      BY <1>1
    <3>2. seqs[i + 1] \in Seq(T) /\ f[i] \in Seq(T)
      BY <1>1, <2>4, <3>1
    <3>3. f[i + 1] = f[i] \o seqs[i + 1]
      <4>1. CASE i = 0
        <5>1. f[i] = <<>> /\ f[i + 1] = seqs[i + 1]
          BY <1>1, <2>2, <3>1, <4>1
        <5>2. <<>> \o seqs[i + 1] = seqs[i + 1]
          BY <3>2, ConcatEmptySeq
        <5> HIDE DEF f
        <5> QED BY <5>1, <5>2
      <4>2. CASE i # 0
        <5>1. f[i] = g[i]
          BY <4>2
        <5>2. g[i + 1] = g[(i + 1) - 1] \o seqs[i + 1]
          BY <2>2, <3>1, <4>2
        <5> HIDE DEF f
        <5> QED BY <3>1, <5>1, <5>2
      <4> QED BY <4>1, <4>2
    <3>4. f[i] \o seqs[i + 1] \in Seq(T)
      <4> HIDE DEF f
      <4> QED BY <3>2, ConcatProperties
    <3>5. f[i + 1] \in Seq(T) /\ i + 1 \in 0 .. n
      <4> HIDE DEF f
      <4> QED BY <1>1, <3>1, <3>3, <3>4
    <3>6. i + 1 \in good
      BY <3>5
    <3> HIDE DEF f, good
    <3> QED BY <3>3, <3>6
  <2>5. \A i \in 0 .. n : i \in good
    <3> HIDE DEF good
    <3> QED BY <1>1, <2>3, <2>4, Counting
  <2>6. f \in [0 .. n -> Seq(T)] /\ f[0] = <<>> /\ f[n] = g[n]
    BY <1>1, <1>3, <2>5
  <2>7. ASSUME NEW i \in 1 .. n PROVE f[i] = f[i - 1] \o seqs[i]
    <3>1. i - 1 \in 0 .. n - 1 /\ (i - 1) + 1 = i
      BY <1>1
    <3>2. i - 1 \in good
      BY <2>5, <3>1
    <3> HIDE DEF f, good
    <3> QED BY <2>4, <3>1, <3>2
  <2> HIDE DEF f
  <2> QED BY <2>1, <2>6, <2>7
<1> QED
  BY <1>2, <1>3

\* Whatever is in one of the sequences is in the whole, and nothing else is.
LEMMA FlattenHas ==
  ASSUME NEW T, NEW seqs \in Seq(Seq(T))
  PROVE  /\ FlattenSeq(seqs) \in Seq(T)
         /\ \A k \in 1 .. Len(seqs) : \A j \in 1 .. Len(seqs[k]) :
              \E p \in 1 .. Len(FlattenSeq(seqs)) : FlattenSeq(seqs)[p] = seqs[k][j]
         /\ \A p \in 1 .. Len(FlattenSeq(seqs)) : \E k \in 1 .. Len(seqs) : \E j \in 1 .. Len(seqs[k]) :
              FlattenSeq(seqs)[p] = seqs[k][j]
<1> DEFINE n == Len(seqs)
<1>1. PICK f : /\ f \in [0 .. n -> Seq(T)] /\ f[0] = <<>>
               /\ \A i \in 1 .. n : f[i] = f[i - 1] \o seqs[i]
               /\ FlattenSeq(seqs) = f[n]
  BY FlattenIs
<1>2. n \in Nat /\ \A i \in 1 .. n : seqs[i] \in Seq(T)
  BY LenProperties, ElementOfSeq
<1> DEFINE has(i) ==
      /\ \A k \in 1 .. i : \A j \in 1 .. Len(seqs[k]) : \E p \in 1 .. Len(f[i]) : f[i][p] = seqs[k][j]
      /\ \A p \in 1 .. Len(f[i]) : \E k \in 1 .. i : \E j \in 1 .. Len(seqs[k]) : f[i][p] = seqs[k][j]
           good == {i \in 0 .. n : has(i)}
<1>3. 0 \in good
  BY <1>1, <1>2
<1>4. ASSUME NEW i \in 0 .. n - 1, i \in good PROVE i + 1 \in good
  <2>1. i + 1 \in 1 .. n /\ (i + 1) - 1 = i /\ i \in 0 .. n /\ i \in Nat
    BY <1>2
  <2> DEFINE a == f[i]
             b == seqs[i + 1]
  <2>2. f[i + 1] = a \o b
    BY <1>1, <2>1
  <2>3. a \in Seq(T) /\ b \in Seq(T) /\ Len(a) \in Nat /\ Len(b) \in Nat
    BY <1>1, <1>2, <2>1, LenProperties
  <2>4. has(i)
    BY <1>4
  <2> HIDE DEF a, b
  <2>5. /\ Len(a \o b) = Len(a) + Len(b)
        /\ \A p \in 1 .. Len(a) : (a \o b)[p] = a[p]
        /\ \A j \in 1 .. Len(b) : Len(a) + j \in 1 .. Len(a \o b) /\ (a \o b)[Len(a) + j] = b[j]
        /\ \A p \in 1 .. Len(a \o b) : p \notin 1 .. Len(a) => p - Len(a) \in 1 .. Len(b) /\ (a \o b)[p] = b[p - Len(a)]
    BY <2>3, ConcatProperties
  <2>6. ASSUME NEW k \in 1 .. i + 1, NEW j \in 1 .. Len(seqs[k])
        PROVE  \E p \in 1 .. Len(a \o b) : (a \o b)[p] = seqs[k][j]
    <3>1. CASE k = i + 1
      <4>1. j \in 1 .. Len(b) /\ b[j] = seqs[k][j]
        BY <3>1 DEF b
      <4> QED BY <2>5, <4>1
    <3>2. CASE k # i + 1
      <4>1. k \in 1 .. i
        BY <2>1, <3>2
      <4>2. PICK p \in 1 .. Len(a) : a[p] = seqs[k][j]
        BY <2>4, <4>1 DEF a
      <4>3. p \in 1 .. Len(a \o b)
        BY <2>3, <2>5
      <4> QED BY <2>5, <4>2, <4>3
    <3> QED BY <3>1, <3>2
  <2>7. ASSUME NEW p \in 1 .. Len(a \o b)
        PROVE  \E k \in 1 .. i + 1 : \E j \in 1 .. Len(seqs[k]) : (a \o b)[p] = seqs[k][j]
    <3>1. CASE p \in 1 .. Len(a)
      <4>1. PICK k \in 1 .. i : \E j \in 1 .. Len(seqs[k]) : a[p] = seqs[k][j]
        BY <2>4, <3>1 DEF a
      <4>2. k \in 1 .. i + 1
        BY <2>1
      <4> QED BY <2>5, <3>1, <4>1, <4>2
    <3>2. CASE p \notin 1 .. Len(a)
      <4>1. p - Len(a) \in 1 .. Len(b) /\ (a \o b)[p] = b[p - Len(a)]
        BY <2>5, <3>2
      <4>2. i + 1 \in 1 .. i + 1
        BY <2>1
      <4> QED BY <4>1, <4>2 DEF b
    <3> QED BY <3>1, <3>2
  <2>8. \A k \in 1 .. i + 1 : \A j \in 1 .. Len(seqs[k]) : \E p \in 1 .. Len(f[i + 1]) : f[i + 1][p] = seqs[k][j]
    <3> SUFFICES ASSUME NEW k \in 1 .. i + 1, NEW j \in 1 .. Len(seqs[k])
                 PROVE  \E p \in 1 .. Len(f[i + 1]) : f[i + 1][p] = seqs[k][j]
      OBVIOUS
    <3>1. \E p \in 1 .. Len(a \o b) : (a \o b)[p] = seqs[k][j]
      BY <2>6
    <3> QED BY <2>2, <3>1
  <2>9. \A p \in 1 .. Len(f[i + 1]) : \E k \in 1 .. i + 1 : \E j \in 1 .. Len(seqs[k]) : f[i + 1][p] = seqs[k][j]
    <3> SUFFICES ASSUME NEW p \in 1 .. Len(f[i + 1])
                 PROVE  \E k \in 1 .. i + 1 : \E j \in 1 .. Len(seqs[k]) : f[i + 1][p] = seqs[k][j]
      OBVIOUS
    <3>1. p \in 1 .. Len(a \o b)
      BY <2>2
    <3>2. \E k \in 1 .. i + 1 : \E j \in 1 .. Len(seqs[k]) : (a \o b)[p] = seqs[k][j]
      BY <2>7, <3>1
    <3> QED BY <2>2, <3>2
  <2>10. has(i + 1)
    BY <2>8, <2>9
  <2> HIDE DEF has
  <2> QED BY <1>2, <2>1, <2>10
<1>5. \A i \in 0 .. n : i \in good
  <2> HIDE DEF good
  <2> QED BY <1>2, <1>3, <1>4, Counting
<1>6. n \in good /\ f[n] \in Seq(T)
  <2>1. n \in 0 .. n
    BY <1>2
  <2> HIDE DEF good
  <2> QED BY <1>1, <1>5, <2>1
<1>7. has(n)
  BY <1>6
<1> HIDE DEF good
<1> QED
  BY <1>1, <1>6, <1>7

LEMMA ConcatHas ==
  ASSUME NEW T, NEW s \in Seq(T), NEW t \in Seq(T)
  PROVE  /\ s \o t \in Seq(T) /\ Len(s) \in Nat /\ Len(t) \in Nat /\ Len(s \o t) = Len(s) + Len(t)
         /\ \A p \in 1 .. Len(s) : p \in 1 .. Len(s \o t) /\ (s \o t)[p] = s[p]
         /\ \A p \in 1 .. Len(t) : Len(s) + p \in 1 .. Len(s \o t) /\ (s \o t)[Len(s) + p] = t[p]
         /\ \A p \in 1 .. Len(s \o t) :
              \/ p \in 1 .. Len(s)
              \/ p - Len(s) \in 1 .. Len(t) /\ p = Len(s) + (p - Len(s)) /\ (s \o t)[p] = t[p - Len(s)]
<1>1. Len(s) \in Nat /\ Len(t) \in Nat
  BY LenProperties
<1>2. s \o t \in Seq(T) /\ Len(s \o t) = Len(s) + Len(t)
  BY ConcatProperties
<1>3. \A i \in 1 .. Len(s) + Len(t) : (s \o t)[i] = IF i <= Len(s) THEN s[i] ELSE t[i - Len(s)]
  BY ConcatProperties
<1>4. ASSUME NEW p \in 1 .. Len(s) PROVE p \in 1 .. Len(s \o t) /\ (s \o t)[p] = s[p]
  <2>1. p \in 1 .. Len(s) + Len(t) /\ p <= Len(s)
    BY <1>1
  <2> QED BY <1>2, <1>3, <2>1
<1>5. ASSUME NEW p \in 1 .. Len(t)
      PROVE  Len(s) + p \in 1 .. Len(s \o t) /\ (s \o t)[Len(s) + p] = t[p]
  <2>1. Len(s) + p \in 1 .. Len(s) + Len(t) /\ ~(Len(s) + p <= Len(s)) /\ (Len(s) + p) - Len(s) = p
    BY <1>1
  <2> QED BY <1>2, <1>3, <2>1
<1>6. ASSUME NEW p \in 1 .. Len(s \o t), p \notin 1 .. Len(s)
      PROVE  p - Len(s) \in 1 .. Len(t) /\ p = Len(s) + (p - Len(s)) /\ (s \o t)[p] = t[p - Len(s)]
  <2>1. p \in 1 .. Len(s) + Len(t)
    BY <1>2
  <2>2. p - Len(s) \in 1 .. Len(t) /\ p = Len(s) + (p - Len(s)) /\ ~(p <= Len(s))
    BY <1>1, <1>6, <2>1
  <2> QED BY <1>3, <2>1, <2>2
<1> QED
  BY <1>1, <1>2, <1>4, <1>5, <1>6

\* How many there are up to each of the sequences.
Counted(W, seqs) ==
  /\ W \in [0 .. Len(seqs) -> Nat] /\ W[0] = 0
  /\ \A k \in 1 .. Len(seqs) : W[k] = W[k - 1] + Len(seqs[k])

LEMMA CountedIs ==
  ASSUME NEW T, NEW seqs \in Seq(Seq(T)), NEW W, Counted(W, seqs)
  PROVE  /\ Len(seqs) \in Nat
         /\ \A m \in 0 .. Len(seqs) : \A j \in 0 .. m : W[j] <= W[m]
         /\ \A m \in 0 .. Len(seqs) : \A p \in 1 .. W[m] : \E k \in 1 .. m : W[k - 1] < p /\ p <= W[k]
<1> DEFINE n == Len(seqs)
           ok(m) == /\ \A j \in 0 .. m : W[j] <= W[m]
                    /\ \A p \in 1 .. W[m] : \E k \in 1 .. m : W[k - 1] < p /\ p <= W[k]
           good == {m \in 0 .. n : ok(m)}
<1>1. n \in Nat /\ \A k \in 1 .. n : Len(seqs[k]) \in Nat
  BY LenProperties, ElementOfSeq
<1>2. W \in [0 .. n -> Nat] /\ W[0] = 0 /\ \A k \in 1 .. n : W[k] = W[k - 1] + Len(seqs[k])
  BY DEF Counted
<1> HIDE DEF n
<1>3. 0 \in good
  <2>1. \A j \in 0 .. 0 : W[j] <= W[0]
    BY <1>2
  <2>2. \A p \in 1 .. W[0] : FALSE
    BY <1>2
  <2>3. 0 \in 0 .. n
    BY <1>1
  <2> QED BY <2>1, <2>2, <2>3
<1>4. ASSUME NEW m \in 0 .. n - 1, m \in good PROVE m + 1 \in good
  <2>1. m + 1 \in 0 .. n /\ m + 1 \in 1 .. n /\ (m + 1) - 1 = m /\ m \in 0 .. n
    BY <1>1
  <2>2. W[m + 1] = W[m] + Len(seqs[m + 1]) /\ W[m] \in Nat /\ W[m + 1] \in Nat /\ W[m] <= W[m + 1]
    BY <1>1, <1>2, <2>1
  <2>3. /\ \A j \in 0 .. m : W[j] <= W[m]
        /\ \A p \in 1 .. W[m] : \E k \in 1 .. m : W[k - 1] < p /\ p <= W[k]
    BY <1>4
  <2>4. ASSUME NEW j \in 0 .. m + 1 PROVE W[j] <= W[m + 1]
    <3>1. CASE j = m + 1
      BY <2>2, <3>1
    <3>2. CASE j # m + 1
      <4>1. j \in 0 .. m /\ j \in 0 .. n
        BY <1>1, <2>1, <3>2
      <4>2. W[j] \in Nat /\ W[j] <= W[m]
        BY <1>2, <2>3, <4>1
      <4> QED BY <2>2, <4>2
    <3> QED BY <3>1, <3>2
  <2>5. ASSUME NEW p \in 1 .. W[m + 1] PROVE \E k \in 1 .. m + 1 : W[k - 1] < p /\ p <= W[k]
    <3>1. CASE p \in 1 .. W[m]
      <4>1. PICK k \in 1 .. m : W[k - 1] < p /\ p <= W[k]
        BY <2>3, <3>1
      <4>2. k \in 1 .. m + 1
        BY <2>1
      <4> QED BY <4>1, <4>2
    <3>2. CASE p \notin 1 .. W[m]
      <4>1. W[m] < p /\ p <= W[m + 1]
        BY <2>2, <3>2
      <4>2. m + 1 \in 1 .. m + 1
        BY <2>1
      <4> QED BY <2>1, <4>1, <4>2
    <3> QED BY <3>1, <3>2
  <2> QED BY <2>1, <2>4, <2>5
<1>5. \A m \in 0 .. n : m \in good
  <2> HIDE DEF good
  <2> QED BY <1>1, <1>3, <1>4, Counting
<1>6. \A m \in 0 .. n : ok(m)
  BY <1>5
<1> QED
  BY <1>1, <1>6 DEF n

\* The k-th sequence stands in flat after W[k - 1].
StandsAt(flat, seqs, W) ==
  /\ Counted(W, seqs) /\ Len(flat) = W[Len(seqs)]
  /\ \A k \in 1 .. Len(seqs) : \A j \in 1 .. Len(seqs[k]) : flat[W[k - 1] + j] = seqs[k][j]

LEMMA FlattenAt ==
  ASSUME NEW T, NEW seqs \in Seq(Seq(T))
  PROVE  FlattenSeq(seqs) \in Seq(T) /\ \E W : StandsAt(FlattenSeq(seqs), seqs, W)
<1> DEFINE n == Len(seqs)
<1>1. n \in Nat /\ \A k \in 1 .. n : seqs[k] \in Seq(T) /\ Len(seqs[k]) \in Nat
  BY LenProperties, ElementOfSeq
<1>2. PICK f : /\ f \in [0 .. n -> Seq(T)] /\ f[0] = <<>>
               /\ \A i \in 1 .. n : f[i] = f[i - 1] \o seqs[i]
               /\ FlattenSeq(seqs) = f[n]
  BY FlattenIs
<1> HIDE DEF n
<1>3. \A i \in 0 .. n : f[i] \in Seq(T) /\ Len(f[i]) \in Nat
  BY <1>2, LenProperties
<1> DEFINE W == [i \in 0 .. n |-> Len(f[i])]
<1>4. ASSUME NEW k \in 1 .. n
      PROVE  /\ f[k] = f[k - 1] \o seqs[k] /\ Len(f[k]) = Len(f[k - 1]) + Len(seqs[k])
             /\ \A j \in 1 .. Len(f[k - 1]) : f[k][j] = f[k - 1][j]
             /\ \A j \in 1 .. Len(seqs[k]) : f[k][Len(f[k - 1]) + j] = seqs[k][j]
  <2>1. k - 1 \in 0 .. n /\ k \in 0 .. n
    BY <1>1
  <2> DEFINE s == f[k - 1]
             t == seqs[k]
  <2>2. s \in Seq(T) /\ t \in Seq(T)
    BY <1>1, <1>3, <2>1
  <2> HIDE DEF s, t
  <2>3. /\ Len(s \o t) = Len(s) + Len(t)
        /\ \A p \in 1 .. Len(s) : (s \o t)[p] = s[p]
        /\ \A p \in 1 .. Len(t) : (s \o t)[Len(s) + p] = t[p]
    BY <2>2, ConcatHas
  <2>4. f[k] = s \o t
    BY <1>2 DEF s, t
  <2> QED BY <2>3, <2>4 DEF s, t
<1>5. W \in [0 .. n -> Nat] /\ W[0] = 0 /\ \A k \in 1 .. n : W[k] = W[k - 1] + Len(seqs[k])
  <2>1. W[0] = 0 /\ \A i \in 0 .. n : W[i] = Len(f[i])
    BY <1>1, <1>2, EmptySeq
  <2>2. \A k \in 1 .. n : k \in 0 .. n /\ k - 1 \in 0 .. n
    BY <1>1
  <2> QED BY <1>3, <1>4, <2>1, <2>2
<1>6. \A i \in 0 .. n : W[i] = Len(f[i])
  OBVIOUS
<1> HIDE DEF W
<1>7. Counted(W, seqs)
  BY <1>5 DEF Counted, n
<1>8. \A m \in 0 .. n : \A j \in 0 .. m : W[j] <= W[m]
  BY <1>7, CountedIs DEF n
<1> DEFINE good == {m \in 0 .. n : \A k \in 1 .. m : \A j \in 1 .. Len(seqs[k]) : f[m][W[k - 1] + j] = seqs[k][j]}
<1>9. 0 \in good
  BY <1>1
<1>10. ASSUME NEW m \in 0 .. n - 1, m \in good PROVE m + 1 \in good
  <2>1. m + 1 \in 0 .. n /\ m + 1 \in 1 .. n /\ (m + 1) - 1 = m /\ m \in 0 .. n
    BY <1>1
  <2> DEFINE l == m + 1
  <2>2. l \in 1 .. n /\ l - 1 = m /\ W[m] = Len(f[m])
    BY <1>6, <2>1
  <2>3. /\ \A j \in 1 .. W[m] : f[l][j] = f[m][j]
        /\ \A j \in 1 .. Len(seqs[l]) : f[l][W[m] + j] = seqs[l][j]
    <3> HIDE DEF l
    <3>1. /\ \A j \in 1 .. Len(f[l - 1]) : f[l][j] = f[l - 1][j]
          /\ \A j \in 1 .. Len(seqs[l]) : f[l][Len(f[l - 1]) + j] = seqs[l][j]
      BY <1>4, <2>2
    <3> QED BY <2>2, <3>1
  <2>4. ASSUME NEW k \in 1 .. m + 1, NEW j \in 1 .. Len(seqs[k]) PROVE f[m + 1][W[k - 1] + j] = seqs[k][j]
    <3>1. CASE k = m + 1
      BY <2>1, <2>3, <3>1
    <3>2. CASE k # m + 1
      <4>1. k \in 1 .. m /\ k \in 1 .. n /\ k \in 0 .. m /\ k \in 0 .. n /\ k - 1 \in 0 .. n
        BY <1>1, <2>1, <3>2
      <4>2. f[m][W[k - 1] + j] = seqs[k][j]
        BY <1>10, <4>1
      <4>3. W[k] = W[k - 1] + Len(seqs[k]) /\ W[k] <= W[m] /\ W[k - 1] \in Nat /\ W[m] \in Nat /\ W[k] \in Nat
        BY <1>5, <1>8, <2>1, <4>1
      <4>4. Len(seqs[k]) \in Nat
        BY <1>1, <4>1
      <4> DEFINE at == W[k - 1] + j
                 from == W[k - 1]
                 size == Len(seqs[k])
      <4>5. at \in 1 .. W[m]
        <5>1. from \in Nat /\ size \in Nat /\ from + size <= W[m] /\ W[m] \in Nat /\ j \in 1 .. size
          BY <4>3, <4>4
        <5> HIDE DEF from, size
        <5>2. from + j \in 1 .. W[m]
          BY <5>1
        <5> QED BY <5>2 DEF from
      <4> HIDE DEF at
      <4>6. f[m + 1][at] = f[m][at]
        BY <2>3, <4>5
      <4> QED BY <4>2, <4>6 DEF at
    <3> QED BY <3>1, <3>2
  <2> QED BY <2>1, <2>4
<1>11. \A m \in 0 .. n : m \in good
  <2> HIDE DEF good
  <2> QED BY <1>1, <1>9, <1>10, Counting
<1>12. n \in 0 .. n
  BY <1>1
<1>13. \A k \in 1 .. n : \A j \in 1 .. Len(seqs[k]) : FlattenSeq(seqs)[W[k - 1] + j] = seqs[k][j]
  BY <1>2, <1>11, <1>12
<1>14. FlattenSeq(seqs) \in Seq(T) /\ Len(FlattenSeq(seqs)) = W[n]
  BY <1>2, <1>3, <1>6, <1>12
<1>15. StandsAt(FlattenSeq(seqs), seqs, W)
  BY <1>7, <1>13, <1>14 DEF StandsAt, n
<1> QED
  BY <1>14, <1>15

-----------------------------------------------------------------------------
(* The places of a page.                                                   *)

\* The column c comes before d, and the columns that come before each.
FirstColumn(page, c, d) ==
  LET leftOf(x, y) == \/ Left(x) < Left(y)
                      \/ Left(x) = Left(y) /\ Right(x) < Right(y)
  IN  IF Direction(page) = "rtl" THEN leftOf(d, c) ELSE leftOf(c, d)
FirstIn(page) == [c \in Columns(Flow(page)) |-> {d \in Columns(Flow(page)) : FirstColumn(page, d, c)}]

\* The columns are put in an order of their own.
LEMMA ColumnsInOrder ==
  ASSUME NEW page \in Leaves \union Plates
  PROVE  /\ IsOrder(FirstIn(page), Columns(Flow(page)))
         /\ InOrder(ColumnOrder(page), Columns(Flow(page)), FirstIn(page))
<1> DEFINE C == Columns(Flow(page))
           first(c, d) == FirstColumn(page, c, d)
           before == FirstIn(page)
<1>1. Flow(page) \in SUBSET Blocks(page)
  BY DEF Flow
<1>2. /\ IsFiniteSet(C)
      /\ \A c \in C : Left(c) \in Int /\ Right(c) \in Int
      /\ \A c, d \in C : Left(c) = Left(d) /\ Right(c) = Right(d) => c = d
  BY <1>1, ColumnsAre
<1>3. ColumnOrder(page) = SortedBy(C, before)
  BY DEF ColumnOrder, Sorted, SortedBy, FirstIn, FirstColumn
<1>4. IsOrder(before, C)
  <2>1. before \in [C -> SUBSET C] /\ \A c, d \in C : d \in before[c] <=> first(d, c)
    BY Zenon DEF FirstIn
  <2> HIDE DEF C, before
  <2>2. \A c \in C : ~first(c, c)
    BY <1>2 DEF FirstColumn
  <2>3. \A c, d \in C : c = d \/ first(c, d) \/ first(d, c)
    BY <1>2 DEF FirstColumn
  <2>4. ASSUME NEW c \in C, NEW d \in C, NEW e \in C, first(e, c), first(c, d) PROVE first(e, d)
    BY <1>2, <2>4 DEF FirstColumn
  <2> HIDE DEF first
  <2>5. ASSUME NEW c \in C, NEW d \in C, c \in before[d] PROVE before[c] \subseteq before[d]
    <3> SUFFICES ASSUME NEW e \in before[c] PROVE e \in before[d]
      OBVIOUS
    <3>1. e \in C
      BY <2>1
    <3> QED BY <2>1, <2>4, <2>5, <3>1
  <2> QED BY <2>1, <2>2, <2>3, <2>5 DEF IsOrder
<1> HIDE DEF C, before
<1>5. InOrder(SortedBy(C, before), C, before)
  BY <1>2, <1>4, SortedByIs
<1> QED
  BY <1>3, <1>4, <1>5 DEF C, before

LEMMA ColumnOrderIs ==
  ASSUME NEW page \in Leaves \union Plates
  PROVE  /\ ColumnOrder(page) \in Seq(Columns(Flow(page)))
         /\ \A c \in Columns(Flow(page)) : \E p \in 1 .. Len(ColumnOrder(page)) : ColumnOrder(page)[p] = c
BY ColumnsInOrder DEF InOrder

LEMMA PlacesAre ==
  ASSUME NEW page \in Leaves \union Plates
  PROVE  /\ Places(page) \in Seq(Blocks(page))
         /\ \A b \in Blocks(page) : \E p \in 1 .. Len(Places(page)) : Places(page)[p] = b
<1> DEFINE T == Blocks(page)
           columns == ColumnOrder(page)
           n == Len(columns)
           head == Sorted(Headers(page), Above)
           foot == Sorted(Footers(page), Above)
           text == [p \in DOMAIN columns |-> Sorted(columns[p], Above)]
           flow == FlattenSeq(text)
<1>1. Headers(page) \in SUBSET T /\ Footers(page) \in SUBSET T /\ Flow(page) \in SUBSET T
      /\ T = Headers(page) \union Footers(page) \union Flow(page)
  BY DEF Headers, Footers, Flow
<1>2. ASSUME NEW S \in SUBSET T
      PROVE  Sorted(S, Above) \in Seq(T) /\ \A b \in S : \E p \in 1 .. Len(Sorted(S, Above)) : Sorted(S, Above)[p] = b
  <2>1. InOrder(Sorted(S, Above), S, AboveIn(S))
    BY FromTheTop
  <2>2. Sorted(S, Above) \in Seq(S)
    BY <2>1 DEF InOrder
  <2> QED BY <2>1, <2>2, SeqMonotonic DEF InOrder
<1>3. /\ columns \in Seq(Columns(Flow(page)))
      /\ \A c \in Columns(Flow(page)) : \E p \in 1 .. n : columns[p] = c
  BY ColumnOrderIs
<1>4. Columns(Flow(page)) \subseteq SUBSET Flow(page) /\ \A b \in Flow(page) : \E c \in Columns(Flow(page)) : b \in c
  BY <1>1, ColumnsAre
<1>5. DOMAIN columns = 1 .. n /\ n \in Nat /\ \A p \in 1 .. n : columns[p] \in SUBSET T
  <2>1. DOMAIN columns = 1 .. n /\ n \in Nat /\ \A p \in 1 .. n : columns[p] \in Columns(Flow(page))
    BY <1>3, LenProperties, ElementOfSeq
  <2> QED BY <1>1, <1>4, <2>1
<1>6. Places(page) = head \o flow \o foot
  BY DEF Places
<1> HIDE DEF T, columns, n, head, foot
<1>7. head \in Seq(T) /\ foot \in Seq(T)
  BY <1>1, <1>2 DEF head, foot
<1>8. text \in Seq(Seq(T)) /\ Len(text) = n /\ \A p \in 1 .. n : text[p] = Sorted(columns[p], Above)
  <2>1. text \in [1 .. n -> Seq(T)] /\ \A p \in 1 .. n : text[p] = Sorted(columns[p], Above)
    BY <1>2, <1>5
  <2> HIDE DEF text
  <2> QED BY <1>5, <2>1, FunctionIsSeq
<1> HIDE DEF text
<1>9. /\ flow \in Seq(T)
      /\ \A k \in 1 .. n : \A j \in 1 .. Len(text[k]) : \E p \in 1 .. Len(flow) : flow[p] = text[k][j]
  <2>1. /\ FlattenSeq(text) \in Seq(T)
        /\ \A k \in 1 .. Len(text) : \A j \in 1 .. Len(text[k]) :
             \E p \in 1 .. Len(FlattenSeq(text)) : FlattenSeq(text)[p] = text[k][j]
    <3> HIDE DEF flow
    <3> QED BY <1>8, FlattenHas
  <2> QED BY <1>8, <2>1
<1> HIDE DEF flow
<1> DEFINE most == head \o flow
<1>10. /\ most \in Seq(T) /\ Len(head) \in Nat
       /\ \A p \in 1 .. Len(head) : p \in 1 .. Len(most) /\ most[p] = head[p]
       /\ \A p \in 1 .. Len(flow) : Len(head) + p \in 1 .. Len(most) /\ most[Len(head) + p] = flow[p]
  <2>1. head \in Seq(T) /\ flow \in Seq(T)
    BY <1>7, <1>9
  <2>2. /\ head \o flow \in Seq(T) /\ Len(head) \in Nat
        /\ \A p \in 1 .. Len(head) : p \in 1 .. Len(head \o flow) /\ (head \o flow)[p] = head[p]
        /\ \A p \in 1 .. Len(flow) :
             Len(head) + p \in 1 .. Len(head \o flow) /\ (head \o flow)[Len(head) + p] = flow[p]
    BY <2>1, ConcatHas
  <2> QED BY <2>2
<1>11. Places(page) = most \o foot
  BY <1>6
<1> HIDE DEF most
<1>13. /\ Places(page) \in Seq(T) /\ Len(most) \in Nat
       /\ \A p \in 1 .. Len(most) : p \in 1 .. Len(Places(page)) /\ Places(page)[p] = most[p]
       /\ \A p \in 1 .. Len(foot) : Len(most) + p \in 1 .. Len(Places(page)) /\ Places(page)[Len(most) + p] = foot[p]
  BY <1>7, <1>10, <1>11, ConcatHas
<1>12. ASSUME NEW b \in T PROVE \E p \in 1 .. Len(Places(page)) : Places(page)[p] = b
  <2>1. CASE b \in Headers(page)
    <3>1. PICK p \in 1 .. Len(head) : head[p] = b
      BY <1>1, <1>2, <2>1 DEF head
    <3> QED BY <1>10, <1>13, <3>1
  <2>2. CASE b \in Footers(page)
    <3>1. PICK p \in 1 .. Len(foot) : foot[p] = b
      BY <1>1, <1>2, <2>2 DEF foot
    <3> QED BY <1>13, <3>1
  <2>3. CASE b \in Flow(page)
    <3>1. PICK k \in 1 .. n : b \in columns[k]
      BY <1>3, <1>4, <2>3
    <3>2. PICK j \in 1 .. Len(text[k]) : text[k][j] = b
      <4> DEFINE S == columns[k]
      <4>1. S \in SUBSET T /\ b \in S /\ text[k] = Sorted(S, Above)
        BY <1>5, <1>8, <3>1
      <4> HIDE DEF S
      <4>2. \E j \in 1 .. Len(Sorted(S, Above)) : Sorted(S, Above)[j] = b
        BY <1>2, <4>1
      <4> QED BY <4>1, <4>2
    <3>3. PICK p \in 1 .. Len(flow) : flow[p] = b
      BY <1>9, <3>2
    <3> QED BY <1>10, <1>13, <3>3
  <2> QED BY <1>1, <2>1, <2>2, <2>3
<1> QED
  BY <1>12, <1>13 DEF T


-----------------------------------------------------------------------------
(* The main text of a page.                                                *)

\* No two blocks have the same place.
LEMMA ReadingOrderIs ==
  ASSUME NEW page \in Leaves \union Plates
  PROVE  /\ \A b \in Blocks(page) : ReadingOrder(page)[b] \in Int
         /\ \A a, b \in Blocks(page) : ReadingOrder(page)[a] = ReadingOrder(page)[b] => a = b
<1> DEFINE places == Places(page)
           at(b) == {p \in DOMAIN places : places[p] = b}
<1>1. /\ places \in Seq(Blocks(page))
      /\ \A b \in Blocks(page) : \E p \in 1 .. Len(places) : places[p] = b
  BY PlacesAre
<1>2. DOMAIN places = 1 .. Len(places) /\ Len(places) \in Nat
  BY <1>1, LenProperties
<1>3. \A b \in Blocks(page) : ReadingOrder(page)[b] = Max(at(b))
  BY DEF ReadingOrder
<1> HIDE DEF places
<1>4. ASSUME NEW b \in Blocks(page) PROVE Max(at(b)) \in Int /\ places[Max(at(b))] = b
  <2>1. at(b) \in SUBSET (1 .. Len(places)) /\ at(b) # {} /\ at(b) \in SUBSET Int
    BY <1>1, <1>2
  <2>2. IsFiniteSet(at(b))
    <3>1. IsFiniteSet(1 .. Len(places))
      BY <1>2, FS_Interval
    <3> HIDE DEF at
    <3> QED BY <2>1, <3>1, FS_Subset
  <2>3. Max(at(b)) \in at(b)
    <3> HIDE DEF at
    <3> QED BY <2>1, <2>2, MinMaxAre
  <2> QED BY <1>2, <2>3
<1> HIDE DEF at
<1> QED
  BY <1>3, <1>4

LEMMA MainTextIs ==
  ASSUME NEW page \in Leaves \union Plates
  PROVE  /\ MainText(page) \in Seq({b \in Blocks(page) : Region(page, b) = "main"})
         /\ MainText(page) \in Seq(Blocks(page))
         /\ \A p, q \in 1 .. Len(MainText(page)) :
              p < q <=> ReadingOrder(page)[MainText(page)[p]] < ReadingOrder(page)[MainText(page)[q]]
<1> DEFINE S == {b \in Blocks(page) : Region(page, b) = "main"}
           order == ReadingOrder(page)
           before == [a \in S |-> {b \in S : order[b] < order[a]}]
<1>1. S \in SUBSET Blocks(page) /\ IsFiniteSet(S)
  <2>1. S \in SUBSET Blocks(page)
    OBVIOUS
  <2> HIDE DEF S
  <2> QED BY <2>1, PageBlocks, FS_Subset
<1>2. MainText(page) = SortedBy(S, before)
  BY DEF MainText, Sorted, SortedBy
<1>3. \A b \in S : order[b] \in Int
  BY ReadingOrderIs
<1>4. \A a, b \in S : order[a] = order[b] => a = b
  BY ReadingOrderIs
<1> HIDE DEF S, order
<1>5. IsOrder(before, S)
  <2>1. before \in [S -> SUBSET S] /\ \A a, b \in S : a \in before[b] <=> order[a] < order[b]
    OBVIOUS
  <2> HIDE DEF before
  <2>2. \A a \in S : a \notin before[a]
    BY <1>3, <2>1
  <2>3. ASSUME NEW a \in S, NEW b \in S, a \in before[b], NEW c \in before[a] PROVE c \in before[b]
    <3>1. c \in S
      BY <2>1
    <3>2. order[c] < order[a] /\ order[a] < order[b]
      BY <2>1, <2>3, <3>1
    <3>3. order[c] < order[b]
      BY <1>3, <3>1, <3>2
    <3> QED BY <2>1, <3>1, <3>3
  <2>4. \A a, b \in S : a = b \/ a \in before[b] \/ b \in before[a]
    BY <1>3, <1>4, <2>1
  <2> QED BY <2>1, <2>2, <2>3, <2>4 DEF IsOrder
<1>6. \A a, b \in S : a \in before[b] <=> order[a] < order[b]
  OBVIOUS
<1> HIDE DEF before
<1>7. InOrder(MainText(page), S, before)
  BY <1>1, <1>2, <1>5, SortedByIs
<1>8. MainText(page) \in Seq(S)
  BY <1>7 DEF InOrder
<1>9. \A p, q \in 1 .. Len(MainText(page)) : p < q <=> order[MainText(page)[p]] < order[MainText(page)[q]]
  BY <1>6, <1>7, <1>8, ElementOfSeq DEF InOrder
<1> QED
  BY <1>1, <1>8, <1>9, SeqMonotonic DEF S, order

-----------------------------------------------------------------------------
(* Where the blocks of a page are read: the headers, the columns of the     *)
(* flow one after the other, the footers.                                   *)

\* The place of a block is the last one it has.
LEMMA LastPlace ==
  ASSUME NEW page \in Leaves \union Plates, NEW b \in Blocks(page), NEW pos \in 1 .. Len(Places(page)),
         Places(page)[pos] = b, \A p \in 1 .. Len(Places(page)) : Places(page)[p] = b => p <= pos
  PROVE  ReadingOrder(page)[b] = pos
<1> DEFINE n == Len(Places(page))
           at == {p \in DOMAIN Places(page) : Places(page)[p] = b}
<1>1. DOMAIN Places(page) = 1 .. n /\ n \in Nat
  BY PlacesAre, LenProperties
<1>2. ReadingOrder(page)[b] = Max(at)
  BY DEF ReadingOrder
<1>3. at \in SUBSET (1 .. n) /\ at \in SUBSET Int /\ at # {} /\ pos \in at
  BY <1>1
<1>4. IsFiniteSet(at)
  <2>1. IsFiniteSet(1 .. n)
    BY <1>1, FS_Interval
  <2> HIDE DEF at
  <2> QED BY <1>3, <2>1, FS_Subset
<1>5. \A p \in at : p <= pos
  BY <1>1
<1> HIDE DEF at
<1>6. Max(at) \in at /\ pos <= Max(at)
  BY <1>3, <1>4, MinMaxAre
<1>7. Max(at) <= pos /\ Max(at) \in Int /\ pos \in Int
  BY <1>3, <1>5, <1>6
<1> QED
  BY <1>2, <1>6, <1>7

HeadOf(page) == Sorted(Headers(page), Above)
FootOf(page) == Sorted(Footers(page), Above)
TextOfColumns(page) == [p \in DOMAIN ColumnOrder(page) |-> Sorted(ColumnOrder(page)[p], Above)]
FlowOf(page) == FlattenSeq(TextOfColumns(page))

\* The columns of the flow share no block.
LEMMA ColumnsShareNone ==
  ASSUME NEW page \in Leaves \union Plates, NEW S \in SUBSET Blocks(page)
  PROVE  /\ \A c, d \in Columns(S) : \A b : b \in c /\ b \in d => c = d
         /\ \A c \in Columns(S) : c # {}
         /\ \A c \in Columns(S) : \A a \in c, b \in S : Center(a) = Center(b) => b \in c
<1> DEFINE gapAfter == {l \in S : \A b \in S : Center(b) > Center(l) => Center(b) - Center(l) > 2 * ColumnGap}
           column(b) == {c \in S : \A l \in gapAfter : (Center(b) <= Center(l)) <=> (Center(c) <= Center(l))}
<1>1. Columns(S) = {column(b) : b \in S}
  BY DEF Columns
<1> HIDE DEF gapAfter
<1>2. ASSUME NEW x \in S, NEW y \in S, NEW b, b \in column(x), b \in column(y) PROVE column(x) = column(y)
  <2>1. \A l \in gapAfter : (Center(x) <= Center(l)) <=> (Center(y) <= Center(l))
    BY <1>2
  <2> QED BY <2>1
<1>3. \A x \in S : x \in column(x)
  OBVIOUS
<1>4. \A x \in S : \A a \in column(x), b \in S : Center(a) = Center(b) => b \in column(x)
  OBVIOUS
<1>5. \A c \in Columns(S) : \E x \in S : c = column(x)
  BY <1>1
<1> HIDE DEF column
<1>6. ASSUME NEW c \in Columns(S), NEW d \in Columns(S), NEW b, b \in c, b \in d PROVE c = d
  <2>1. PICK x \in S : c = column(x)
    BY <1>5
  <2>2. PICK y \in S : d = column(y)
    BY <1>5
  <2> QED BY <1>2, <1>6, <2>1, <2>2
<1>7. ASSUME NEW c \in Columns(S) PROVE c # {} /\ \A a \in c, b \in S : Center(a) = Center(b) => b \in c
  <2>1. PICK x \in S : c = column(x)
    BY <1>5
  <2> QED BY <1>3, <1>4, <2>1
<1> QED
  BY <1>6, <1>7

\* The texts of the columns, each from the top.
LEMMA TextOfColumnsAre ==
  ASSUME NEW page \in Leaves \union Plates
  PROVE  /\ ColumnOrder(page) \in Seq(Columns(Flow(page))) /\ Len(ColumnOrder(page)) \in Nat
         /\ TextOfColumns(page) \in Seq(Seq(Blocks(page))) /\ Len(TextOfColumns(page)) = Len(ColumnOrder(page))
         /\ \A k \in 1 .. Len(ColumnOrder(page)) :
              /\ ColumnOrder(page)[k] \in Columns(Flow(page)) /\ ColumnOrder(page)[k] \in SUBSET Flow(page)
              /\ ColumnOrder(page)[k] \in SUBSET Blocks(page)
              /\ TextOfColumns(page)[k] = Sorted(ColumnOrder(page)[k], Above)
<1> DEFINE columns == ColumnOrder(page)
           n == Len(columns)
           T == Blocks(page)
           text == TextOfColumns(page)
<1>1. Flow(page) \in SUBSET T
  BY DEF Flow
<1>2. columns \in Seq(Columns(Flow(page)))
  BY ColumnOrderIs
<1>3. DOMAIN columns = 1 .. n /\ n \in Nat /\ \A k \in 1 .. n : columns[k] \in Columns(Flow(page))
  BY <1>2, LenProperties, ElementOfSeq
<1>4. Columns(Flow(page)) \subseteq SUBSET Flow(page)
  BY <1>1, ColumnsAre
<1>5. \A k \in 1 .. n : columns[k] \in SUBSET Flow(page) /\ columns[k] \in SUBSET T
  BY <1>1, <1>3, <1>4
<1>6. text = [k \in 1 .. n |-> Sorted(columns[k], Above)]
  BY <1>3 DEF TextOfColumns
<1> HIDE DEF columns, n, T, text
<1>7. ASSUME NEW k \in 1 .. n PROVE Sorted(columns[k], Above) \in Seq(T)
  <2>1. columns[k] \in SUBSET T
    BY <1>5
  <2> DEFINE c == columns[k]
  <2>2. c \in SUBSET T
    BY <2>1
  <2> HIDE DEF c
  <2>3. InOrder(Sorted(c, Above), c, AboveIn(c))
    BY <2>2, FromTheTop DEF T
  <2> QED BY <2>2, <2>3, SeqMonotonic DEF InOrder, c
<1>8. text \in [1 .. n -> Seq(T)] /\ \A k \in 1 .. n : text[k] = Sorted(columns[k], Above)
  BY <1>6, <1>7
<1>9. text \in Seq(Seq(T)) /\ Len(text) = n
  BY <1>3, <1>8, FunctionIsSeq
<1> QED
  BY <1>2, <1>3, <1>5, <1>8, <1>9 DEF columns, n, T, text

\* A block in the text of a column, with its place there.
LEMMA PlaceInColumn ==
  ASSUME NEW page \in Leaves \union Plates, NEW k \in 1 .. Len(ColumnOrder(page))
  PROVE  LET c == ColumnOrder(page)[k]
             s == TextOfColumns(page)[k]
         IN  /\ Len(s) \in Nat
             /\ \A j \in 1 .. Len(s) : s[j] \in c
             /\ \A b \in c : \E j \in 1 .. Len(s) : s[j] = b
             /\ \A i, j \in 1 .. Len(s) : s[i] = s[j] => i = j
             /\ \A i, j \in 1 .. Len(s) : i < j <=> Above(s[i], s[j])
<1> DEFINE c == ColumnOrder(page)[k]
           s == TextOfColumns(page)[k]
<1>1. c \in SUBSET Blocks(page) /\ s = Sorted(c, Above)
  BY TextOfColumnsAre
<1> HIDE DEF c, s
<1>2. IsOrder(AboveIn(c), c) /\ InOrder(s, c, AboveIn(c))
  BY <1>1, FromTheTop
<1>3. Len(s) \in Nat /\ \A j \in 1 .. Len(s) : s[j] \in c
  BY <1>2, LenProperties, ElementOfSeq DEF InOrder
<1>4. \A i, j \in 1 .. Len(s) : s[i] = s[j] => i = j
  BY <1>2, InOrderDiffers
<1>5. \A i, j \in 1 .. Len(s) : i < j <=> Above(s[i], s[j])
  BY <1>2, <1>3 DEF InOrder, AboveIn
<1>6. \A b \in c : \E j \in 1 .. Len(s) : s[j] = b
  BY <1>2 DEF InOrder
<1> QED
  BY <1>3, <1>4, <1>5, <1>6 DEF c, s

\* The headers, or the footers, with their places.
LEMMA PlaceInBand ==
  ASSUME NEW page \in Leaves \union Plates, NEW S \in SUBSET Blocks(page)
  PROVE  LET s == Sorted(S, Above)
         IN  /\ s \in Seq(Blocks(page)) /\ Len(s) \in Nat
             /\ \A j \in 1 .. Len(s) : s[j] \in S
             /\ \A b \in S : \E j \in 1 .. Len(s) : s[j] = b
             /\ \A i, j \in 1 .. Len(s) : s[i] = s[j] => i = j
             /\ \A i, j \in 1 .. Len(s) : i < j <=> Above(s[i], s[j])
<1> DEFINE s == Sorted(S, Above)
<1>1. IsOrder(AboveIn(S), S) /\ InOrder(s, S, AboveIn(S))
  BY FromTheTop
<1> HIDE DEF s
<1>2. s \in Seq(Blocks(page)) /\ Len(s) \in Nat /\ \A j \in 1 .. Len(s) : s[j] \in S
  BY <1>1, LenProperties, ElementOfSeq, SeqMonotonic DEF InOrder
<1>3. \A i, j \in 1 .. Len(s) : s[i] = s[j] => i = j
  BY <1>1, InOrderDiffers
<1>4. \A i, j \in 1 .. Len(s) : i < j <=> Above(s[i], s[j])
  BY <1>1, <1>2 DEF InOrder, AboveIn
<1>5. \A b \in S : \E j \in 1 .. Len(s) : s[j] = b
  BY <1>1 DEF InOrder
<1> QED
  BY <1>2, <1>3, <1>4, <1>5 DEF s

\* The flow: every block has one place in it, the columns follow each other and
\* each is read from the top.
LEMMA PlaceInFlow ==
  ASSUME NEW page \in Leaves \union Plates
  PROVE  LET s == FlowOf(page)
         IN  /\ s \in Seq(Blocks(page)) /\ Len(s) \in Nat
             /\ \A p \in 1 .. Len(s) : s[p] \in Flow(page)
             /\ \A b \in Flow(page) : \E p \in 1 .. Len(s) : s[p] = b
             /\ \A p, q \in 1 .. Len(s) : s[p] = s[q] => p = q
             /\ \A c \in Columns(Flow(page)) : \A p, q \in 1 .. Len(s) :
                  {s[p], s[q]} \subseteq c /\ Above(s[p], s[q]) => p < q
             /\ \A c, d \in Columns(Flow(page)) : \A p, q \in 1 .. Len(s) :
                  s[p] \in c /\ s[q] \in d /\ FirstColumn(page, c, d) => p < q
<1> DEFINE columns == ColumnOrder(page)
           C == Columns(Flow(page))
           n == Len(columns)
           T == Blocks(page)
           text == TextOfColumns(page)
           s == FlowOf(page)
<1>1. Flow(page) \in SUBSET T
  BY DEF Flow
<1>2. /\ n \in Nat /\ text \in Seq(Seq(T)) /\ Len(text) = n
      /\ \A k \in 1 .. n : columns[k] \in C /\ columns[k] \in SUBSET Flow(page)
  BY TextOfColumnsAre
<1>3. \A k \in 1 .. n :
        /\ Len(text[k]) \in Nat
        /\ \A j \in 1 .. Len(text[k]) : text[k][j] \in columns[k]
        /\ \A b \in columns[k] : \E j \in 1 .. Len(text[k]) : text[k][j] = b
        /\ \A i, j \in 1 .. Len(text[k]) : text[k][i] = text[k][j] => i = j
        /\ \A i, j \in 1 .. Len(text[k]) : i < j <=> Above(text[k][i], text[k][j])
  BY PlaceInColumn
<1>4. /\ IsOrder(FirstIn(page), C) /\ InOrder(columns, C, FirstIn(page))
  BY ColumnsInOrder
<1>5. \A c, d \in C : \A b : b \in c /\ b \in d => c = d
  BY <1>1, ColumnsShareNone
<1>6. \A b \in Flow(page) : \E c \in C : b \in c
  BY <1>1, ColumnsAre
<1>7. \A c \in C : \E k \in 1 .. n : columns[k] = c
  BY <1>4 DEF InOrder
<1>8. \A k, l \in 1 .. n : columns[k] = columns[l] => k = l
  BY <1>4, InOrderDiffers
<1>9. \A k, l \in 1 .. n : FirstColumn(page, columns[k], columns[l]) => k < l
  BY <1>2, <1>4 DEF InOrder, FirstIn
<1>10. s = FlattenSeq(text)
  BY DEF FlowOf
<1> HIDE DEF columns, C, n, T, text, s
<1>11. s \in Seq(T) /\ \E W : StandsAt(s, text, W)
  BY <1>2, <1>10, FlattenAt
<1>12. PICK W : StandsAt(s, text, W)
  BY <1>11
<1>13. /\ W \in [0 .. n -> Nat] /\ W[0] = 0 /\ Len(s) = W[n] /\ Len(s) \in Nat
       /\ \A k \in 1 .. n : W[k] = W[k - 1] + Len(text[k])
       /\ \A k \in 1 .. n : \A j \in 1 .. Len(text[k]) : s[W[k - 1] + j] = text[k][j]
  BY <1>2, <1>11, <1>12, LenProperties DEF StandsAt, Counted
<1>14. /\ \A m \in 0 .. n : \A j \in 0 .. m : W[j] <= W[m]
       /\ \A m \in 0 .. n : \A p \in 1 .. W[m] : \E k \in 1 .. m : W[k - 1] < p /\ p <= W[k]
  <2>1. Counted(W, text)
    BY <1>12 DEF StandsAt
  <2> QED BY <1>2, <2>1, CountedIs
<1>15. \A k \in 1 .. n : k \in 0 .. n /\ k - 1 \in 0 .. n /\ W[k] \in Nat /\ W[k - 1] \in Nat
  BY <1>2, <1>13
<1>16. ASSUME NEW p \in 1 .. Len(s)
       PROVE  \E k \in 1 .. n : \E j \in 1 .. Len(text[k]) :
                p = W[k - 1] + j /\ p <= W[k] /\ s[p] = text[k][j] /\ s[p] \in columns[k]
  <2>1. n \in 0 .. n /\ p \in 1 .. W[n]
    BY <1>2, <1>13
  <2>2. PICK k \in 1 .. n : W[k - 1] < p /\ p <= W[k]
    BY <1>14, <2>1
  <2>3. W[k] = W[k - 1] + Len(text[k]) /\ W[k] \in Nat /\ W[k - 1] \in Nat /\ Len(text[k]) \in Nat
    BY <1>3, <1>13, <1>15
  <2> DEFINE j == p - W[k - 1]
  <2>4. j \in 1 .. Len(text[k]) /\ p = W[k - 1] + j
    BY <2>2, <2>3
  <2> HIDE DEF j
  <2>5. s[p] = text[k][j] /\ s[p] \in columns[k]
    BY <1>3, <1>13, <2>4
  <2> QED BY <2>2, <2>4, <2>5
<1>17. ASSUME NEW b \in Flow(page) PROVE \E p \in 1 .. Len(s) : s[p] = b
  <2>1. PICK k \in 1 .. n : b \in columns[k]
    BY <1>6, <1>7
  <2>2. PICK j \in 1 .. Len(text[k]) : text[k][j] = b
    BY <1>3, <2>1
  <2>3. /\ W[k] = W[k - 1] + Len(text[k]) /\ W[k] \in Nat /\ W[k - 1] \in Nat /\ Len(text[k]) \in Nat
        /\ W[k] <= W[n] /\ W[n] \in Nat
    BY <1>2, <1>3, <1>13, <1>14, <1>15
  <2>4. W[k - 1] + j \in 1 .. Len(s)
    BY <1>13, <2>3
  <2> QED BY <1>13, <2>2, <2>4
<1>18. ASSUME NEW p \in 1 .. Len(s), NEW q \in 1 .. Len(s), s[p] = s[q] PROVE p = q
  <2>1. PICK k \in 1 .. n : \E j \in 1 .. Len(text[k]) :
               p = W[k - 1] + j /\ s[p] = text[k][j] /\ s[p] \in columns[k]
    BY <1>16
  <2>2. PICK l \in 1 .. n : \E j \in 1 .. Len(text[l]) :
               q = W[l - 1] + j /\ s[q] = text[l][j] /\ s[q] \in columns[l]
    BY <1>16
  <2>3. k = l
    BY <1>2, <1>5, <1>8, <1>18, <2>1, <2>2
  <2> QED BY <1>3, <1>18, <2>1, <2>2, <2>3
<1>19. ASSUME NEW c \in C, NEW p \in 1 .. Len(s), NEW q \in 1 .. Len(s), s[p] \in c, s[q] \in c, Above(s[p], s[q])
       PROVE  p < q
  <2>1. PICK k \in 1 .. n : \E j \in 1 .. Len(text[k]) :
               p = W[k - 1] + j /\ s[p] = text[k][j] /\ s[p] \in columns[k]
    BY <1>16
  <2>2. PICK l \in 1 .. n : \E j \in 1 .. Len(text[l]) :
               q = W[l - 1] + j /\ s[q] = text[l][j] /\ s[q] \in columns[l]
    BY <1>16
  <2>3. columns[k] = c /\ columns[l] = c
    <3>1. columns[k] \in C /\ columns[l] \in C /\ s[p] \in columns[k] /\ s[q] \in columns[l]
      BY <1>2, <2>1, <2>2
    <3> QED BY <1>5, <1>19, <3>1
  <2>4. k = l
    BY <1>8, <2>3
  <2>5. PICK i \in 1 .. Len(text[k]) : p = W[k - 1] + i /\ s[p] = text[k][i]
    BY <2>1
  <2>6. PICK j \in 1 .. Len(text[k]) : q = W[k - 1] + j /\ s[q] = text[k][j]
    BY <2>2, <2>4
  <2>7. i < j
    BY <1>3, <1>19, <2>5, <2>6
  <2> QED BY <1>15, <2>5, <2>6, <2>7
<1>20. ASSUME NEW c \in C, NEW d \in C, NEW p \in 1 .. Len(s), NEW q \in 1 .. Len(s),
              s[p] \in c, s[q] \in d, FirstColumn(page, c, d)
       PROVE  p < q
  <2>1. PICK k \in 1 .. n : p <= W[k] /\ s[p] \in columns[k]
    BY <1>16
  <2>2. PICK l \in 1 .. n : \E j \in 1 .. Len(text[l]) : q = W[l - 1] + j /\ s[q] \in columns[l]
    BY <1>16
  <2>3. columns[k] = c /\ columns[l] = d
    <3>1. columns[k] \in C /\ columns[l] \in C /\ s[p] \in columns[k] /\ s[q] \in columns[l]
      BY <1>2, <2>1, <2>2
    <3> QED BY <1>5, <1>20, <3>1
  <2>4. k < l
    BY <1>9, <1>20, <2>3
  <2>5. k \in 0 .. l - 1 /\ l - 1 \in 0 .. n
    BY <1>2, <2>4
  <2>6. W[k] <= W[l - 1] /\ W[k] \in Nat /\ W[l - 1] \in Nat
    BY <1>14, <1>15, <2>5
  <2>7. W[l - 1] < q
    BY <2>2, <2>6
  <2> QED BY <2>1, <2>6, <2>7
<1>21. \A p \in 1 .. Len(s) : s[p] \in Flow(page)
  BY <1>2, <1>16
<1> QED
  BY <1>11, <1>13, <1>17, <1>18, <1>19, <1>20, <1>21 DEF C, s, T

\* The places of a page: H for the headers, F for the flow, the rest for the
\* footers.
Zones(page, order, H, F) ==
  /\ \A b \in Headers(page) \ Footers(page) : order[b] \in 1 .. H
  /\ \A b \in Flow(page) : order[b] \in H + 1 .. H + F
  /\ \A b \in Footers(page) : order[b] > H + F
  /\ \A a, b \in Headers(page) \ Footers(page) : Above(a, b) => order[a] < order[b]
  /\ \A a, b \in Footers(page) : Above(a, b) => order[a] < order[b]
  /\ \A c \in Columns(Flow(page)) : \A a, b \in c : Above(a, b) => order[a] < order[b]
  /\ \A c, d \in Columns(Flow(page)) : \A a \in c, b \in d : FirstColumn(page, c, d) => order[a] < order[b]

LEMMA ZonesAre ==
  ASSUME NEW page \in Leaves \union Plates
  PROVE  \E H, F \in Nat : Zones(page, ReadingOrder(page), H, F)
<1> DEFINE T == Blocks(page)
           head == HeadOf(page)
           flow == FlowOf(page)
           foot == FootOf(page)
           H == Len(head)
           F == Len(flow)
           most == head \o flow
           places == Places(page)
           order == ReadingOrder(page)
<1>1. /\ Headers(page) \in SUBSET T /\ Footers(page) \in SUBSET T /\ Flow(page) \in SUBSET T
      /\ \A b \in Flow(page) : b \notin Headers(page) /\ b \notin Footers(page)
  BY DEF Headers, Footers, Flow
<1>2. /\ head \in Seq(T) /\ H \in Nat
      /\ \A j \in 1 .. H : head[j] \in Headers(page)
      /\ \A b \in Headers(page) : \E j \in 1 .. H : head[j] = b
      /\ \A i, j \in 1 .. H : head[i] = head[j] => i = j
      /\ \A i, j \in 1 .. H : i < j <=> Above(head[i], head[j])
  BY <1>1, PlaceInBand DEF HeadOf
<1>3. /\ foot \in Seq(T) /\ Len(foot) \in Nat
      /\ \A j \in 1 .. Len(foot) : foot[j] \in Footers(page)
      /\ \A b \in Footers(page) : \E j \in 1 .. Len(foot) : foot[j] = b
      /\ \A i, j \in 1 .. Len(foot) : foot[i] = foot[j] => i = j
      /\ \A i, j \in 1 .. Len(foot) : i < j <=> Above(foot[i], foot[j])
  BY <1>1, PlaceInBand DEF FootOf
<1>4. /\ flow \in Seq(T) /\ F \in Nat
      /\ \A p \in 1 .. F : flow[p] \in Flow(page)
      /\ \A b \in Flow(page) : \E p \in 1 .. F : flow[p] = b
      /\ \A p, q \in 1 .. F : flow[p] = flow[q] => p = q
      /\ \A c \in Columns(Flow(page)) : \A p, q \in 1 .. F :
           {flow[p], flow[q]} \subseteq c /\ Above(flow[p], flow[q]) => p < q
      /\ \A c, d \in Columns(Flow(page)) : \A p, q \in 1 .. F :
           flow[p] \in c /\ flow[q] \in d /\ FirstColumn(page, c, d) => p < q
  BY PlaceInFlow
<1>5. places = most \o foot
  BY DEF Places, HeadOf, FlowOf, FootOf, TextOfColumns
<1> HIDE DEF T, head, flow, foot, places
<1>6. /\ head \o flow \in Seq(T) /\ Len(head \o flow) = Len(head) + Len(flow)
      /\ \A p \in 1 .. Len(head) : p \in 1 .. Len(head \o flow) /\ (head \o flow)[p] = head[p]
      /\ \A p \in 1 .. Len(flow) : Len(head) + p \in 1 .. Len(head \o flow) /\ (head \o flow)[Len(head) + p] = flow[p]
      /\ \A p \in 1 .. Len(head \o flow) :
           \/ p \in 1 .. Len(head)
           \/ /\ p - Len(head) \in 1 .. Len(flow) /\ p = Len(head) + (p - Len(head))
              /\ (head \o flow)[p] = flow[p - Len(head)]
  BY <1>2, <1>4, ConcatHas
<1>7. most \in Seq(T) /\ Len(most) = H + F
  BY <1>6
<1> HIDE DEF most
<1>8. /\ places \in Seq(T) /\ Len(most) \in Nat /\ Len(places) = Len(most) + Len(foot)
      /\ \A p \in 1 .. Len(most) : p \in 1 .. Len(places) /\ places[p] = most[p]
      /\ \A p \in 1 .. Len(foot) : Len(most) + p \in 1 .. Len(places) /\ places[Len(most) + p] = foot[p]
      /\ \A p \in 1 .. Len(places) :
           \/ p \in 1 .. Len(most)
           \/ p - Len(most) \in 1 .. Len(foot) /\ p = Len(most) + (p - Len(most)) /\ places[p] = foot[p - Len(most)]
  <2>1. /\ most \o foot \in Seq(T) /\ Len(most) \in Nat /\ Len(most \o foot) = Len(most) + Len(foot)
        /\ \A p \in 1 .. Len(most) : p \in 1 .. Len(most \o foot) /\ (most \o foot)[p] = most[p]
        /\ \A p \in 1 .. Len(foot) : Len(most) + p \in 1 .. Len(most \o foot) /\ (most \o foot)[Len(most) + p] = foot[p]
        /\ \A p \in 1 .. Len(most \o foot) :
             \/ p \in 1 .. Len(most)
             \/ /\ p - Len(most) \in 1 .. Len(foot) /\ p = Len(most) + (p - Len(most))
                /\ (most \o foot)[p] = foot[p - Len(most)]
    <3>1. most \in Seq(T) /\ foot \in Seq(T)
      BY <1>3, <1>7
    <3> QED BY <3>1, ConcatHas
  <2> QED BY <1>5, <2>1
<1>9. \A p \in 1 .. H : p \in 1 .. Len(places) /\ places[p] = head[p]
  BY <1>6, <1>7, <1>8 DEF most
<1>10. \A p \in 1 .. F : H + p \in 1 .. Len(places) /\ places[H + p] = flow[p]
  BY <1>6, <1>7, <1>8 DEF most
<1>11. \A p \in 1 .. Len(foot) : H + F + p \in 1 .. Len(places) /\ places[H + F + p] = foot[p]
  BY <1>7, <1>8
<1>12. ASSUME NEW p \in 1 .. Len(places)
       PROVE  \/ p \in 1 .. H
              \/ \E j \in 1 .. F : p = H + j
              \/ \E j \in 1 .. Len(foot) : p = H + F + j
  <2>1. p \in 1 .. Len(most) \/ \E j \in 1 .. Len(foot) : p = Len(most) + j
    BY <1>8
  <2>2. CASE p \in 1 .. Len(most)
    BY <1>6, <2>2 DEF most
  <2>3. CASE p \notin 1 .. Len(most)
    BY <1>7, <2>1, <2>3
  <2> QED BY <2>2, <2>3
<1> HIDE DEF H, F
<1>13. H \in Nat /\ F \in Nat
  BY <1>2, <1>4 DEF H, F
<1>14. ASSUME NEW j \in 1 .. H, head[j] \notin Footers(page) PROVE order[head[j]] = j
  <2>1. head[j] \in Headers(page) /\ head[j] \in T
    BY <1>1, <1>2 DEF H
  <2>2. j \in 1 .. Len(places) /\ places[j] = head[j]
    BY <1>9
  <2>3. ASSUME NEW p \in 1 .. Len(places), places[p] = head[j] PROVE p <= j
    <3>1. CASE p \in 1 .. H
      BY <1>2, <1>9, <2>3, <3>1 DEF H
    <3>2. CASE \E i \in 1 .. F : p = H + i
      BY <1>1, <1>4, <1>10, <2>1, <2>3, <3>2 DEF F
    <3>3. CASE \E i \in 1 .. Len(foot) : p = H + F + i
      BY <1>3, <1>11, <1>14, <2>3, <3>3
    <3> QED BY <1>12, <3>1, <3>2, <3>3
  <2> DEFINE b == head[j]
  <2>4. b \in T /\ places[j] = b /\ \A p \in 1 .. Len(places) : places[p] = b => p <= j
    BY <2>1, <2>2, <2>3
  <2> HIDE DEF b
  <2>5. ReadingOrder(page)[b] = j
    BY <2>2, <2>4, LastPlace DEF T, places
  <2> QED BY <2>5 DEF b
<1>15. ASSUME NEW j \in 1 .. F PROVE order[flow[j]] = H + j
  <2>1. flow[j] \in Flow(page) /\ flow[j] \in T
    BY <1>1, <1>4 DEF F
  <2>2. H + j \in 1 .. Len(places) /\ places[H + j] = flow[j]
    BY <1>10
  <2>3. ASSUME NEW p \in 1 .. Len(places), places[p] = flow[j] PROVE p <= H + j
    <3>1. CASE p \in 1 .. H
      BY <1>1, <1>2, <1>9, <2>1, <2>3, <3>1 DEF H
    <3>2. CASE \E i \in 1 .. F : p = H + i
      BY <1>4, <1>10, <1>13, <2>3, <3>2 DEF F
    <3>3. CASE \E i \in 1 .. Len(foot) : p = H + F + i
      BY <1>1, <1>3, <1>11, <2>1, <2>3, <3>3
    <3> QED BY <1>12, <3>1, <3>2, <3>3
  <2> DEFINE b == flow[j]
             pos == H + j
  <2>4. b \in T /\ pos \in 1 .. Len(places) /\ places[pos] = b /\ \A p \in 1 .. Len(places) : places[p] = b => p <= pos
    BY <2>1, <2>2, <2>3
  <2> HIDE DEF b, pos
  <2>5. ReadingOrder(page)[b] = pos
    BY <2>4, LastPlace DEF T, places
  <2> QED BY <2>5 DEF b, pos
<1>16. ASSUME NEW j \in 1 .. Len(foot) PROVE order[foot[j]] = H + F + j
  <2>1. foot[j] \in Footers(page) /\ foot[j] \in T
    BY <1>1, <1>3
  <2>2. H + F + j \in 1 .. Len(places) /\ places[H + F + j] = foot[j]
    BY <1>11
  <2>3. ASSUME NEW p \in 1 .. Len(places), places[p] = foot[j] PROVE p <= H + F + j
    <3>1. CASE p \in 1 .. H
      BY <1>13, <3>1
    <3>2. CASE \E i \in 1 .. F : p = H + i
      BY <1>13, <3>2
    <3>3. CASE \E i \in 1 .. Len(foot) : p = H + F + i
      BY <1>3, <1>11, <1>13, <2>3, <3>3
    <3> QED BY <1>12, <3>1, <3>2, <3>3
  <2> DEFINE b == foot[j]
             pos == H + F + j
  <2>4. b \in T /\ pos \in 1 .. Len(places) /\ places[pos] = b /\ \A p \in 1 .. Len(places) : places[p] = b => p <= pos
    BY <2>1, <2>2, <2>3
  <2> HIDE DEF b, pos
  <2>5. ReadingOrder(page)[b] = pos
    BY <2>4, LastPlace DEF T, places
  <2> QED BY <2>5 DEF b, pos
<1> HIDE DEF order
<1>17. \A b \in Headers(page) \ Footers(page) : \E j \in 1 .. H : head[j] = b /\ order[b] = j
  BY <1>2, <1>14 DEF H
<1>18. \A b \in Flow(page) : \E j \in 1 .. F : flow[j] = b /\ order[b] = H + j
  BY <1>4, <1>15 DEF F
<1>19. \A b \in Footers(page) : \E j \in 1 .. Len(foot) : foot[j] = b /\ order[b] = H + F + j
  BY <1>3, <1>16
<1>20. \A b \in Headers(page) \ Footers(page) : order[b] \in 1 .. H
  BY <1>17
<1>21. \A b \in Flow(page) : order[b] \in H + 1 .. H + F
  BY <1>13, <1>18
<1>22. \A b \in Footers(page) : order[b] > H + F
  BY <1>3, <1>13, <1>19
<1>23. ASSUME NEW a \in Headers(page) \ Footers(page), NEW b \in Headers(page) \ Footers(page), Above(a, b)
       PROVE  order[a] < order[b]
  BY <1>2, <1>17, <1>23 DEF H
<1>24. ASSUME NEW a \in Footers(page), NEW b \in Footers(page), Above(a, b)
       PROVE  order[a] < order[b]
  <2>1. PICK i \in 1 .. Len(foot) : foot[i] = a /\ order[a] = H + F + i
    BY <1>19
  <2>2. PICK j \in 1 .. Len(foot) : foot[j] = b /\ order[b] = H + F + j
    BY <1>19
  <2>3. i < j
    BY <1>3, <1>24, <2>1, <2>2
  <2> QED BY <1>13, <2>1, <2>2, <2>3
<1>25. \A c \in Columns(Flow(page)) : c \in SUBSET Flow(page)
  BY <1>1, ColumnsAre DEF T
<1>26. ASSUME NEW c \in Columns(Flow(page)), NEW a \in c, NEW b \in c, Above(a, b)
       PROVE  order[a] < order[b]
  <2>1. a \in Flow(page) /\ b \in Flow(page)
    BY <1>25
  <2>2. PICK i \in 1 .. F : flow[i] = a /\ order[a] = H + i
    BY <1>18, <2>1
  <2>3. PICK j \in 1 .. F : flow[j] = b /\ order[b] = H + j
    BY <1>18, <2>1
  <2>4. i < j
    BY <1>4, <1>26, <2>2, <2>3 DEF F
  <2> QED BY <1>13, <2>2, <2>3, <2>4
<1>27. ASSUME NEW c \in Columns(Flow(page)), NEW d \in Columns(Flow(page)), NEW a \in c, NEW b \in d,
              FirstColumn(page, c, d)
       PROVE  order[a] < order[b]
  <2>1. a \in Flow(page) /\ b \in Flow(page)
    BY <1>25
  <2>2. PICK i \in 1 .. F : flow[i] = a /\ order[a] = H + i
    BY <1>18, <2>1
  <2>3. PICK j \in 1 .. F : flow[j] = b /\ order[b] = H + j
    BY <1>18, <2>1
  <2>4. i < j
    BY <1>4, <1>27, <2>2, <2>3 DEF F
  <2> QED BY <1>13, <2>2, <2>3, <2>4
<1>28. Zones(page, order, H, F)
  BY <1>20, <1>21, <1>22, <1>23, <1>24, <1>26, <1>27 DEF Zones
<1> QED
  BY <1>13, <1>28 DEF order

\* Two blocks far apart on a page with none between stand in two columns, and
\* that of the left one is first from the left when the two stand apart.
LEMMA ColumnsApart ==
  ASSUME NEW page \in Leaves \union Plates, NEW a \in Flow(page), NEW b \in Flow(page),
         Center(b) - Center(a) > 2 * ColumnGap, \A x \in Flow(page) : Center(x) \in {Center(a), Center(b)},
         \A x, y \in Flow(page) : Center(x) = Center(a) /\ Center(y) = Center(b) => x.x1 <= y.x0 \/ y.x1 <= x.x0
  PROVE  \E c, d \in Columns(Flow(page)) :
           a \in c /\ b \in d /\ (Left(c) < Left(d) \/ (Left(c) = Left(d) /\ Right(c) < Right(d)))
<1> DEFINE S == Flow(page)
           gap == 2 * ColumnGap
           gapAfter == {l \in S : \A x \in S : Center(x) > Center(l) => Center(x) - Center(l) > 2 * ColumnGap}
           column(y) == {x \in S : \A l \in gapAfter : (Center(y) <= Center(l)) <=> (Center(x) <= Center(l))}
           c == column(a)
           d == column(b)
<1>1. S \in SUBSET Blocks(page)
  BY DEF Flow
<1>2. Columns(S) = {column(y) : y \in S}
  BY DEF Columns
<1>3. \A x \in S : x.x0 \in Int /\ x.x1 \in Int /\ x.x0 <= x.x1 /\ Center(x) \in Int /\ Center(x) = x.x0 + x.x1
  BY <1>1, PageBlocks DEF Center
<1>4. Center(a) < Center(b)
  BY <1>3 DEF ColumnGap
<1>5. a \in gapAfter
  BY <1>3
<1>6. a \in c /\ b \in d /\ c \in SUBSET S /\ d \in SUBSET S /\ c \in Columns(S) /\ d \in Columns(S)
  BY <1>2
<1>7. (\A x \in c : Center(x) = Center(a)) /\ (\A x \in d : Center(x) = Center(b))
  <2>1. ASSUME NEW x \in c PROVE Center(x) = Center(a)
    <3>1. Center(x) <= Center(a) /\ x \in S
      BY <1>3, <1>5
    <3> HIDE DEF c
    <3> QED BY <1>3, <1>4, <3>1
  <2>2. ASSUME NEW x \in d PROVE Center(x) = Center(b)
    <3>1. ~(Center(x) <= Center(a)) /\ x \in S
      BY <1>3, <1>4, <1>5
    <3> HIDE DEF d
    <3> QED BY <1>3, <3>1
  <2> QED BY <2>1, <2>2
<1> HIDE DEF gapAfter, c, d
<1>8. ASSUME NEW x \in c, NEW y \in d PROVE x.x0 <= y.x0
  <2>1. x \in S /\ y \in S /\ Center(x) = Center(a) /\ Center(y) = Center(b)
    BY <1>6, <1>7
  <2>2. x.x1 <= y.x0 \/ y.x1 <= x.x0
    BY <2>1
  <2> HIDE DEF S
  <2> QED BY <1>3, <1>4, <2>1, <2>2
<1>9. c \in SUBSET Blocks(page) /\ c # {} /\ d \in SUBSET Blocks(page) /\ d # {}
  BY <1>1, <1>6
<1>10. /\ Left(c) \in Int /\ Right(c) \in Int /\ \E x \in c : x.x1 = Right(c)
       /\ \A x \in c : Left(c) <= x.x0 /\ x.x1 <= Right(c)
  BY <1>9, ColumnEdges
<1>11. /\ Left(d) \in Int /\ Right(d) \in Int /\ \E x \in d : x.x0 = Left(d)
       /\ \A x \in d : Left(d) <= x.x0 /\ x.x1 <= Right(d)
  BY <1>9, ColumnEdges
<1>12. PICK x \in c : x.x1 = Right(c)
  BY <1>10
<1>13. PICK y \in d : y.x0 = Left(d)
  BY <1>11
<1>14. /\ x.x0 \in Int /\ x.x1 \in Int /\ x.x0 + x.x1 = Center(a)
       /\ y.x0 \in Int /\ y.x1 \in Int /\ y.x0 + y.x1 = Center(b)
       /\ Center(a) \in Int /\ Center(b) \in Int
  BY <1>3, <1>6, <1>7
<1>15. Left(c) <= x.x0 /\ x.x0 <= y.x0 /\ y.x1 <= Right(d)
  BY <1>8, <1>10, <1>11
<1>16. Left(c) < Left(d) \/ (Left(c) = Left(d) /\ Right(c) < Right(d))
  BY <1>4, <1>10, <1>11, <1>12, <1>13, <1>14, <1>15
<1> QED
  BY <1>6, <1>16

\* What stands wholly in a band has the region of the band.
LEMMA BandRegions ==
  ASSUME NEW page, NEW b, b.y0 \in Int, b.y1 \in Int
  PROVE  /\ Region(page, b) = "header" <=> b.y1 <= HeaderBand
         /\ Region(page, b) = "footer" <=> b.y1 > HeaderBand /\ b.y0 >= FooterBand
<1>1. HeaderBand \in Int /\ FooterBand \in Int
  BY DEF HeaderBand, FooterBand
<1>2. CASE b.y1 <= HeaderBand
  <2>1. ~(b.y1 > HeaderBand)
    BY <1>1, <1>2
  <2>2. Region(page, b) = "header"
    BY <1>2, <2>1 DEF Region
  <2> QED BY <1>2, <2>1, <2>2
<1>3. CASE b.y1 > HeaderBand /\ b.y0 >= FooterBand
  <2>1. ~(b.y1 <= HeaderBand)
    BY <1>1, <1>3
  <2>2. Region(page, b) = "footer"
    BY <1>3, <2>1 DEF Region
  <2> QED BY <1>3, <2>1, <2>2
<1>4. CASE ~(b.y1 <= HeaderBand) /\ ~(b.y1 > HeaderBand /\ b.y0 >= FooterBand)
  <2>1. Region(page, b) \in {"unknown", "margin", "footnote", "main"}
    BY <1>4 DEF Region
  <2> QED BY <1>4, <2>1
<1> QED
  BY <1>2, <1>3, <1>4

\* Every page is read in order.
LEMMA PageIsRead ==
  ASSUME NEW page \in Leaves \union Plates
  PROVE  ReadsInOrder(page)
<1> DEFINE order == ReadingOrder(page)
           flow == Flow(page)
           first(a, b) == IF Direction(page) = "rtl" THEN Center(a) - Center(b) > 2 * ColumnGap
                                                      ELSE Center(b) - Center(a) > 2 * ColumnGap
           alone(a, b) == \A c \in flow : Center(c) \in {Center(a), Center(b)}
           apart(a, b) == \A c, d \in flow : Center(c) = Center(a) /\ Center(d) = Center(b) => c.x1 <= d.x0 \/ d.x1 <= c.x0
<1>1. PICK H \in Nat, F \in Nat : Zones(page, order, H, F)
  BY ZonesAre
<1>2. /\ \A b \in Blocks(page) : order[b] \in Int
      /\ \A a, b \in Blocks(page) : order[a] = order[b] => a = b
  BY ReadingOrderIs
<1> HIDE DEF order
<1>3. flow \in SUBSET Blocks(page)
  BY DEF Flow
<1>4. \A b \in Blocks(page) : b.x0 \in Int /\ b.y0 \in Int /\ b.x1 \in Int /\ b.y1 \in Int /\ b.y0 <= b.y1
  BY PageBlocks
<1>5. ASSUME NEW a \in flow, NEW b \in flow, Center(a) = Center(b), a.y0 < b.y0 PROVE order[a] < order[b]
  <2>1. PICK c \in Columns(flow) : a \in c
    BY <1>3, ColumnsAre
  <2>2. b \in c
    BY <1>3, <1>5, <2>1, ColumnsShareNone
  <2>3. Above(a, b)
    BY <1>5 DEF Above
  <2> QED BY <1>1, <2>1, <2>2, <2>3 DEF Zones
<1>6. ASSUME NEW a \in flow, NEW b \in flow, first(a, b), alone(a, b), apart(a, b) PROVE order[a] < order[b]
  <2>1. \E c, d \in Columns(flow) : a \in c /\ b \in d /\ FirstColumn(page, c, d)
    <3>1. CASE Direction(page) = "rtl"
      <4>1. /\ Center(a) - Center(b) > 2 * ColumnGap /\ \A x \in flow : Center(x) \in {Center(b), Center(a)}
            /\ \A x, y \in flow : Center(x) = Center(b) /\ Center(y) = Center(a) => x.x1 <= y.x0 \/ y.x1 <= x.x0
        BY <1>6, <3>1
      <4>2. PICK d \in Columns(flow), c \in Columns(flow) :
              b \in d /\ a \in c /\ (Left(d) < Left(c) \/ (Left(d) = Left(c) /\ Right(d) < Right(c)))
        BY <4>1, ColumnsApart
      <4>3. FirstColumn(page, c, d)
        BY <3>1, <4>2 DEF FirstColumn
      <4> QED BY <4>2, <4>3
    <3>2. CASE Direction(page) # "rtl"
      <4>1. /\ Center(b) - Center(a) > 2 * ColumnGap /\ \A x \in flow : Center(x) \in {Center(a), Center(b)}
            /\ \A x, y \in flow : Center(x) = Center(a) /\ Center(y) = Center(b) => x.x1 <= y.x0 \/ y.x1 <= x.x0
        BY <1>6, <3>2
      <4>2. PICK c \in Columns(flow), d \in Columns(flow) :
              a \in c /\ b \in d /\ (Left(c) < Left(d) \/ (Left(c) = Left(d) /\ Right(c) < Right(d)))
        BY <4>1, ColumnsApart
      <4>3. FirstColumn(page, c, d)
        BY <3>2, <4>2 DEF FirstColumn
      <4> QED BY <4>2, <4>3
    <3> QED BY <3>1, <3>2
  <2> QED BY <1>1, <2>1 DEF Zones
<1>7. ASSUME NEW b \in Blocks(page)
      PROVE  \/ b \in Headers(page) \ Footers(page) /\ order[b] <= H
             \/ b \in flow /\ H < order[b] /\ order[b] <= H + F
             \/ b \in Footers(page) /\ H + F < order[b]
  <2>1. b \in Headers(page) \ Footers(page) \/ b \in flow \/ b \in Footers(page)
    BY DEF Flow
  <2> QED BY <1>1, <1>2, <2>1 DEF Zones
<1>8. ASSUME NEW a \in Blocks(page), NEW b \in Blocks(page), Region(page, b) = "footer", Region(page, a) # "footer"
      PROVE  order[a] < order[b]
  <2>1. b.y0 >= FooterBand /\ ~(a.y1 > HeaderBand /\ a.y0 >= FooterBand)
    BY <1>4, <1>8, BandRegions
  <2>2. b \in Footers(page)
    BY <1>4, <2>1 DEF Footers, FooterBand
  <2>3. CASE a \in Footers(page)
    <3>1. a.y0 < b.y0
      BY <1>4, <2>1, <2>3 DEF Footers, FooterBand, HeaderBand
    <3> QED BY <1>1, <2>2, <2>3, <3>1 DEF Zones, Above
  <2>4. CASE a \notin Footers(page)
    <3>1. order[a] <= H + F /\ H + F < order[b]
      BY <1>1, <1>2, <1>7, <2>2, <2>4 DEF Zones
    <3> QED BY <1>2, <3>1
  <2> QED BY <2>3, <2>4
<1>9. ASSUME NEW a \in Blocks(page), NEW b \in Blocks(page), Region(page, b) = "header", a.y0 > b.y0
      PROVE  order[b] < order[a]
  <2>1. b.y1 <= HeaderBand
    BY <1>4, <1>9, BandRegions
  <2>2. b \in Headers(page) \ Footers(page)
    BY <1>4, <2>1 DEF Headers, Footers, HeaderBand, FooterBand
  <2>3. CASE a \in Headers(page) \ Footers(page)
    <3>1. Above(b, a)
      BY <1>4, <1>9 DEF Above
    <3> QED BY <1>1, <2>2, <2>3, <3>1 DEF Zones
  <2>4. CASE a \notin Headers(page) \ Footers(page)
    <3>1. order[b] <= H /\ H < order[a]
      BY <1>1, <1>2, <1>7, <2>2, <2>4 DEF Zones
    <3> QED BY <1>2, <3>1
  <2> QED BY <2>3, <2>4
<1> SUFFICES ASSUME NEW a \in Blocks(page), NEW b \in Blocks(page)
             PROVE  /\ order[a] = order[b] => a = b
                    /\ {a, b} \subseteq flow /\ Center(a) = Center(b) /\ a.y1 <= b.y0 /\ a.y0 < b.y0 => order[a] < order[b]
                    /\ {a, b} \subseteq flow /\ first(a, b) /\ alone(a, b) /\ apart(a, b) => order[a] < order[b]
                    /\ Region(page, b) = "footer" /\ Region(page, a) # "footer" => order[a] < order[b]
                    /\ Region(page, b) = "header" /\ Region(page, a) # "header" /\ a.y0 > b.y0 => order[b] < order[a]
  BY DEF ReadsInOrder, order
<1>10. {a, b} \subseteq flow => a \in flow /\ b \in flow
  OBVIOUS
<1> HIDE DEF flow, first, alone, apart
<1> QED
  BY <1>2, <1>5, <1>6, <1>8, <1>9, <1>10

LEMMA MinMaxOfTwo ==
  ASSUME NEW x \in Int, NEW y \in Int
  PROVE  /\ Min({x, y}) \in {x, y} /\ Min({x, y}) <= x /\ Min({x, y}) <= y
         /\ Max({x, y}) \in {x, y} /\ x <= Max({x, y}) /\ y <= Max({x, y})
<1>1. \E m \in {x, y} : \A n \in {x, y} : m <= n
  OBVIOUS
<1>2. \E m \in {x, y} : \A n \in {x, y} : m >= n
  OBVIOUS
<1> DEFINE S == {x, y}
<1>3. \E m \in S : \A n \in S : m <= n
  BY <1>1
<1>4. \E m \in S : \A n \in S : m >= n
  BY <1>2
<1>5. x \in S /\ y \in S
  OBVIOUS
<1> HIDE DEF S
<1>6. Min(S) \in S /\ \A n \in S : Min(S) <= n
  BY <1>3 DEF Min
<1>7. Max(S) \in S /\ \A n \in S : Max(S) >= n
  BY <1>4 DEF Max
<1>8. S \in SUBSET Int
  BY DEF S
<1>9. Min(S) <= x /\ Min(S) <= y /\ x <= Max(S) /\ y <= Max(S)
  BY <1>5, <1>6, <1>7, <1>8
<1> QED
  BY <1>6, <1>7, <1>9 DEF S

\* The first of the widest columns is one of them.
LEMMA DominantIs ==
  ASSUME NEW page \in Leaves \union Plates, NEW S \in SUBSET Blocks(page), S # {}
  PROVE  /\ Dominant(Columns(S)) \in Columns(S)
         /\ \A c \in Columns(S) : Width(c) \in Int /\ Width(c) <= Width(Dominant(Columns(S)))
<1> DEFINE C == Columns(S)
           width == [c \in C |-> Width(c)]
           place == [c \in C |-> Min({Center(b) : b \in c})]
           widest == {c \in C : \A d \in C : Width(d) <= Width(c)}
<1>1. /\ IsFiniteSet(C) /\ C \subseteq SUBSET S /\ C # {}
      /\ \A c \in C : Left(c) \in Int /\ Right(c) \in Int /\ c # {}
  BY ColumnsAre, ColumnsShareNone
<1>2. \A c \in C : Width(c) \in Int /\ width[c] \in Int /\ width[c] = Width(c)
  BY <1>1 DEF Width
<1>3. ASSUME NEW c \in C PROVE place[c] \in Int
  <2> DEFINE center == [b \in c |-> Center(b)]
             centers == {Center(b) : b \in c}
  <2>1. c \in SUBSET Blocks(page) /\ c # {}
    BY <1>1
  <2>2. IsFiniteSet(c) /\ \A b \in c : Center(b) \in Int
    BY <2>1, PageBlocks, FS_Subset DEF Center
  <2>3. centers = {center[b] : b \in c} /\ centers \in SUBSET Int /\ centers # {} /\ place[c] = Min(centers)
    BY <2>1, <2>2
  <2> HIDE DEF center, centers, place
  <2>4. IsFiniteSet(centers)
    BY <2>2, <2>3, ImageFinite
  <2> QED BY <2>3, <2>4, MinMaxAre
<1>4. Dominant(C) = CHOOSE c \in widest : \A d \in widest : Min({Center(b) : b \in c}) <= Min({Center(b) : b \in d})
  BY DEF Dominant
<1>5. \A c \in C : place[c] = Min({Center(b) : b \in c})
  OBVIOUS
<1> HIDE DEF C, width, place
<1>6. \E c \in C : \A d \in C : Width(d) <= Width(c)
  <2> DEFINE widths == {width[c] : c \in C}
  <2>1. IsFiniteSet(widths) /\ widths \in SUBSET Int /\ widths # {}
    <3>1. IsFiniteSet(widths)
      BY <1>1, ImageFinite
    <3> QED BY <1>1, <1>2, <3>1
  <2>2. \A c \in C : width[c] \in widths
    OBVIOUS
  <2>3. \A w \in widths : \E c \in C : w = width[c]
    OBVIOUS
  <2> HIDE DEF widths
  <2>4. Max(widths) \in widths /\ \A w \in widths : w <= Max(widths)
    BY <2>1, MinMaxAre
  <2> QED BY <1>2, <2>2, <2>3, <2>4
<1>7. \E c \in widest : \A d \in widest : place[c] <= place[d]
  <2> DEFINE places == {place[c] : c \in widest}
  <2>1. widest \in SUBSET C /\ widest # {}
    BY <1>6
  <2> HIDE DEF widest
  <2>2. IsFiniteSet(places)
    BY <1>1, <2>1, FS_Subset, ImageFinite
  <2>3. places \in SUBSET Int /\ places # {}
    BY <1>3, <2>1
  <2>4. /\ \A c \in widest : place[c] \in places
        /\ \A p \in places : \E c \in widest : p = place[c]
    OBVIOUS
  <2> HIDE DEF places
  <2>5. Min(places) \in places /\ \A p \in places : Min(places) <= p
    BY <2>2, <2>3, MinMaxAre
  <2> QED BY <2>4, <2>5
<1>8. \E c \in widest : \A d \in widest : Min({Center(b) : b \in c}) <= Min({Center(b) : b \in d})
  BY <1>5, <1>7
<1>9. Dominant(C) \in widest
  BY <1>4, <1>8
<1> QED
  BY <1>2, <1>9 DEF C

\* A block is told to be a gloss by its column.
LEMMA MarginIs ==
  ASSUME NEW page, NEW b \in Body(page), HeaderBand < b.y1, b.y0 < FooterBand, b.y0 \in Int, b.y1 \in Int
  PROVE  /\ Region(page, b) = "margin" => b \in Margins(Columns(Body(page)))
         /\ Region(page, b) \in {"main", "footnote"} => b \notin Margins(Columns(Body(page)))
<1>1. HeaderBand \in Int /\ FooterBand \in Int
  BY DEF HeaderBand, FooterBand
<1>2. ~(b.y1 <= HeaderBand) /\ ~(b.y1 > HeaderBand /\ b.y0 >= FooterBand)
  BY <1>1
<1> DEFINE gloss == b \in Margins(Columns(Body(page)))
           narrow == b.x1 - b.x0 < MinWidth \/ b.y1 - b.y0 < MinHeight
           low == \/ b.y0 > Separator(page)
                  \/ b.y0 >= FootnoteBand /\ 100 * b.size < 85 * MainFont(page)
<1>3. Region(page, b) = IF narrow THEN "unknown" ELSE IF gloss THEN "margin" ELSE IF low THEN "footnote" ELSE "main"
  BY <1>2 DEF Region
<1> HIDE DEF narrow, low
<1>4. CASE gloss
  <2>1. Region(page, b) \in {"unknown", "margin"}
    BY <1>3, <1>4
  <2> QED BY <1>4, <2>1
<1>5. CASE ~gloss
  <2>1. Region(page, b) \in {"unknown", "footnote", "main"}
    BY <1>3, <1>5
  <2> QED BY <1>5, <2>1
<1> QED
  BY <1>4, <1>5

\* The blocks of Margins are those of the narrow columns that share little of
\* their width with the dominant one.
LEMMA MarginsAre ==
  ASSUME NEW columns, NEW b, b \in Margins(columns)
  PROVE  \E c \in columns :
           /\ b \in c /\ c \subseteq Margins(columns)
           /\ 10 * Width(c) < 6 * Width(Dominant(columns))
           /\ 2 * Max({0, Min({Right(c), Right(Dominant(columns))}) - Max({Left(c), Left(Dominant(columns))})})
                < Width(c)
<1> DEFINE apart(c) ==
             /\ 10 * Width(c) < 6 * Width(Dominant(columns))
             /\ 2 * Max({0, Min({Right(c), Right(Dominant(columns))}) - Max({Left(c), Left(Dominant(columns))})})
                  < Width(c)
<1>1. Margins(columns) = UNION {c \in columns : apart(c)}
  BY DEF Margins
<1> HIDE DEF apart
<1>2. PICK c \in columns : b \in c /\ c \subseteq Margins(columns) /\ apart(c)
  BY <1>1
<1> QED
  BY <1>2 DEF apart

\* Every page keeps some of its text, and no gloss of a well-drawn one is taken
\* out of the text it stands in.
LEMMA PageKeepsText ==
  ASSUME NEW page \in Leaves \union Plates
  PROVE  MarginsAreApart(page)
<1> DEFINE body == Body(page)
           C == Columns(body)
           D == Dominant(C)
           margins == {b \in body : Region(page, b) = "margin"}
           text == {b \in body : Region(page, b) \in {"main", "footnote"}}
<1> SUFFICES ASSUME NEW m \in margins
             PROVE  margins # body /\ (WellDrawn(page) => ~ \E b \in text : b.x0 <= m.x0 /\ m.x1 <= b.x1)
  BY DEF MarginsAreApart
<1>1. body \in SUBSET Blocks(page) /\ m \in body /\ body # {}
  BY DEF Body
<1>2. \A b \in body : /\ b.x0 \in Int /\ b.y0 \in Int /\ b.x1 \in Int /\ b.y1 \in Int
                      /\ b.x0 <= b.x1 /\ HeaderBand < b.y1 /\ b.y0 < FooterBand
  <2>1. \A b \in body : b.y1 > HeaderBand /\ b.y0 < FooterBand
    BY DEF Body
  <2>2. \A b \in body : /\ b.x0 \in Int /\ b.y0 \in Int /\ b.x1 \in Int /\ b.y1 \in Int /\ b.x0 <= b.x1
    BY <1>1, PageBlocks
  <2> QED BY <2>1, <2>2 DEF HeaderBand
<1>3. /\ \A b \in margins : b \in Margins(C)
      /\ \A b \in text : b \in body /\ b \notin Margins(C)
  BY <1>2, MarginIs
<1>4. /\ D \in C /\ \A c \in C : Width(c) \in Int
  BY <1>1, DominantIs
<1>5. /\ C \subseteq SUBSET body /\ \A b \in body : \E c \in C : b \in c
      /\ \A c \in C : c # {}
      /\ \A c, d \in C : \A b : b \in c /\ b \in d => c = d
  BY <1>1, ColumnsAre, ColumnsShareNone
<1>6. ASSUME NEW c \in C
      PROVE  /\ Left(c) \in Int /\ Right(c) \in Int /\ Width(c) = Right(c) - Left(c)
             /\ \A b \in c : Left(c) <= b.x0 /\ b.x1 <= Right(c)
  <2>1. c \in SUBSET Blocks(page) /\ c # {}
    BY <1>1, <1>5
  <2> QED BY <2>1, ColumnEdges DEF Width
<1>7. WellDrawn(page) => \A c \in C : \A x \in c : c \subseteq Margins(C) =>
        /\ Width(c) <= 2 * (x.x1 - x.x0)
        /\ \A d \in C \ {D} : ~(d \subseteq Margins(C)) => ~ \E b \in d : b.x0 <= x.x0 /\ x.x1 <= b.x1
  BY DEF WellDrawn
<1> DEFINE shared(c) == Min({Right(c), Right(D)}) - Max({Left(c), Left(D)})
<1>8. \A b \in Margins(C) : \E c \in C :
        b \in c /\ c \subseteq Margins(C) /\ 10 * Width(c) < 6 * Width(D) /\ 2 * Max({0, shared(c)}) < Width(c)
  BY MarginsAre
<1> HIDE DEF body, C, D
<1>9. margins # body
  <2>1. PICK x \in D : x \in body
    BY <1>4, <1>5
  <2>2. x \notin Margins(C)
    <3>1. SUFFICES ASSUME x \in Margins(C) PROVE FALSE
      OBVIOUS
    <3>2. PICK c \in C : x \in c /\ 10 * Width(c) < 6 * Width(D)
      BY <1>8, <3>1
    <3>3. c = D
      BY <1>4, <1>5, <2>1, <3>2
    <3>4. Width(D) \in Int /\ Width(D) >= 0
      BY <1>2, <1>4, <1>6, <2>1
    <3> QED BY <3>2, <3>3, <3>4
  <2> QED BY <1>3, <2>1, <2>2
<1>10. ASSUME WellDrawn(page), NEW b \in text, b.x0 <= m.x0, m.x1 <= b.x1 PROVE FALSE
  <2>1. PICK c \in C : m \in c /\ c \subseteq Margins(C) /\ 2 * Max({0, shared(c)}) < Width(c)
    BY <1>3, <1>8
  <2>2. PICK d \in C : b \in d
    BY <1>3, <1>5
  <2>3. ~(d \subseteq Margins(C))
    BY <1>3, <2>2
  <2>4. d = D
    BY <1>7, <1>10, <2>1, <2>2, <2>3
  <2>5. /\ Left(c) \in Int /\ Right(c) \in Int /\ Left(D) \in Int /\ Right(D) \in Int
        /\ Left(c) <= m.x0 /\ m.x1 <= Right(c) /\ Left(D) <= b.x0 /\ b.x1 <= Right(D)
    BY <1>6, <2>1, <2>2, <2>4
  <2>6. /\ m.x0 \in Int /\ m.x1 \in Int /\ b.x0 \in Int /\ b.x1 \in Int
    BY <1>1, <1>2, <1>3
  <2>7. Width(c) <= 2 * (m.x1 - m.x0) /\ Width(c) \in Int
    BY <1>4, <1>7, <1>10, <2>1
  <2> DEFINE right == Min({Right(c), Right(D)})
             left == Max({Left(c), Left(D)})
  <2>8. right \in Int /\ m.x1 <= right
    <3>1. right \in {Right(c), Right(D)}
      BY <2>5, MinMaxOfTwo
    <3> QED BY <1>10, <2>5, <2>6, <3>1
  <2>9. left \in Int /\ left <= m.x0
    <3>1. left \in {Left(c), Left(D)}
      BY <2>5, MinMaxOfTwo
    <3> QED BY <1>10, <2>5, <2>6, <3>1
  <2>10. shared(c) = right - left
    OBVIOUS
  <2> HIDE DEF right, left, shared
  <2>11. shared(c) \in Int /\ 2 * shared(c) >= Width(c)
    BY <2>6, <2>7, <2>8, <2>9, <2>10
  <2>12. Max({0, shared(c)}) \in Int /\ shared(c) <= Max({0, shared(c)})
    <3> DEFINE x == 0
               y == shared(c)
    <3>1. x \in Int /\ y \in Int
      BY <2>11
    <3> HIDE DEF x, y
    <3>2. Max({x, y}) \in {x, y} /\ y <= Max({x, y})
      BY <3>1, MinMaxOfTwo
    <3>3. Max({x, y}) \in Int /\ y <= Max({x, y})
      BY <3>1, <3>2
    <3> QED BY <3>3 DEF x, y
  <2> DEFINE overlap == Max({0, shared(c)})
             part == shared(c)
             whole == Width(c)
  <2>13. /\ overlap \in Int /\ part \in Int /\ whole \in Int
         /\ 2 * overlap < whole /\ part <= overlap /\ 2 * part >= whole
    BY <2>1, <2>7, <2>11, <2>12
  <2> HIDE DEF overlap, part, whole
  <2> QED BY <2>13
<1> QED
  BY <1>9, <1>10

-----------------------------------------------------------------------------
(* Loops.                                                                  *)

Steps(R, H) == [R -> [H -> R]]

\* What the steps leave, one after the other.
Run(f, step, start, seq) ==
  /\ f = [i \in 0 .. Len(seq) |-> f[i]]
  /\ f[0] = start
  /\ \A i \in 1 .. Len(seq) : f[i] = step[f[i - 1]][seq[i]]

\* A loop comes to an end.
LEMMA LoopOf ==
  ASSUME NEW R, NEW H, NEW step \in Steps(R, H), NEW start \in R, NEW seq \in Seq(H)
  PROVE  \E f : Run(f, step, start, seq) /\ \A i \in 0 .. Len(seq) : f[i] \in R
<1> DEFINE n == Len(seq)
           ends(m) == \E f : f \in [0 .. m -> R] /\ f[0] = start /\ \A i \in 1 .. m : f[i] = step[f[i - 1]][seq[i]]
           good == {m \in 0 .. n : ends(m)}
<1>1. n \in Nat /\ \A i \in 1 .. n : seq[i] \in H
  BY LenProperties, ElementOfSeq
<1>0. step \in [R -> [H -> R]]
  BY DEF Steps
<1> HIDE DEF n
<1>2. 0 \in good
  <2> DEFINE g == [i \in 0 .. 0 |-> start]
  <2>1. g \in [0 .. 0 -> R] /\ g[0] = start
    OBVIOUS
  <2> HIDE DEF g
  <2>2. \A i \in 1 .. 0 : g[i] = step[g[i - 1]][seq[i]]
    OBVIOUS
  <2>3. ends(0)
    BY <2>1, <2>2
  <2> HIDE DEF ends
  <2> QED BY <1>1, <2>3
<1>3. ASSUME NEW m \in 0 .. n - 1, m \in good PROVE m + 1 \in good
  <2>1. PICK g : g \in [0 .. m -> R] /\ g[0] = start /\ \A i \in 1 .. m : g[i] = step[g[i - 1]][seq[i]]
    BY <1>3
  <2>2. m \in Nat /\ m + 1 \in 0 .. n /\ m + 1 \in 1 .. n /\ m \in 0 .. m
    BY <1>1
  <2> DEFINE new == step[g[m]][seq[m + 1]]
             f == [i \in 0 .. m + 1 |-> IF i = m + 1 THEN new ELSE g[i]]
  <2>3. new \in R
    BY <1>0, <1>1, <2>1, <2>2
  <2>4. f \in [0 .. m + 1 -> R] /\ f[0] = start /\ \A i \in 0 .. m : f[i] = g[i]
    <3>1. \A i \in 0 .. m : i # m + 1 /\ i \in 0 .. m + 1
      BY <2>2
    <3>2. \A i \in 0 .. m + 1 : i # m + 1 => i \in 0 .. m
      BY <2>2
    <3> HIDE DEF new
    <3> QED BY <2>1, <2>2, <2>3, <3>1, <3>2
  <2>5. f[m + 1] = new
    BY <2>2
  <2> HIDE DEF f
  <2>6. ASSUME NEW i \in 1 .. m + 1 PROVE f[i] = step[f[i - 1]][seq[i]]
    <3>1. CASE i = m + 1
      <4>1. i - 1 = m /\ f[m] = g[m]
        BY <2>2, <2>4, <3>1
      <4> QED BY <2>5, <3>1, <4>1
    <3>2. CASE i # m + 1
      <4>1. i \in 1 .. m /\ i \in 0 .. m /\ i - 1 \in 0 .. m
        BY <2>2, <3>2
      <4> QED BY <2>1, <2>4, <4>1
    <3> QED BY <3>1, <3>2
  <2>7. ends(m + 1)
    BY <2>4, <2>6
  <2> HIDE DEF ends
  <2> QED BY <2>2, <2>7
<1>4. \A m \in 0 .. n : m \in good
  <2> HIDE DEF good
  <2> QED BY <1>1, <1>2, <1>3, Counting
<1>5. n \in 0 .. n
  BY <1>1
<1>6. PICK f : f \in [0 .. n -> R] /\ f[0] = start /\ \A i \in 1 .. n : f[i] = step[f[i - 1]][seq[i]]
  BY <1>4, <1>5
<1>7. Run(f, step, start, seq) /\ \A i \in 0 .. Len(seq) : f[i] \in R
  BY <1>6 DEF n, Run
<1> QED
  BY <1>7

\* What is in R at the start and stays there at every step is there at the end.
LEMMA LoopStays ==
  ASSUME NEW n \in Nat, NEW f, NEW R, f[0] \in R, \A i \in 1 .. n : f[i - 1] \in R => f[i] \in R
  PROVE  \A i \in 0 .. n : f[i] \in R
<1> DEFINE good == {i \in 0 .. n : f[i] \in R}
<1>1. 0 \in good
  OBVIOUS
<1>2. ASSUME NEW i \in 0 .. n - 1, i \in good PROVE i + 1 \in good
  <2>1. i + 1 \in 1 .. n /\ (i + 1) - 1 = i
    OBVIOUS
  <2> QED BY <1>2, <2>1
<1> HIDE DEF good
<1>3. \A i \in 0 .. n : i \in good
  BY <1>1, <1>2, Counting
<1> QED
  BY <1>3 DEF good

\* The headings of a page and those of a book.
Names == {b.text : b \in UNION {Blocks(page) : page \in Leaves \union Plates}}
HeadingsOf(p) == [level : Levels, name : Names, page : {p}]
OpenSections == [Levels -> [name : Names \union {NoName}, start : Nat \union {NoPage}]]
ClosedSections == [level : Levels, name : Names \union {NoName}, start : Nat \union {NoPage}, end : Int]
Readings == [open : OpenSections, closed : Seq(ClosedSections)]

LEMMA OpensReads ==
  ASSUME NEW p \in Nat, NEW r \in Readings, NEW h \in HeadingsOf(p)
  PROVE  Opens(r, h) \in Readings
<1> DEFINE previous == r.open[h.level]
           open == [r.open EXCEPT ![h.level] = [name |-> h.name, start |-> h.page]]
           section == Closed(h.level, previous, h.page - 1)
<1>1. h.level \in Levels /\ h.name \in Names /\ h.page = p /\ r.open \in OpenSections /\ r.closed \in Seq(ClosedSections)
  BY DEF HeadingsOf, Readings
<1>2. previous.name \in Names \union {NoName} /\ previous.start \in Nat \union {NoPage}
  BY <1>1 DEF OpenSections
<1>3. open \in OpenSections
  BY <1>1 DEF OpenSections
<1>4. section \in ClosedSections
  BY <1>1, <1>2 DEF Closed, ClosedSections
<1> HIDE DEF section
<1>5. Append(r.closed, section) \in Seq(ClosedSections)
  BY <1>1, <1>4, AppendProperties
<1> HIDE DEF open
<1>6. Opens(r, h) = [open |-> open, closed |-> IF previous.start \in {NoPage, h.page} THEN r.closed ELSE Append(r.closed, section)]
  BY DEF Opens, section, open
<1> QED
  BY <1>1, <1>3, <1>5, <1>6 DEF Readings

LEMMA ReadHeadingsIs ==
  ASSUME NEW p \in Nat, NEW r \in Readings, NEW hs \in Seq(HeadingsOf(p))
  PROVE  \E f : /\ f \in [0 .. Len(hs) -> Readings] /\ f[0] = r
                /\ \A i \in 1 .. Len(hs) : hs[i] \in HeadingsOf(p) /\ f[i] = Opens(f[i - 1], hs[i])
                /\ ReadHeadings(r, hs) = f[Len(hs)]
<1> DEFINE R == Readings
           H == HeadingsOf(p)
           n == Len(hs)
           step == [x \in R |-> [h \in H |-> Opens(x, h)]]
<1>1. n \in Nat /\ \A i \in 1 .. n : hs[i] \in H
  BY LenProperties, ElementOfSeq
<1>2. step \in Steps(R, H)
  BY OpensReads DEF Steps
<1>3. \A x \in R, h \in H : step[x][h] = Opens(x, h)
  OBVIOUS
<1> HIDE DEF step, R, H
<1>4. PICK f : Run(f, step, r, hs) /\ \A i \in 0 .. n : f[i] \in R
  <2>1. r \in R /\ hs \in Seq(H)
    BY DEF R, H
  <2> QED BY <1>2, <2>1, LoopOf
<1>5. /\ f = [i \in 0 .. n |-> f[i]] /\ f[0] = r
      /\ \A i \in 1 .. n : f[i] = Opens(f[i - 1], hs[i])
  <2>1. /\ f = [i \in 0 .. n |-> f[i]] /\ f[0] = r
        /\ \A i \in 1 .. n : f[i] = step[f[i - 1]][hs[i]]
    BY <1>4 DEF Run
  <2>2. ASSUME NEW i \in 1 .. n PROVE f[i] = Opens(f[i - 1], hs[i])
    <3>1. i - 1 \in 0 .. n
      BY <1>1
    <3> QED BY <1>1, <1>3, <1>4, <2>1, <3>1
  <2> QED BY <2>1, <2>2
<1>6. f = [i \in 0 .. n |-> IF i = 0 THEN r ELSE Opens(f[i - 1], hs[i])]
  <2>1. \A i \in 0 .. n : i # 0 => i \in 1 .. n
    BY <1>1
  <2> QED BY <1>4, <1>5, <2>1
<1> DEFINE g == CHOOSE g : g = [i \in 0 .. n |-> IF i = 0 THEN r ELSE Opens(g[i - 1], hs[i])]
<1>7. g = [i \in 0 .. n |-> IF i = 0 THEN r ELSE Opens(g[i - 1], hs[i])]
  BY <1>6
<1>8. ReadHeadings(r, hs) = g[n]
  BY DEF ReadHeadings, Loop
<1> HIDE DEF g
<1>9. g[0] = r /\ \A i \in 1 .. n : g[i] = Opens(g[i - 1], hs[i])
  BY <1>1, <1>7
<1>10. \A i \in 0 .. n : g[i] \in R
  <2>1. \A i \in 1 .. n : g[i - 1] \in R => g[i] \in R
    BY <1>1, <1>9, OpensReads DEF R, H
  <2> QED BY <1>1, <1>9, <2>1, LoopStays DEF R
<1>11. g \in [0 .. n -> R]
  BY <1>7, <1>10
<1> QED
  BY <1>1, <1>8, <1>9, <1>11 DEF R, H

LEMMA HeadingLevelIs ==
  ASSUME NEW page \in Leaves \union Plates, NEW b \in Blocks(page), NEW font
  PROVE  /\ HeadingLevel(b, font) \in Levels \union {"body"}
         /\ HeadingLevel(b, font) # "body" => b.letters > 0
<1>1. b.letters \in Nat /\ b.word \in LabelLevels \union {"none"}
  BY PageBlocks
<1> DEFINE short == b.letters \in 1 .. MaxHeadingLength
           small == font = 0 \/ 100 * b.size < 108 * font
<1>2. HeadingLevel(b, font) = IF ~short \/ small THEN "body" ELSE IF b.word = "none" THEN "topic" ELSE b.word
  BY DEF HeadingLevel
<1>3. short => b.letters > 0
  BY <1>1
<1> HIDE DEF short, small
<1> QED
  BY <1>1, <1>2, <1>3 DEF Levels, LabelLevels

\* The headings that are kept, block by block.
HeadingRun(f, page, body, p) ==
  /\ f[0] = <<>> /\ Headings(page, p) = f[Len(body)]
  /\ \A i \in 0 .. Len(body) : f[i] \in Seq(HeadingsOf(p))
  /\ \A i \in 1 .. Len(body) :
       /\ body[i] \in Blocks(page)
       /\ f[i] = IF HeadingLevel(body[i], DominantFont(body)) = "body" THEN f[i - 1]
                 ELSE Append(f[i - 1], [level |-> HeadingLevel(body[i], DominantFont(body)),
                                        name |-> body[i].text, page |-> p])

LEMMA HeadingsAre ==
  ASSUME NEW page \in Leaves \union Plates, NEW p \in Nat, NEW body, body = Sorted(Flow(page), Above)
  PROVE  /\ body \in Seq(Blocks(page))
         /\ Headings(page, p) \in Seq(HeadingsOf(p))
         /\ \E f : HeadingRun(f, page, body, p)
<1> DEFINE H == Blocks(page)
           R == Seq(HeadingsOf(p))
           level(b) == HeadingLevel(b, DominantFont(body))
           add(headings, b) == IF level(b) = "body" THEN headings
                               ELSE Append(headings, [level |-> level(b), name |-> b.text, page |-> p])
           n == Len(body)
           step == [x \in R |-> [b \in H |-> add(x, b)]]
<1>1. body \in Seq(H)
  <2>1. Flow(page) \in SUBSET H
    BY DEF Flow
  <2>2. body \in Seq(Flow(page))
    BY <2>1, FromTheTop DEF InOrder
  <2> QED BY <2>1, <2>2, SeqMonotonic
<1>2. n \in Nat /\ \A i \in 1 .. n : body[i] \in H
  BY <1>1, LenProperties, ElementOfSeq
<1>3. ASSUME NEW x \in R, NEW b \in H PROVE add(x, b) \in R
  <2>1. level(b) \in Levels \union {"body"} /\ b.text \in Names
    BY HeadingLevelIs DEF Names
  <2> DEFINE heading == [level |-> level(b), name |-> b.text, page |-> p]
  <2>2. level(b) # "body" => heading \in HeadingsOf(p)
    BY <2>1 DEF HeadingsOf
  <2> HIDE DEF heading
  <2>3. level(b) # "body" => Append(x, heading) \in R
    BY <2>2, AppendProperties
  <2> QED BY <2>3 DEF heading
<1> HIDE DEF add
<1>4. step \in Steps(R, H)
  BY <1>3 DEF Steps
<1>5. \A x \in R, b \in H : step[x][b] = add(x, b)
  OBVIOUS
<1>6. <<>> \in R
  BY EmptySeq
<1> HIDE DEF step, R, H
<1>7. PICK f : Run(f, step, <<>>, body) /\ \A i \in 0 .. n : f[i] \in R
  BY <1>1, <1>4, <1>6, LoopOf
<1>8. f = [i \in 0 .. n |-> IF i = 0 THEN <<>> ELSE add(f[i - 1], body[i])]
  <2>1. /\ f = [i \in 0 .. n |-> f[i]] /\ f[0] = <<>>
        /\ \A i \in 1 .. n : f[i] = step[f[i - 1]][body[i]]
    BY <1>7 DEF Run
  <2>2. ASSUME NEW i \in 1 .. n PROVE f[i] = add(f[i - 1], body[i])
    <3>1. i - 1 \in 0 .. n
      BY <1>2
    <3> QED BY <1>2, <1>5, <1>7, <2>1, <3>1
  <2>3. \A i \in 0 .. n : i # 0 => i \in 1 .. n
    BY <1>2
  <2> QED BY <2>1, <2>2, <2>3
<1> DEFINE g == CHOOSE g : g = [i \in 0 .. n |-> IF i = 0 THEN <<>> ELSE add(g[i - 1], body[i])]
<1>9. g = [i \in 0 .. n |-> IF i = 0 THEN <<>> ELSE add(g[i - 1], body[i])]
  BY <1>8
<1>10. Headings(page, p) = g[n]
  BY DEF Headings, Loop, add
<1> HIDE DEF g
<1>11. g[0] = <<>> /\ \A i \in 1 .. n : g[i] = add(g[i - 1], body[i])
  BY <1>2, <1>9
<1>12. \A i \in 0 .. n : g[i] \in R
  <2>1. \A i \in 1 .. n : g[i - 1] \in R => g[i] \in R
    BY <1>2, <1>3, <1>11
  <2> QED BY <1>2, <1>6, <1>11, <2>1, LoopStays
<1>13. Headings(page, p) \in R
  BY <1>2, <1>10, <1>12
<1>14. HeadingRun(g, page, body, p)
  BY <1>2, <1>10, <1>11, <1>12 DEF R, H, add, HeadingRun
<1> QED
  BY <1>1, <1>13, <1>14 DEF R, H

UnitsOf(p) == [level : Levels \union {"body"}, name : Names, page : {p}, sentences : Seq(Nat), ends : BOOLEAN]

\* The units of a page, block by block.
LEMMA PageUnitsAre ==
  ASSUME NEW page \in Leaves \union Plates, NEW p \in Nat, NEW main \in Seq(Blocks(page))
  PROVE  /\ PageUnits(main, p) \in Seq(UnitsOf(p))
         /\ \E f : /\ f[0] = <<>> /\ PageUnits(main, p) = f[Len(main)]
                   /\ \A i \in 0 .. Len(main) : f[i] \in Seq(UnitsOf(p))
                   /\ \A i \in 1 .. Len(main) :
                        f[i] = IF main[i].letters > 0
                               THEN Append(f[i - 1], [level |-> HeadingLevel(main[i], DominantFont(main)),
                                                      name |-> main[i].text, page |-> p,
                                                      sentences |-> main[i].sentences, ends |-> main[i].ends])
                               ELSE f[i - 1]
<1> DEFINE H == Blocks(page)
           R == Seq(UnitsOf(p))
           unit(b) == [level |-> HeadingLevel(b, DominantFont(main)), name |-> b.text, page |-> p,
                       sentences |-> b.sentences, ends |-> b.ends]
           add(seen, b) == IF b.letters > 0 THEN Append(seen, unit(b)) ELSE seen
           n == Len(main)
           step == [x \in R |-> [b \in H |-> add(x, b)]]
<1>1. main \in Seq(H)
  OBVIOUS
<1>2. n \in Nat /\ \A i \in 1 .. n : main[i] \in H
  BY <1>1, LenProperties, ElementOfSeq
<1>3. ASSUME NEW x \in R, NEW b \in H PROVE add(x, b) \in R
  <2>1. /\ HeadingLevel(b, DominantFont(main)) \in Levels \union {"body"} /\ b.text \in Names
        /\ b.sentences \in Seq(Nat) /\ b.ends \in BOOLEAN
    BY HeadingLevelIs, PageBlocks DEF Names
  <2>2. unit(b) \in UnitsOf(p)
    BY <2>1 DEF UnitsOf
  <2> HIDE DEF unit
  <2>3. Append(x, unit(b)) \in R
    BY <2>2, AppendProperties
  <2> QED BY <2>3
<1> HIDE DEF add
<1>4. step \in Steps(R, H)
  BY <1>3 DEF Steps
<1>5. \A x \in R, b \in H : step[x][b] = add(x, b)
  OBVIOUS
<1>6. <<>> \in R
  BY EmptySeq
<1> HIDE DEF step, R, H
<1>7. PICK f : Run(f, step, <<>>, main) /\ \A i \in 0 .. n : f[i] \in R
  BY <1>1, <1>4, <1>6, LoopOf
<1>8. f = [i \in 0 .. n |-> IF i = 0 THEN <<>> ELSE add(f[i - 1], main[i])]
  <2>1. /\ f = [i \in 0 .. n |-> f[i]] /\ f[0] = <<>>
        /\ \A i \in 1 .. n : f[i] = step[f[i - 1]][main[i]]
    BY <1>7 DEF Run
  <2>2. ASSUME NEW i \in 1 .. n PROVE f[i] = add(f[i - 1], main[i])
    <3>1. i - 1 \in 0 .. n
      BY <1>2
    <3> QED BY <1>2, <1>5, <1>7, <2>1, <3>1
  <2>3. \A i \in 0 .. n : i # 0 => i \in 1 .. n
    BY <1>2
  <2> QED BY <2>1, <2>2, <2>3
<1> DEFINE g == CHOOSE g : g = [i \in 0 .. n |-> IF i = 0 THEN <<>> ELSE add(g[i - 1], main[i])]
<1>9. g = [i \in 0 .. n |-> IF i = 0 THEN <<>> ELSE add(g[i - 1], main[i])]
  BY <1>8
<1>10. PageUnits(main, p) = g[n]
  BY DEF PageUnits, Loop, add
<1> HIDE DEF g
<1>11. g[0] = <<>> /\ \A i \in 1 .. n : g[i] = add(g[i - 1], main[i])
  BY <1>2, <1>9
<1>12. \A i \in 0 .. n : g[i] \in R
  <2>1. \A i \in 1 .. n : g[i - 1] \in R => g[i] \in R
    BY <1>2, <1>3, <1>11
  <2> QED BY <1>2, <1>6, <1>11, <2>1, LoopStays
<1>13. PageUnits(main, p) \in R
  BY <1>2, <1>10, <1>12
<1> QED
  BY <1>2, <1>10, <1>11, <1>12, <1>13 DEF R, H, add

-----------------------------------------------------------------------------
(* The types of what is read.                                              *)

Units == [level : Levels \union {"body"}, name : Names, page : Nat, sentences : Seq(Nat), ends : BOOLEAN]

\* What is kept of a book is what its stages hand on: the pages, the sections,
\* the names on every page and the units of the text (_detect_structures,
\* _collect_units).
BookTypeInv ==
  /\ pages \in Seq(Leaves \union Plates)
  /\ reading \in Readings
  /\ labels \in Seq([LabelLevels -> Names \union {NoName}]) /\ Len(labels) = Len(pages)
  /\ units \in Seq(Units)

LEMMA InitBookTypeInv == Init => BookTypeInv
<1> SUFFICES ASSUME Init PROVE BookTypeInv
  OBVIOUS
<1>1. NoSection \in [name : Names \union {NoName}, start : Nat \union {NoPage}]
  BY DEF NoSection
<1>2. [level \in Levels |-> NoSection] \in OpenSections
  BY <1>1 DEF OpenSections
<1>3. <<>> \in Seq(ClosedSections) /\ <<>> \in Seq(Leaves \union Plates) /\ <<>> \in Seq(Units)
      /\ <<>> \in Seq([LabelLevels -> Names \union {NoName}])
  BY EmptySeq
<1>4. reading \in Readings
  BY <1>2, <1>3 DEF Init, Readings
<1> QED
  BY <1>3, <1>4 DEF Init, BookTypeInv

\* A page that is read is one of those that may follow.
LEMMA FollowingPages ==
  /\ Following \subseteq Leaves \union Plates
  /\ pages # <<>> => \A page \in Following : page \in Leaves /\ pages[1] \in Leaves
<1> DEFINE more == Len(pages) \in 1 .. MaxPages - 1 /\ pages[1] \in BookPages
           fitting == {page \in BookPages : BlocksRead + Len(page.blocks) <= MaxBlocks}
<1>1. Following = IF pages = <<>> THEN BookPages \union OwnPages ELSE IF more THEN fitting ELSE {}
  BY DEF Following
<1>2. fitting \subseteq BookPages
  OBVIOUS
<1>3. more => pages[1] \in BookPages
  OBVIOUS
<1> HIDE DEF more, fitting
<1> QED
  BY <1>1, <1>2, <1>3 DEF BookPages, OwnPages

\* What reading a page does, in terms of its number.
LEMMA ReadPageDoes ==
  ASSUME BookTypeInv, NEW page \in Leaves \union Plates, ReadPage(page)
  PROVE  /\ Len(pages) \in Nat
         /\ pages' = Append(pages, page) /\ pages' \in Seq(Leaves \union Plates) /\ Len(pages') = Len(pages) + 1
         /\ Headings(page, Len(pages) + 1) \in Seq(HeadingsOf(Len(pages) + 1))
         /\ reading' = ReadHeadings(reading, Headings(page, Len(pages) + 1)) /\ reading' \in Readings
         /\ labels' = Append(labels, Label(reading'))
         /\ Len(labels') = Len(labels) + 1 /\ labels'[Len(labels) + 1] = Label(reading')
         /\ \A q \in 1 .. Len(labels) : labels'[q] = labels[q]
         /\ labels' \in Seq([LabelLevels -> Names \union {NoName}])
         /\ PageUnits(MainText(page), Len(pages) + 1) \in Seq(UnitsOf(Len(pages) + 1))
         /\ units' = units \o PageUnits(MainText(page), Len(pages) + 1)
         /\ units' \in Seq(Units)
         /\ chunks' = Chunks(units')
<1> DEFINE p == Len(pages) + 1
<1>1. Len(pages) \in Nat /\ p \in Nat
  BY LenProperties DEF BookTypeInv
<1>2. pages' \in Seq(Leaves \union Plates) /\ Len(pages') = Len(pages) + 1
  BY AppendProperties DEF BookTypeInv, ReadPage
<1>3. Headings(page, p) \in Seq(HeadingsOf(p))
  BY <1>1, HeadingsAre
<1>4. reading' = ReadHeadings(reading, Headings(page, p))
  BY DEF ReadPage
<1>5. reading' \in Readings
  <2>1. PICK f : /\ f \in [0 .. Len(Headings(page, p)) -> Readings]
                 /\ ReadHeadings(reading, Headings(page, p)) = f[Len(Headings(page, p))]
    BY <1>1, <1>3, ReadHeadingsIs DEF BookTypeInv
  <2>2. Len(Headings(page, p)) \in 0 .. Len(Headings(page, p))
    BY <1>3, LenProperties
  <2> QED BY <1>4, <2>1, <2>2
<1>6. labels' = Append(labels, Label(reading'))
  BY <1>4 DEF ReadPage
<1>7. Label(reading') \in [LabelLevels -> Names \union {NoName}]
  BY <1>5 DEF Label, Readings, OpenSections, LabelLevels, Levels
<1>8. /\ labels' \in Seq([LabelLevels -> Names \union {NoName}])
      /\ Len(labels') = Len(labels) + 1 /\ labels'[Len(labels) + 1] = Label(reading')
      /\ \A q \in 1 .. Len(labels) : labels'[q] = labels[q]
  BY <1>6, <1>7, AppendProperties DEF BookTypeInv
<1>9. MainText(page) \in Seq(Blocks(page))
  BY MainTextIs
<1>10. PageUnits(MainText(page), p) \in Seq(UnitsOf(p))
  BY <1>1, <1>9, PageUnitsAre
<1>11. units' = units \o PageUnits(MainText(page), p)
  BY DEF ReadPage
<1>12. UnitsOf(p) \subseteq Units
  BY <1>1 DEF UnitsOf, Units
<1>13. PageUnits(MainText(page), p) \in Seq(Units)
  BY <1>10, <1>12, SeqMonotonic
<1>14. units' \in Seq(Units)
  BY <1>11, <1>13, ConcatProperties DEF BookTypeInv
<1>15. chunks' = Chunks(units')
  BY DEF ReadPage
<1> QED
  BY <1>1, <1>2, <1>3, <1>4, <1>5, <1>6, <1>8, <1>10, <1>11, <1>14, <1>15 DEF ReadPage

LEMMA StepBookTypeInv == BookTypeInv /\ [Next]_vars => BookTypeInv'
<1> SUFFICES ASSUME BookTypeInv, [Next]_vars PROVE BookTypeInv'
  OBVIOUS
<1>1. CASE Next
  <2>1. PICK page \in Following : ReadPage(page)
    BY <1>1 DEF Next
  <2>2. page \in Leaves \union Plates
    BY FollowingPages
  <2>3. /\ pages' \in Seq(Leaves \union Plates) /\ Len(pages') = Len(pages) + 1
        /\ reading' \in Readings /\ units' \in Seq(Units)
        /\ labels' \in Seq([LabelLevels -> Names \union {NoName}]) /\ Len(labels') = Len(labels) + 1
    BY <2>1, <2>2, ReadPageDoes
  <2> QED BY <2>3 DEF BookTypeInv
<1>2. CASE UNCHANGED vars
  BY <1>2 DEF vars, BookTypeInv
<1> QED
  BY <1>1, <1>2

\* Whatever pages are read, the open and closed sections are of the levels and
\* names found on them, every page has its labels, and every unit its page and
\* its sentences (_detect_structures, _page_units).
THEOREM BookTypeInvAlways == Spec => []BookTypeInv
<1> QED
  BY InitBookTypeInv, StepBookTypeInv, PTL DEF Spec

\* The blocks of a page that is a book of its own, or begins one, are read in
\* the order of the page, whatever blocks it has: of two columns that stand apart
\* _reading_order puts the one first that comes first in the direction of the
\* page, and what _margin_block_indices takes for a margin is never all of the
\* text, nor, on a well-drawn page, what stands in it.
THEOREM TextIsAlwaysInOrder == Spec => []TextIsInOrder
<1>1. BookTypeInv => TextIsInOrder
  <2> SUFFICES ASSUME BookTypeInv, Len(pages) = 1
               PROVE  ReadsInOrder(pages[1]) /\ MarginsAreApart(pages[1])
    BY DEF TextIsInOrder
  <2>1. pages[1] \in Leaves \union Plates
    BY ElementOfSeq DEF BookTypeInv
  <2> QED BY <2>1, PageIsRead, PageKeepsText
<1> QED
  BY <1>1, BookTypeInvAlways, PTL

-----------------------------------------------------------------------------
(* Sections.                                                               *)

\* The closed sections of a level lie one after the other before the open one,
\* without a gap.
Tiled(open, K, last) ==
  /\ \A level \in Levels : open[level] = NoSection \/ open[level].start \in 1 .. last
  /\ \A s \in K : /\ s.level \in Levels /\ s.start \in Nat \ {0} /\ s.end \in Nat /\ s.start <= s.end
                  /\ open[s.level] # NoSection /\ s.end < open[s.level].start
  /\ \A s, t \in K : s.level = t.level /\ s # t => s.end < t.start \/ t.end < s.start
  /\ \A s \in K : \A q \in Nat : s.start <= q /\ q < open[s.level].start =>
       \E t \in K : t.level = s.level /\ t.start <= q /\ q <= t.end

\* The names of the first m pages are those of the sections they lie in.
Named(open, K, names, m) ==
  \A level \in LabelLevels, q \in 1 .. m :
    /\ open[level] # NoSection /\ open[level].start <= q => names[q][level] = open[level].name
    /\ \A s \in K : s.level = level /\ s.start <= q /\ q <= s.end => names[q][level] = s.name
    /\ /\ open[level] # NoSection => q < open[level].start
       /\ \A s \in K : s.level = level => q < s.start
       => names[q][level] = NoName

SectionsInv ==
  /\ Tiled(reading.open, Range(reading.closed), Len(pages))
  /\ Named(reading.open, Range(reading.closed), labels, Len(pages))

LEMMA RangeOfAppend ==
  ASSUME NEW T, NEW s \in Seq(T), NEW x \in T
  PROVE  Range(Append(s, x)) = Range(s) \union {x}
<1>1. /\ DOMAIN s = 1 .. Len(s) /\ Len(s) \in Nat
      /\ Append(s, x) \in Seq(T) /\ Len(Append(s, x)) = Len(s) + 1
      /\ \A i \in 1 .. Len(s) : Append(s, x)[i] = s[i]
      /\ Append(s, x)[Len(s) + 1] = x
  BY AppendProperties, LenProperties
<1>2. DOMAIN Append(s, x) = 1 .. Len(s) + 1
  BY <1>1, LenProperties
<1>3. \A i \in 1 .. Len(s) + 1 : i \in 1 .. Len(s) \/ i = Len(s) + 1
  BY <1>1
<1>4. 1 .. Len(s) \subseteq 1 .. Len(s) + 1 /\ Len(s) + 1 \in 1 .. Len(s) + 1
  BY <1>1
<1> DEFINE t == Append(s, x)
<1>5. DOMAIN t = 1 .. Len(s) + 1 /\ (\A i \in 1 .. Len(s) : t[i] = s[i]) /\ t[Len(s) + 1] = x
  BY <1>1, <1>2
<1> HIDE DEF t
<1>6. Range(t) = Range(s) \union {x}
  BY <1>1, <1>3, <1>4, <1>5 DEF Range
<1> QED
  BY <1>6 DEF t

\* A section that has a place is open on a page.
LEMMA OpenHasPlace ==
  ASSUME NEW open, NEW K, NEW last, Tiled(open, K, last), NEW level \in Levels
  PROVE  open[level] = NoSection <=> open[level].start = NoPage
<1>1. NoSection.start = NoPage /\ NoPage \notin 1 .. last
  BY DEF NoSection, NoPage
<1> QED
  BY <1>1 DEF Tiled

LEMMA OpensTiles ==
  ASSUME NEW p \in Nat \ {0}, NEW r \in Readings, NEW h \in HeadingsOf(p), NEW names,
         Tiled(r.open, Range(r.closed), p), Named(r.open, Range(r.closed), names, p - 1)
  PROVE  /\ Tiled(Opens(r, h).open, Range(Opens(r, h).closed), p)
         /\ Named(Opens(r, h).open, Range(Opens(r, h).closed), names, p - 1)
<1> DEFINE open == r.open
           K == Range(r.closed)
           L == h.level
           previous == open[L]
           new == [name |-> h.name, start |-> h.page]
           opened == [open EXCEPT ![L] = new]
           section == Closed(L, previous, h.page - 1)
           closes == previous.start \notin {NoPage, h.page}
           KK == Range(Opens(r, h).closed)
<1>1. L \in Levels /\ h.page = p /\ open \in OpenSections /\ r.closed \in Seq(ClosedSections)
  BY DEF HeadingsOf, Readings
<1>2. opened[L] = new /\ (\A level \in Levels : level # L => opened[level] = open[level]) /\ Opens(r, h).open = opened
  BY <1>1 DEF OpenSections, Opens
<1>3. new # NoSection /\ new.start = p /\ new.name = h.name
  BY <1>1 DEF NoSection, NoPage
<1>4. previous.start \in Nat \union {NoPage} /\ previous.name \in Names \union {NoName}
  BY <1>1 DEF OpenSections
<1>5. section = [level |-> L, name |-> previous.name, start |-> previous.start, end |-> p - 1]
  BY <1>1 DEF Closed
<1>6. KK = IF closes THEN K \union {section} ELSE K
  <2>1. section \in ClosedSections
    BY <1>1, <1>4, <1>5 DEF ClosedSections
  <2> HIDE DEF section
  <2>2. Range(Append(r.closed, section)) = K \union {section}
    BY <1>1, <2>1, RangeOfAppend
  <2> QED BY <2>2 DEF Opens, section
<1>7. previous = NoSection <=> previous.start = NoPage
  BY <1>1, OpenHasPlace
<1>8. previous # NoSection => previous.start \in 1 .. p
  BY <1>1 DEF Tiled
<1>9. closes => previous # NoSection /\ previous.start \in Nat \ {0} /\ previous.start <= p - 1
  BY <1>1, <1>7, <1>8 DEF NoPage
<1>10. \A s \in K : /\ s.level \in Levels /\ s.start \in Nat \ {0} /\ s.end \in Nat /\ s.start <= s.end
                    /\ open[s.level] # NoSection /\ s.end < open[s.level].start
  BY DEF Tiled
<1>11. \A s \in K : s.level = L => previous # NoSection /\ s.end < previous.start /\ s.end < p
  BY <1>8, <1>10
<1>12. section.level = L /\ section.name = previous.name /\ section.start = previous.start /\ section.end = p - 1
  BY <1>5
<1> HIDE DEF closes, KK, opened, new, section, previous, L, open, K
<1>13. Tiled(opened, KK, p)
  <2>1. \A level \in Levels : opened[level] = NoSection \/ opened[level].start \in 1 .. p
    <3>1. \A level \in Levels : open[level] = NoSection \/ open[level].start \in 1 .. p
      BY DEF Tiled, open
    <3> QED BY <1>2, <1>3, <3>1
  <2>2. ASSUME NEW s \in KK
        PROVE  /\ s.level \in Levels /\ s.start \in Nat \ {0} /\ s.end \in Nat /\ s.start <= s.end
               /\ opened[s.level] # NoSection /\ s.end < opened[s.level].start
    <3>1. CASE s \in K
      <4>1. CASE s.level = L
        BY <1>2, <1>3, <1>10, <1>11, <3>1, <4>1
      <4>2. CASE s.level # L
        BY <1>2, <1>10, <3>1, <4>2
      <4> QED BY <4>1, <4>2
    <3>2. CASE s \notin K
      <4>1. closes /\ s = section
        BY <1>6, <3>2
      <4> QED BY <1>1, <1>2, <1>3, <1>9, <1>12, <4>1
    <3> QED BY <3>1, <3>2
  <2>3. ASSUME NEW s \in KK, NEW t \in KK, s.level = t.level, s # t PROVE s.end < t.start \/ t.end < s.start
    <3>1. CASE s \in K /\ t \in K
      BY <2>3, <3>1 DEF Tiled, K
    <3>2. CASE s \in K /\ t \notin K
      <4>1. t = section
        BY <1>6, <3>2
      <4> QED BY <1>11, <1>12, <2>3, <3>2, <4>1
    <3>3. CASE s \notin K /\ t \in K
      <4>1. s = section
        BY <1>6, <3>3
      <4> QED BY <1>11, <1>12, <2>3, <3>3, <4>1
    <3>4. CASE s \notin K /\ t \notin K
      BY <1>6, <2>3, <3>4
    <3> QED BY <3>1, <3>2, <3>3, <3>4
  <2>4. ASSUME NEW s \in KK, NEW q \in Nat, s.start <= q, q < opened[s.level].start
        PROVE  \E t \in KK : t.level = s.level /\ t.start <= q /\ q <= t.end
    <3>1. ASSUME s \in K, q < open[s.level].start
          PROVE  \E t \in KK : t.level = s.level /\ t.start <= q /\ q <= t.end
      <4>1. \E t \in K : t.level = s.level /\ t.start <= q /\ q <= t.end
        BY <2>4, <3>1 DEF Tiled, K, open
      <4> QED BY <1>6, <4>1
    <3>2. CASE s.level # L
      <4>1. s \in K
        BY <1>6, <1>12, <3>2
      <4>2. opened[s.level] = open[s.level]
        BY <1>2, <1>10, <3>2, <4>1
      <4> QED BY <2>4, <3>1, <4>1, <4>2
    <3>3. CASE s.level = L
      <4>1. q < p
        BY <1>2, <1>3, <2>4, <3>3
      <4>2. CASE closes /\ previous.start <= q
        BY <1>6, <1>12, <3>3, <4>1, <4>2
      <4>3. CASE closes /\ ~(previous.start <= q)
        <5>1. s \in K
          BY <1>6, <1>12, <2>4, <4>3
        <5>2. q < open[s.level].start
          BY <1>9, <3>3, <4>3 DEF previous
        <5> QED BY <3>1, <5>1, <5>2
      <4>4. CASE ~closes
        <5>1. s \in K /\ previous.start # NoPage
          BY <1>6, <1>7, <1>11, <3>3, <4>4
        <5>2. previous.start = p
          BY <1>1, <4>4, <5>1 DEF closes
        <5> QED BY <3>1, <3>3, <4>1, <5>1, <5>2 DEF previous
      <4> QED BY <4>2, <4>3, <4>4
    <3> QED BY <3>2, <3>3
  <2> QED BY <2>1, <2>2, <2>3, <2>4 DEF Tiled
<1>14. Named(opened, KK, names, p - 1)
  <2> SUFFICES ASSUME NEW level \in LabelLevels, NEW q \in 1 .. p - 1
               PROVE  /\ opened[level] # NoSection /\ opened[level].start <= q => names[q][level] = opened[level].name
                      /\ \A s \in KK : s.level = level /\ s.start <= q /\ q <= s.end => names[q][level] = s.name
                      /\ /\ opened[level] # NoSection => q < opened[level].start
                         /\ \A s \in KK : s.level = level => q < s.start
                         => names[q][level] = NoName
    BY DEF Named
  <2>1. level \in Levels
    BY DEF Levels, LabelLevels
  <2>2. /\ open[level] # NoSection /\ open[level].start <= q => names[q][level] = open[level].name
        /\ \A s \in K : s.level = level /\ s.start <= q /\ q <= s.end => names[q][level] = s.name
        /\ /\ open[level] # NoSection => q < open[level].start
           /\ \A s \in K : s.level = level => q < s.start
           => names[q][level] = NoName
    BY DEF Named, open, K
  <2>3. CASE level # L
    <3>1. opened[level] = open[level]
      BY <1>2, <2>1, <2>3
    <3>2. \A s \in KK : s.level = level => s \in K
      BY <1>6, <1>12, <2>3
    <3>3. K \subseteq KK
      BY <1>6
    <3> QED BY <2>2, <3>1, <3>2, <3>3
  <2>4. CASE level = L
    <3>1. ~(opened[level].start <= q)
      BY <1>2, <1>3, <2>4
    <3>2. ASSUME NEW s \in KK, s.level = level, s.start <= q, q <= s.end PROVE names[q][level] = s.name
      <4>1. CASE s \in K
        BY <2>2, <3>2, <4>1
      <4>2. CASE s \notin K
        <5>1. closes /\ s = section
          BY <1>6, <4>2
        <5>2. open[level] # NoSection /\ open[level].start <= q
          BY <1>9, <1>12, <2>4, <3>2, <5>1 DEF previous
        <5> QED BY <1>12, <2>2, <2>4, <5>1, <5>2 DEF previous
      <4> QED BY <4>1, <4>2
    <3>3. ASSUME \A s \in KK : s.level = level => q < s.start PROVE names[q][level] = NoName
      <4>1. \A s \in K : s.level = level => q < s.start
        BY <1>6, <3>3
      <4>2. open[level] # NoSection => q < open[level].start
        <5> SUFFICES ASSUME open[level] # NoSection PROVE q < open[level].start
          OBVIOUS
        <5>1. CASE closes
          BY <1>6, <1>12, <2>4, <3>3, <5>1 DEF previous
        <5>2. CASE ~closes
          <6>1. open[level].start = p
            BY <1>1, <1>7, <2>4, <5>2 DEF closes, previous
          <6> QED BY <6>1
        <5> QED BY <5>1, <5>2
      <4> QED BY <2>2, <4>1, <4>2
    <3> QED BY <3>1, <3>2, <3>3
  <2> QED BY <2>3, <2>4
<1> QED
  BY <1>2, <1>13, <1>14 DEF KK

LEMMA ReadHeadingsTiles ==
  ASSUME NEW p \in Nat \ {0}, NEW r \in Readings, NEW hs \in Seq(HeadingsOf(p)), NEW names,
         Tiled(r.open, Range(r.closed), p), Named(r.open, Range(r.closed), names, p - 1)
  PROVE  /\ Tiled(ReadHeadings(r, hs).open, Range(ReadHeadings(r, hs).closed), p)
         /\ Named(ReadHeadings(r, hs).open, Range(ReadHeadings(r, hs).closed), names, p - 1)
<1> DEFINE n == Len(hs)
           R == {x \in Readings : Tiled(x.open, Range(x.closed), p) /\ Named(x.open, Range(x.closed), names, p - 1)}
<1>1. PICK f : /\ f \in [0 .. n -> Readings] /\ f[0] = r
               /\ \A i \in 1 .. n : hs[i] \in HeadingsOf(p) /\ f[i] = Opens(f[i - 1], hs[i])
               /\ ReadHeadings(r, hs) = f[n]
  BY ReadHeadingsIs
<1>2. n \in Nat
  BY LenProperties
<1>3. f[0] \in R
  BY <1>1
<1>4. ASSUME NEW i \in 1 .. n, f[i - 1] \in R PROVE f[i] \in R
  <2>1. f[i] \in Readings
    BY <1>1, <1>2
  <2>2. /\ Tiled(Opens(f[i - 1], hs[i]).open, Range(Opens(f[i - 1], hs[i]).closed), p)
        /\ Named(Opens(f[i - 1], hs[i]).open, Range(Opens(f[i - 1], hs[i]).closed), names, p - 1)
    BY <1>1, <1>4, OpensTiles
  <2>3. f[i] = Opens(f[i - 1], hs[i])
    BY <1>1
  <2> QED BY <2>1, <2>2, <2>3
<1>5. f[n] \in R
  <2>1. \A i \in 0 .. n : f[i] \in R
    <3> HIDE DEF R, n
    <3> QED BY <1>2, <1>3, <1>4, LoopStays
  <2>2. n \in 0 .. n
    BY <1>2
  <2> HIDE DEF R, n
  <2> QED BY <2>1, <2>2
<1> QED
  BY <1>1, <1>5

LEMMA InitSectionsInv == Init => SectionsInv
<1> SUFFICES ASSUME Init PROVE SectionsInv
  OBVIOUS
<1>1. /\ reading.open = [level \in Levels |-> NoSection] /\ reading.closed = <<>> /\ pages = <<>>
      /\ Range(reading.closed) = {} /\ Len(pages) = 0
  BY DEF Init, Range
<1> QED
  BY <1>1 DEF SectionsInv, Tiled, Named

LEMMA StepSectionsInv == BookTypeInv /\ SectionsInv /\ [Next]_vars => SectionsInv'
<1> SUFFICES ASSUME BookTypeInv, SectionsInv, [Next]_vars PROVE SectionsInv'
  OBVIOUS
<1>1. CASE Next
  <2>1. PICK page \in Following : ReadPage(page)
    BY <1>1 DEF Next
  <2> DEFINE p == Len(pages) + 1
             hs == Headings(page, p)
             open == reading.open
             K == Range(reading.closed)
  <2>2. page \in Leaves \union Plates
    BY FollowingPages
  <2>3. /\ p \in Nat \ {0} /\ Len(pages) = p - 1 /\ Len(pages) \in Nat /\ Len(pages') = p
        /\ hs \in Seq(HeadingsOf(p)) /\ reading' = ReadHeadings(reading, hs) /\ reading' \in Readings
        /\ Len(labels) = Len(pages) /\ labels'[p] = Label(reading') /\ \A q \in 1 .. p - 1 : labels'[q] = labels[q]
    <3>1. /\ Len(pages) \in Nat /\ Len(pages') = p /\ hs \in Seq(HeadingsOf(p))
          /\ reading' = ReadHeadings(reading, hs) /\ reading' \in Readings
          /\ labels'[Len(labels) + 1] = Label(reading') /\ \A q \in 1 .. Len(labels) : labels'[q] = labels[q]
      BY <2>1, <2>2, ReadPageDoes
    <3>2. Len(labels) = Len(pages)
      BY DEF BookTypeInv
    <3>3. p \in Nat \ {0} /\ Len(pages) = p - 1
      BY <3>1
    <3> HIDE DEF hs
    <3> QED BY <3>1, <3>2, <3>3
  <2>4. Tiled(open, K, p)
    <3>1. 1 .. Len(pages) \subseteq 1 .. p
      BY <2>3
    <3> HIDE DEF open, K, p
    <3>2. Tiled(open, K, Len(pages))
      BY DEF SectionsInv, open, K
    <3> QED BY <3>1, <3>2 DEF Tiled
  <2>5. Named(open, K, labels, p - 1)
    BY <2>3 DEF SectionsInv
  <2>6. /\ Tiled(reading'.open, Range(reading'.closed), p)
        /\ Named(reading'.open, Range(reading'.closed), labels, p - 1)
    <3> HIDE DEF hs, p
    <3> QED BY <2>3, <2>4, <2>5, ReadHeadingsTiles DEF BookTypeInv
  <2> HIDE DEF hs, p, open, K
  <2> DEFINE o == reading'.open
             C == Range(reading'.closed)
  <2>7. ASSUME NEW level \in LabelLevels, NEW q \in 1 .. p
        PROVE  /\ o[level] # NoSection /\ o[level].start <= q => labels'[q][level] = o[level].name
               /\ \A s \in C : s.level = level /\ s.start <= q /\ q <= s.end => labels'[q][level] = s.name
               /\ /\ o[level] # NoSection => q < o[level].start
                  /\ \A s \in C : s.level = level => q < s.start
                  => labels'[q][level] = NoName
    <3>1. CASE q = p
      <4>1. labels'[q][level] = o[level].name
        BY <2>3, <3>1 DEF Label
      <4>2. level \in Levels
        BY DEF Levels, LabelLevels
      <4>3. o[level] = NoSection \/ (o[level].start <= p /\ o[level].start \in Int)
        BY <2>6, <4>2 DEF Tiled
      <4>4. \A s \in C : s.level = level => s.end < p /\ s.end \in Nat
        <5> SUFFICES ASSUME NEW s \in C, s.level = level PROVE s.end < p /\ s.end \in Nat
          OBVIOUS
        <5>1. s.end \in Nat /\ o[level] # NoSection /\ s.end < o[level].start
          BY <2>6 DEF Tiled
        <5> QED BY <2>3, <4>3, <5>1
      <4>5. o[level] # NoSection => ~(q < o[level].start)
        BY <2>3, <3>1, <4>3
      <4>6. NoSection.name = NoName
        BY DEF NoSection
      <4>7. \A s \in C : s.level = level => ~(q <= s.end)
        BY <2>3, <3>1, <4>4
      <4> HIDE DEF o, C
      <4> QED BY <4>1, <4>5, <4>6, <4>7
    <3>2. CASE q # p
      <4>1. q \in 1 .. p - 1
        BY <2>3, <3>2
      <4>2. labels'[q] = labels[q]
        BY <2>3, <4>1
      <4>3. /\ o[level] # NoSection /\ o[level].start <= q => labels[q][level] = o[level].name
            /\ \A s \in C : s.level = level /\ s.start <= q /\ q <= s.end => labels[q][level] = s.name
            /\ /\ o[level] # NoSection => q < o[level].start
               /\ \A s \in C : s.level = level => q < s.start
               => labels[q][level] = NoName
        BY <2>6, <4>1 DEF Named
      <4> HIDE DEF o, C
      <4> QED BY <4>2, <4>3
    <3> QED BY <3>1, <3>2
  <2>8. Named(o, C, labels', p)
    <3> HIDE DEF o, C
    <3> QED BY <2>7 DEF Named
  <2> QED BY <2>3, <2>6, <2>8 DEF SectionsInv
<1>2. CASE UNCHANGED vars
  BY <1>2 DEF vars, SectionsInv
<1> QED
  BY <1>1, <1>2

\* The sections of one level that lie over a page: the open one, if it does,
\* or a closed one.
LEMMA SectionsTile ==
  ASSUME BookTypeInv, SectionsInv
  PROVE  SectionsTileTheBook
<1> DEFINE open == reading.open
           K == Range(reading.closed)
           n == Len(pages)
           sections == Sections(reading, n)
           covering(level, p) == {s \in sections : s.level = level /\ s.start <= p /\ p <= s.end}
           last(level) == Closed(level, open[level], n)
<1>1. n \in Nat /\ DOMAIN pages = 1 .. n
  BY LenProperties DEF BookTypeInv
<1>2. sections = K \union {last(level) : level \in {l \in Levels : open[l] # NoSection}}
  BY DEF Sections
<1>3. \A level \in Levels : /\ last(level).level = level /\ last(level).name = open[level].name
                            /\ last(level).start = open[level].start /\ last(level).end = n
  BY DEF Closed
<1>4. /\ \A level \in Levels : open[level] = NoSection \/ open[level].start \in 1 .. n
      /\ \A s \in K : /\ s.level \in Levels /\ s.start \in Nat \ {0} /\ s.end \in Nat /\ s.start <= s.end
                      /\ open[s.level] # NoSection /\ s.end < open[s.level].start
      /\ \A s, t \in K : s.level = t.level /\ s # t => s.end < t.start \/ t.end < s.start
      /\ \A s \in K : \A q \in Nat : s.start <= q /\ q < open[s.level].start =>
           \E t \in K : t.level = s.level /\ t.start <= q /\ q <= t.end
  BY DEF SectionsInv, Tiled
<1>5. Named(open, K, labels, n)
  BY DEF SectionsInv
<1> HIDE DEF open, K, n, sections, last
<1> SUFFICES ASSUME NEW level \in Levels, NEW p \in 1 .. n
             PROVE  /\ Cardinality(covering(level, p)) <= 1
                    /\ (covering(level, p) = {}) <=> (\A s \in sections : s.level = level => p < s.start)
                    /\ level \in LabelLevels =>
                         labels[p][level] = IF covering(level, p) = {} THEN NoName
                                            ELSE (CHOOSE s \in covering(level, p) : TRUE).name
  BY <1>1 DEF SectionsTileTheBook, sections, n
<1> DEFINE C == covering(level, p)
<1>6. \A s \in sections : s.level = level => s \in K \/ (s = last(level) /\ open[level] # NoSection)
  BY <1>2, <1>3
<1>7. ASSUME NEW s \in C, NEW t \in C PROVE s = t
  <2>1. ASSUME NEW a \in C, NEW b \in C, a \in K, b \notin K PROVE FALSE
    <3>1. b = last(level) /\ open[level] # NoSection /\ a.level = level
      BY <1>6, <2>1
    <3>2. a.end < open[level].start /\ a.end \in Nat /\ open[level].start \in 1 .. n
      BY <1>4, <2>1, <3>1
    <3>3. open[level].start <= p /\ p <= a.end
      BY <1>3, <2>1, <3>1
    <3> QED BY <3>2, <3>3
  <2>2. CASE s \in K /\ t \in K
    <3>1. /\ s.level = t.level /\ s.start <= p /\ p <= s.end /\ t.start <= p /\ p <= t.end
          /\ s.start \in Nat /\ s.end \in Nat /\ t.start \in Nat /\ t.end \in Nat
      BY <1>4, <2>2
    <3>2. ~(s.end < t.start) /\ ~(t.end < s.start)
      BY <3>1
    <3> QED BY <1>4, <2>2, <3>1, <3>2
  <2>3. CASE s \notin K /\ t \notin K
    BY <1>6, <2>3
  <2> QED BY <2>1, <2>2, <2>3
<1>8. Cardinality(C) <= 1
  <2> HIDE DEF C
  <2>1. Cardinality(C) \in {0, 1}
    BY <1>7, SizeOfOne
  <2> QED BY <2>1
<1>9. ASSUME C = {} PROVE \A s \in sections : s.level = level => p < s.start
  <2> SUFFICES ASSUME NEW s \in sections, s.level = level, ~(p < s.start) PROVE FALSE
    OBVIOUS
  <2>1. open[level] # NoSection
    BY <1>4, <1>6
  <2>2. last(level) \in sections
    BY <1>2, <2>1
  <2>3. open[level].start \in 1 .. n
    BY <1>4, <2>1
  <2>4. p < open[level].start
    <3> SUFFICES ASSUME ~(p < open[level].start) PROVE FALSE
      OBVIOUS
    <3>1. last(level).level = level /\ last(level).start <= p /\ p <= last(level).end
      BY <1>1, <1>3, <2>3
    <3>2. last(level) \in C
      BY <2>2, <3>1
    <3> QED BY <1>9, <3>2
  <2>5. s \in K
    BY <1>3, <1>6, <2>4
  <2>6. s.start \in Nat /\ s.start <= p /\ p \in Nat
    BY <1>4, <2>5
  <2>7. PICK t \in K : t.level = level /\ t.start <= p /\ p <= t.end
    BY <1>4, <2>4, <2>5, <2>6
  <2>8. t \in C
    BY <1>2, <2>7
  <2> QED BY <1>9, <2>8
<1>10. ASSUME \A s \in sections : s.level = level => p < s.start PROVE C = {}
  <2> SUFFICES ASSUME NEW s \in C PROVE FALSE
    OBVIOUS
  <2>1. s \in sections /\ s.level = level /\ s.start <= p /\ p < s.start
    BY <1>10
  <2>2. s.start \in Int
    <3>1. CASE s \in K
      BY <1>4, <3>1
    <3>2. CASE s \notin K
      BY <1>3, <1>4, <1>6, <2>1, <3>2
    <3> QED BY <3>1, <3>2
  <2> QED BY <2>1, <2>2
<1>11. ASSUME level \in LabelLevels
       PROVE  labels[p][level] = IF C = {} THEN NoName ELSE (CHOOSE s \in C : TRUE).name
  <2>1. /\ open[level] # NoSection /\ open[level].start <= p => labels[p][level] = open[level].name
        /\ \A s \in K : s.level = level /\ s.start <= p /\ p <= s.end => labels[p][level] = s.name
        /\ /\ open[level] # NoSection => p < open[level].start
           /\ \A s \in K : s.level = level => p < s.start
           => labels[p][level] = NoName
    BY <1>5, <1>11 DEF Named
  <2>2. CASE C = {}
    <3>1. \A s \in sections : s.level = level => p < s.start
      BY <1>9, <2>2
    <3>2. \A s \in K : s.level = level => p < s.start
      BY <1>2, <3>1
    <3>3. open[level] # NoSection => p < open[level].start
      BY <1>2, <1>3, <3>1
    <3> QED BY <2>1, <2>2, <3>2, <3>3
  <2>3. CASE C # {}
    <3> DEFINE s == CHOOSE s \in C : TRUE
    <3>1. s \in C
      BY <2>3
    <3> HIDE DEF s
    <3>2. s \in sections /\ s.level = level /\ s.start <= p /\ p <= s.end
      BY <3>1
    <3>3. labels[p][level] = s.name
      <4>1. CASE s \in K
        BY <2>1, <3>2, <4>1
      <4>2. CASE s \notin K
        <5>1. s = last(level) /\ open[level] # NoSection
          BY <1>6, <3>2, <4>2
        <5> QED BY <1>3, <2>1, <3>2, <5>1
      <4> QED BY <4>1, <4>2
    <3> QED BY <2>3, <3>3 DEF s
  <2> QED BY <2>2, <2>3
<1> HIDE DEF C
<1> QED
  BY <1>8, <1>9, <1>10, <1>11 DEF C

\* The sections of a level never leave out a page after its first heading and
\* never lie over one another, whatever the pages of a book are, and the labels
\* of every page are the names of the sections it lies in.
THEOREM SectionsAlwaysTileTheBook == Spec => []SectionsTileTheBook
<1>1. Init => BookTypeInv /\ SectionsInv
  BY InitBookTypeInv, InitSectionsInv
<1>2. BookTypeInv /\ SectionsInv /\ [Next]_vars => (BookTypeInv /\ SectionsInv)'
  BY StepBookTypeInv, StepSectionsInv
<1>3. BookTypeInv /\ SectionsInv => SectionsTileTheBook
  BY SectionsTile
<1> QED
  BY <1>1, <1>2, <1>3, PTL DEF Spec

-----------------------------------------------------------------------------
(* The two stages that read the headings.                                  *)

LEMMA ReadHeadingsAppend ==
  ASSUME NEW p \in Nat, NEW r \in Readings, NEW hs \in Seq(HeadingsOf(p)), NEW h \in HeadingsOf(p)
  PROVE  ReadHeadings(r, Append(hs, h)) = Opens(ReadHeadings(r, hs), h) /\ ReadHeadings(r, hs) \in Readings
<1> DEFINE n == Len(hs)
           hh == Append(hs, h)
<1>1. PICK f : /\ f \in [0 .. n -> Readings] /\ f[0] = r
               /\ \A i \in 1 .. n : hs[i] \in HeadingsOf(p) /\ f[i] = Opens(f[i - 1], hs[i])
               /\ ReadHeadings(r, hs) = f[n]
  BY ReadHeadingsIs
<1>2. /\ n \in Nat /\ hh \in Seq(HeadingsOf(p)) /\ Len(hh) = n + 1 /\ hh[n + 1] = h
      /\ \A i \in 1 .. n : hh[i] = hs[i]
  BY LenProperties, AppendProperties
<1> HIDE DEF hh
<1>3. PICK g : /\ g \in [0 .. Len(hh) -> Readings] /\ g[0] = r
               /\ \A i \in 1 .. Len(hh) : hh[i] \in HeadingsOf(p) /\ g[i] = Opens(g[i - 1], hh[i])
               /\ ReadHeadings(r, hh) = g[Len(hh)]
  BY <1>2, ReadHeadingsIs
<1> DEFINE good == {i \in 0 .. n : g[i] = f[i]}
<1> HIDE DEF n
<1>4. 0 \in good
  BY <1>1, <1>2, <1>3
<1>5. ASSUME NEW i \in 0 .. n - 1, i \in good PROVE i + 1 \in good
  <2>1. i + 1 \in 1 .. n /\ i + 1 \in 1 .. n + 1 /\ (i + 1) - 1 = i
    BY <1>2
  <2>2. g[i + 1] = Opens(g[i], hh[i + 1]) /\ f[i + 1] = Opens(f[i], hs[i + 1]) /\ hh[i + 1] = hs[i + 1]
    BY <1>1, <1>2, <1>3, <2>1
  <2> QED BY <1>2, <1>5, <2>1, <2>2
<1>6. g[n] = f[n]
  <2>1. \A i \in 0 .. n : i \in good
    <3> HIDE DEF good
    <3> QED BY <1>2, <1>4, <1>5, Counting
  <2>2. n \in 0 .. n
    BY <1>2
  <2> QED BY <2>1, <2>2
<1>7. g[n + 1] = Opens(g[n], h)
  <2>1. n + 1 \in 1 .. n + 1 /\ (n + 1) - 1 = n
    BY <1>2
  <2> QED BY <1>2, <1>3, <2>1
<1>8. f[n] \in Readings
  <2>1. n \in 0 .. n
    BY <1>2
  <2> QED BY <1>1, <2>1
<1> QED
  BY <1>1, <1>2, <1>3, <1>6, <1>7, <1>8 DEF hh

LEMMA ReadNoHeadings ==
  ASSUME NEW r \in Readings
  PROVE  ReadHeadings(r, <<>>) = r
<1> DEFINE none == <<>>
<1>1. none \in Seq(HeadingsOf(0)) /\ Len(none) = 0 /\ 0 \in Nat
  BY EmptySeq
<1> HIDE DEF none
<1>2. PICK f : /\ f \in [0 .. Len(none) -> Readings] /\ f[0] = r
               /\ \A i \in 1 .. Len(none) : none[i] \in HeadingsOf(0) /\ f[i] = Opens(f[i - 1], none[i])
               /\ ReadHeadings(r, none) = f[Len(none)]
  BY <1>1, ReadHeadingsIs
<1> QED
  BY <1>1, <1>2 DEF none

\* The name of the last heading of a level, as the chunker looks for it.
LastName(us, level) == ContextAt(us, Len(us))[level]

LEMMA LastNameAppend ==
  ASSUME NEW us \in Seq(Units), NEW u \in Units, NEW level \in Levels
  PROVE  LastName(Append(us, u), level) = IF u.level = level THEN u.name ELSE LastName(us, level)
<1> DEFINE n == Len(us)
           uu == Append(us, u)
           old == {j \in 1 .. n : us[j].level = level}
           new == {j \in 1 .. n + 1 : uu[j].level = level}
<1>1. n \in Nat /\ Len(uu) = n + 1 /\ uu[n + 1] = u /\ \A i \in 1 .. n : uu[i] = us[i]
  BY LenProperties, AppendProperties
<1>2. LastName(us, level) = IF old = {} THEN NoName ELSE us[Max(old)].name
  BY DEF LastName, ContextAt
<1>3. LastName(uu, level) = IF new = {} THEN NoName ELSE uu[Max(new)].name
  BY <1>1 DEF LastName, ContextAt
<1> HIDE DEF uu, n
<1>4. old \in SUBSET Int /\ new \in SUBSET Int /\ IsFiniteSet(old) /\ IsFiniteSet(new)
  <2>1. old \in SUBSET (1 .. n) /\ new \in SUBSET (1 .. n + 1)
    OBVIOUS
  <2>2. IsFiniteSet(1 .. n) /\ IsFiniteSet(1 .. n + 1)
    BY <1>1, FS_Interval
  <2>3. \A j \in 1 .. n + 1 : j \in Int
    OBVIOUS
  <2>4. 1 .. n \subseteq Int
    OBVIOUS
  <2> HIDE DEF old, new
  <2>5. IsFiniteSet(old) /\ IsFiniteSet(new)
    BY <2>1, <2>2, FS_Subset
  <2> QED BY <2>1, <2>3, <2>4, <2>5
<1>5. CASE u.level = level
  <2>1. n + 1 \in new /\ \A j \in new : j <= n + 1 /\ j \in Int
    BY <1>1, <1>5
  <2> HIDE DEF new
  <2>2. Max(new) \in new /\ n + 1 <= Max(new)
    BY <1>4, <2>1, MinMaxAre
  <2>3. Max(new) = n + 1
    BY <1>1, <2>1, <2>2
  <2> QED BY <1>1, <1>3, <1>5, <2>1, <2>3 DEF uu
<1>6. CASE u.level # level
  <2>1. new = old
    <3>1. \A j \in 1 .. n + 1 : j \in 1 .. n \/ j = n + 1
      BY <1>1
    <3>2. 1 .. n \subseteq 1 .. n + 1
      BY <1>1
    <3> QED BY <1>1, <1>6, <3>1, <3>2
  <2> HIDE DEF new
  <2>2. old # {} => uu[Max(old)] = us[Max(old)]
    <3> SUFFICES ASSUME old # {} PROVE uu[Max(old)] = us[Max(old)]
      OBVIOUS
    <3>1. Max(old) \in old
      <4> HIDE DEF old
      <4> QED BY <1>4, MinMaxAre
    <3> QED BY <1>1, <3>1
  <2> HIDE DEF old
  <2> QED BY <1>2, <1>3, <1>6, <2>1, <2>2 DEF uu
<1> QED
  BY <1>5, <1>6

LEMMA ConcatAppend ==
  ASSUME NEW T, NEW s \in Seq(T), NEW t \in Seq(T), NEW x \in T
  PROVE  s \o Append(t, x) = Append(s \o t, x)
<1>1. Append(t, x) = t \o <<x>> /\ Append(s \o t, x) = (s \o t) \o <<x>> /\ <<x>> \in Seq(T)
  BY AppendIsConcat, ConcatProperties
<1> QED
  BY <1>1, ConcatAssociative

\* A name is set anew at the numbers of S up to n and kept at the others.
SetAt(S, n, name, text) ==
  /\ n \in Nat /\ S \in SUBSET (1 .. n)
  /\ \A i \in 1 .. n : name[i] = IF i \in S THEN text[i] ELSE name[i - 1]

\* At the end it is what it was set to last.
LEMMA LastSet ==
  ASSUME NEW S, NEW n, NEW name, NEW text, SetAt(S, n, name, text)
  PROVE  /\ S = {} => name[n] = name[0]
         /\ S # {} => \E j \in S : name[n] = text[j] /\ \A k \in S : k <= j
<1> USE DEF SetAt
<1> DEFINE kept(i) == name[i] = name[0] /\ \A k \in S : i < k
           set(i) == \E j \in S : j <= i /\ name[i] = text[j] /\ \A k \in S : k <= i => k <= j
           good == {i \in 0 .. n : kept(i) \/ set(i)}
<1>1. 0 \in good
  BY DEF good
<1>2. ASSUME NEW i \in 0 .. n - 1, i \in good PROVE i + 1 \in good
  <2>1. i + 1 \in 1 .. n /\ (i + 1) - 1 = i /\ i \in Nat
    OBVIOUS
  <2>2. CASE i + 1 \in S
    <3>1. name[i + 1] = text[i + 1] /\ \A k \in S : k <= i + 1 => k <= i + 1
      BY <2>1, <2>2
    <3> QED BY <2>1, <2>2, <3>1
  <2>3. CASE i + 1 \notin S
    <3>1. name[i + 1] = name[i]
      BY <2>1, <2>3
    <3>2. \A k \in S : k \in Nat /\ k # i + 1
      BY <2>3
    <3>3. CASE kept(i)
      <4>1. kept(i + 1)
        BY <2>1, <3>1, <3>2, <3>3
      <4> QED BY <2>1, <4>1
    <3>4. CASE set(i)
      <4>1. PICK j \in S : j <= i /\ name[i] = text[j] /\ \A k \in S : k <= i => k <= j
        BY <3>4
      <4>2. j <= i + 1 /\ \A k \in S : k <= i + 1 => k <= j
        BY <2>1, <3>2, <4>1
      <4>3. set(i + 1)
        BY <3>1, <4>1, <4>2
      <4> QED BY <2>1, <4>3
    <3> QED BY <1>2, <3>3, <3>4
  <2> QED BY <2>2, <2>3
<1>3. n \in good
  <2>1. \A i \in 0 .. n : i \in good
    <3> HIDE DEF good
    <3> QED BY <1>1, <1>2, Counting
  <2> HIDE DEF good
  <2> QED BY <2>1
<1>4. \A k \in S : k <= n /\ ~(n < k)
  <2>1. \A k \in S : k \in 1 .. n
    OBVIOUS
  <2> HIDE DEF good
  <2>2. \A k \in 1 .. n : k <= n /\ ~(n < k)
    OBVIOUS
  <2> QED BY <2>1, <2>2
<1>5. kept(n) \/ set(n)
  <2> HIDE DEF kept, set
  <2> QED BY <1>3
<1>6. kept(n) => S = {} /\ name[n] = name[0]
  BY <1>4
<1>7. set(n) => \E j \in S : name[n] = text[j] /\ \A k \in S : k <= j
  BY <1>4
<1> HIDE DEF kept, set
<1> QED
  BY <1>5, <1>6, <1>7

\* The name of a level that the metadata has open after a page is that of the
\* page's lowest heading of the level, if there is one.
LEMMA LastHeadingInMetadata ==
  ASSUME NEW page \in Leaves \union Plates, NEW p \in Nat, NEW r \in Readings, NEW level \in Levels
  PROVE  LET heads == HeadingsInMetadata(page, level)
             name == ReadHeadings(r, Headings(page, p)).open[level].name
         IN  /\ heads = {} => name = r.open[level].name
             /\ heads # {} => \E b \in heads : name = b.text /\ \A c \in heads : c = b \/ Above(c, b)
<1> DEFINE S == Flow(page)
           body == Sorted(S, Above)
           font == DominantFont(body)
           heads == HeadingsInMetadata(page, level)
           n == Len(body)
<1>1. S \in SUBSET Blocks(page) /\ heads = {b \in S : HeadingLevel(b, font) = level}
  BY DEF Flow, HeadingsInMetadata
<1>2. InOrder(body, S, AboveIn(S)) /\ \A a, b \in S : a \in AboveIn(S)[b] <=> Above(a, b)
  BY <1>1, FromTheTop DEF AboveIn
<1>3. PICK f : HeadingRun(f, page, body, p)
  BY HeadingsAre
<1> HIDE DEF S, body, font, heads
<1>4. n \in Nat /\ \A i \in 1 .. n : body[i] \in S
  BY <1>2, LenProperties, ElementOfSeq DEF InOrder
<1> DEFINE name == [i \in 0 .. n |-> ReadHeadings(r, f[i]).open[level].name]
           text == [i \in 1 .. n |-> body[i].text]
           at == {i \in 1 .. n : HeadingLevel(body[i], font) = level}
<1>5. ASSUME NEW i \in 1 .. n PROVE name[i] = IF i \in at THEN text[i] ELSE name[i - 1]
  <2> DEFINE b == body[i]
             L == HeadingLevel(b, font)
             heading == [level |-> L, name |-> b.text, page |-> p]
             x == ReadHeadings(r, f[i - 1])
  <2>1. i \in 0 .. n /\ i - 1 \in 0 .. n
    BY <1>4
  <2>2. /\ b \in Blocks(page) /\ f[i - 1] \in Seq(HeadingsOf(p))
        /\ f[i] = IF L = "body" THEN f[i - 1] ELSE Append(f[i - 1], heading)
    BY <1>3, <2>1 DEF HeadingRun, font
  <2>3. L \in Levels \union {"body"} /\ b.text \in Names
    BY <2>2, HeadingLevelIs DEF Names
  <2>4. name[i] = ReadHeadings(r, f[i]).open[level].name /\ name[i - 1] = x.open[level].name
        /\ text[i] = b.text /\ (i \in at <=> L = level)
    BY <2>1
  <2> HIDE DEF b, L, name, text, at
  <2>5. CASE L = "body"
    <3>1. L # level
      BY <2>5 DEF Levels
    <3> QED BY <2>2, <2>4, <2>5, <3>1
  <2>6. CASE L # "body"
    <3>1. heading \in HeadingsOf(p) /\ heading.level = L /\ heading.name = b.text
      BY <2>3, <2>6 DEF HeadingsOf
    <3> HIDE DEF heading
    <3>2. ReadHeadings(r, f[i]) = Opens(x, heading) /\ x \in Readings
      BY <2>2, <2>6, <3>1, ReadHeadingsAppend
    <3> HIDE DEF x
    <3>3. x.open \in OpenSections
      BY <3>2 DEF Readings
    <3>4. Opens(x, heading).open = [x.open EXCEPT ![L] = [name |-> b.text, start |-> heading.page]]
      BY <3>1 DEF Opens
    <3>5. Opens(x, heading).open[level].name = IF L = level THEN b.text ELSE x.open[level].name
      BY <3>3, <3>4 DEF OpenSections
    <3> QED BY <2>4, <3>2, <3>5
  <2> QED BY <2>5, <2>6
<1>6. /\ name[0] = r.open[level].name
      /\ name[n] = ReadHeadings(r, Headings(page, p)).open[level].name
  <2>1. f[0] = <<>> /\ Headings(page, p) = f[n] /\ 0 \in 0 .. n /\ n \in 0 .. n
    BY <1>3, <1>4 DEF HeadingRun
  <2> QED BY <2>1, ReadNoHeadings
<1>7. at \in SUBSET (1 .. n) /\ \A i \in 1 .. n : text[i] = body[i].text /\ (i \in at <=> body[i] \in heads)
  BY <1>1, <1>4
<1> HIDE DEF name, text, at
<1>8. /\ at = {} => name[n] = name[0]
      /\ at # {} => \E j \in at : name[n] = text[j] /\ \A k \in at : k <= j
  <2>1. SetAt(at, n, name, text)
    BY <1>4, <1>5, <1>7 DEF SetAt
  <2> QED BY <2>1, LastSet
<1>9. \A b \in heads : \E i \in at : body[i] = b
  BY <1>1, <1>2, <1>7 DEF InOrder
<1>10. heads = {} => at = {}
  BY <1>7
<1>11. ASSUME heads # {} PROVE \E b \in heads : name[n] = b.text /\ \A c \in heads : c = b \/ Above(c, b)
  <2>1. PICK j \in at : name[n] = text[j] /\ \A k \in at : k <= j
    BY <1>8, <1>9, <1>11
  <2>2. body[j] \in heads /\ text[j] = body[j].text /\ j \in 1 .. n
    BY <1>7, <2>1
  <2>3. ASSUME NEW c \in heads PROVE c = body[j] \/ Above(c, body[j])
    <3>1. PICK k \in at : body[k] = c
      BY <1>9
    <3>2. k <= j /\ k \in 1 .. n
      BY <1>7, <2>1
    <3>3. k = j \/ k < j
      BY <2>2, <3>2
    <3>4. k < j => body[k] \in AboveIn(S)[body[j]]
      BY <1>2, <2>2, <3>2 DEF InOrder
    <3>5. body[k] \in S /\ body[j] \in S
      BY <1>4, <2>2, <3>2
    <3> QED BY <1>2, <3>1, <3>3, <3>4, <3>5
  <2> QED BY <2>1, <2>2, <2>3
<1> QED
  BY <1>6, <1>8, <1>10, <1>11 DEF heads

\* The name of a level that is in effect in the text after a page is that of the
\* heading of the level that is read last on it, if there is one.
LEMMA LastHeadingInText ==
  ASSUME NEW page \in Leaves \union Plates, NEW p \in Nat, NEW us \in Seq(Units), NEW level \in Levels
  PROVE  LET heads == HeadingsInText(page, level)
             name == LastName(us \o PageUnits(MainText(page), p), level)
             order == ReadingOrder(page)
         IN  /\ heads = {} => name = LastName(us, level)
             /\ heads # {} => \E b \in heads : name = b.text /\ \A c \in heads : c = b \/ order[c] < order[b]
<1> DEFINE main == MainText(page)
           font == DominantFont(main)
           order == ReadingOrder(page)
           heads == HeadingsInText(page, level)
           n == Len(main)
<1>1. /\ main \in Seq(Blocks(page)) /\ n \in Nat
      /\ \A i, j \in 1 .. n : i < j <=> order[main[i]] < order[main[j]]
  BY MainTextIs, LenProperties
<1>2. heads = {b \in Range(main) : HeadingLevel(b, font) = level}
  BY DEF HeadingsInText
<1>3. PICK g : /\ g[0] = <<>> /\ PageUnits(main, p) = g[n]
               /\ \A i \in 0 .. n : g[i] \in Seq(UnitsOf(p))
               /\ \A i \in 1 .. n :
                    g[i] = IF main[i].letters > 0
                           THEN Append(g[i - 1], [level |-> HeadingLevel(main[i], font),
                                                  name |-> main[i].text, page |-> p,
                                                  sentences |-> main[i].sentences, ends |-> main[i].ends])
                           ELSE g[i - 1]
  <2> HIDE DEF main, font
  <2>1. \E g : /\ g[0] = <<>> /\ PageUnits(main, p) = g[n]
               /\ \A i \in 0 .. n : g[i] \in Seq(UnitsOf(p))
               /\ \A i \in 1 .. n :
                    g[i] = IF main[i].letters > 0
                           THEN Append(g[i - 1], [level |-> HeadingLevel(main[i], DominantFont(main)),
                                                  name |-> main[i].text, page |-> p,
                                                  sentences |-> main[i].sentences, ends |-> main[i].ends])
                           ELSE g[i - 1]
    <3>1. main \in Seq(Blocks(page))
      BY <1>1
    <3> QED BY <3>1, PageUnitsAre
  <2> QED BY <2>1 DEF font
<1> HIDE DEF main, font, heads, order
<1>4. \A i \in 1 .. n : main[i] \in Blocks(page)
  BY <1>1, ElementOfSeq
<1>5. Range(main) = {main[i] : i \in 1 .. n}
  BY <1>1, LenProperties DEF Range
<1> DEFINE name == [i \in 0 .. n |-> LastName(us \o g[i], level)]
           text == [i \in 1 .. n |-> main[i].text]
           at == {i \in 1 .. n : HeadingLevel(main[i], font) = level}
<1>6. ASSUME NEW i \in 1 .. n PROVE name[i] = IF i \in at THEN text[i] ELSE name[i - 1]
  <2> DEFINE b == main[i]
             L == HeadingLevel(b, font)
             unit == [level |-> L, name |-> b.text, page |-> p, sentences |-> b.sentences, ends |-> b.ends]
             x == us \o g[i - 1]
  <2>1. i \in 0 .. n /\ i - 1 \in 0 .. n
    BY <1>1
  <2>2. /\ b \in Blocks(page) /\ g[i - 1] \in Seq(UnitsOf(p))
        /\ g[i] = IF b.letters > 0 THEN Append(g[i - 1], unit) ELSE g[i - 1]
    BY <1>3, <1>4, <2>1
  <2>3. L \in Levels \union {"body"} /\ (L # "body" => b.letters > 0)
    BY <2>2, HeadingLevelIs
  <2>4. name[i] = LastName(us \o g[i], level) /\ name[i - 1] = LastName(x, level)
        /\ text[i] = b.text /\ (i \in at <=> L = level)
    BY <2>1
  <2>5. unit \in Units /\ unit.level = L /\ unit.name = b.text
    <3>1. b.sentences \in Seq(Nat) /\ b.ends \in BOOLEAN /\ b.text \in Names
      BY <2>2, PageBlocks DEF Names
    <3> HIDE DEF b, L
    <3> QED BY <2>3, <3>1 DEF Units
  <2>6. g[i - 1] \in Seq(Units) /\ x \in Seq(Units)
    <3>1. UnitsOf(p) \subseteq Units
      BY DEF UnitsOf, Units
    <3>2. g[i - 1] \in Seq(Units)
      BY <2>2, <3>1, SeqMonotonic
    <3> QED BY <3>2, ConcatProperties
  <2> HIDE DEF b, L, name, text, at, unit
  <2>7. L = level => b.letters > 0
    BY <2>3 DEF Levels
  <2>8. CASE b.letters > 0
    <3>1. us \o g[i] = Append(x, unit)
      BY <2>2, <2>5, <2>6, <2>8, ConcatAppend
    <3> HIDE DEF x
    <3>2. LastName(Append(x, unit), level) = IF L = level THEN b.text ELSE LastName(x, level)
      BY <2>5, <2>6, LastNameAppend
    <3> QED BY <2>4, <3>1, <3>2
  <2>9. CASE ~(b.letters > 0)
    BY <2>2, <2>4, <2>7, <2>9
  <2> QED BY <2>8, <2>9
<1>7. /\ name[0] = LastName(us, level)
      /\ name[n] = LastName(us \o PageUnits(main, p), level)
  <2>1. us \o <<>> = us
    BY ConcatEmptySeq
  <2>2. 0 \in 0 .. n /\ n \in 0 .. n
    BY <1>1
  <2> QED BY <1>3, <2>1, <2>2
<1>8. at \in SUBSET (1 .. n) /\ \A i \in 1 .. n : text[i] = main[i].text /\ (i \in at <=> main[i] \in heads)
  BY <1>2, <1>5
<1> HIDE DEF name, text, at
<1>9. /\ at = {} => name[n] = name[0]
      /\ at # {} => \E j \in at : name[n] = text[j] /\ \A k \in at : k <= j
  <2>1. SetAt(at, n, name, text)
    BY <1>1, <1>6, <1>8 DEF SetAt
  <2> QED BY <2>1, LastSet
<1>10. \A b \in heads : \E i \in at : main[i] = b
  BY <1>2, <1>5, <1>8
<1>11. heads = {} => at = {}
  BY <1>8
<1>12. ASSUME heads # {} PROVE \E b \in heads : name[n] = b.text /\ \A c \in heads : c = b \/ order[c] < order[b]
  <2>1. PICK j \in at : name[n] = text[j] /\ \A k \in at : k <= j
    BY <1>9, <1>10, <1>12
  <2>2. main[j] \in heads /\ text[j] = main[j].text /\ j \in 1 .. n
    BY <1>8, <2>1
  <2>3. ASSUME NEW c \in heads PROVE c = main[j] \/ order[c] < order[main[j]]
    <3>1. PICK k \in at : main[k] = c
      BY <1>10
    <3>2. k <= j /\ k \in 1 .. n
      BY <1>8, <2>1
    <3>3. k = j \/ k < j
      BY <2>2, <3>2
    <3> QED BY <1>1, <2>2, <3>1, <3>2, <3>3
  <2> QED BY <2>1, <2>2, <2>3
<1> QED
  BY <1>7, <1>9, <1>11, <1>12 DEF heads, main, order

\* The headings that both stages find in one column are read in one order.
LEMMA SharedAreReadAlike ==
  ASSUME NEW page \in Leaves \union Plates, NEW p \in Nat, NEW r \in Readings, NEW us \in Seq(Units),
         NEW level \in Levels, HeadingsInMetadata(page, level) # {}, Shared(page, level)
  PROVE  ReadHeadings(r, Headings(page, p)).open[level].name = LastName(us \o PageUnits(MainText(page), p), level)
<1> DEFINE heads == HeadingsInMetadata(page, level)
           order == ReadingOrder(page)
           opened == ReadHeadings(r, Headings(page, p)).open[level].name
           last == LastName(us \o PageUnits(MainText(page), p), level)
<1>1. heads = HeadingsInText(page, level) /\ \E column \in Columns(Flow(page)) : heads \subseteq column
  BY DEF Shared
<1>2. PICK column \in Columns(Flow(page)) : heads \subseteq column
  BY <1>1
<1>3. PICK a \in heads : opened = a.text /\ \A c \in heads : c = a \/ Above(c, a)
  BY LastHeadingInMetadata
<1>4. PICK b \in heads : last = b.text /\ \A c \in heads : c = b \/ order[c] < order[b]
  <2> HIDE DEF heads
  <2>1. HeadingsInText(page, level) # {}
    BY <1>1 DEF heads
  <2>2. \E b \in HeadingsInText(page, level) :
          last = b.text /\ \A c \in HeadingsInText(page, level) : c = b \/ order[c] < order[b]
    BY <2>1, LastHeadingInText
  <2> QED BY <1>1, <2>2
<1>5. PICK H \in Nat, F \in Nat : Zones(page, order, H, F)
  BY ZonesAre
<1>6. order[a] \in Int /\ order[b] \in Int
  <2>1. heads \subseteq Blocks(page)
    BY DEF HeadingsInMetadata, Flow
  <2> QED BY <1>3, <1>4, <2>1, ReadingOrderIs
<1>7. Above(b, a) => order[b] < order[a]
  BY <1>2, <1>3, <1>4, <1>5 DEF Zones
<1> HIDE DEF heads, order
<1>8. a = b
  BY <1>3, <1>4, <1>6, <1>7
<1> QED
  BY <1>3, <1>4, <1>8

\* The pages on which either stage finds a heading of a level, and a book in
\* which both find those of the last of these pages.
MarkedPages(ps, level) ==
  {p \in DOMAIN ps : HeadingsInMetadata(ps[p], level) \union HeadingsInText(ps[p], level) # {}}
Mended(ps, level) ==
  MarkedPages(ps, level) # {} => Shared(ps[Max(MarkedPages(ps, level))], level)

LEMMA MendedAppend ==
  ASSUME NEW ps \in Seq(Leaves \union Plates), NEW page \in Leaves \union Plates, NEW level \in LabelLevels,
         Mended(Append(ps, page), level)
  PROVE  IF HeadingsInMetadata(page, level) \union HeadingsInText(page, level) = {} THEN Mended(ps, level)
         ELSE Shared(page, level)
<1> DEFINE n == Len(ps)
           qs == Append(ps, page)
           old == MarkedPages(ps, level)
           new == MarkedPages(qs, level)
           found == HeadingsInMetadata(page, level) \union HeadingsInText(page, level)
<1>1. n \in Nat /\ DOMAIN ps = 1 .. n /\ DOMAIN qs = 1 .. n + 1 /\ qs[n + 1] = page /\ \A i \in 1 .. n : qs[i] = ps[i]
  BY LenProperties, AppendProperties
<1> HIDE DEF qs, n
<1>2. old \in SUBSET (1 .. n) /\ new = old \union (IF found = {} THEN {} ELSE {n + 1})
  <2>1. \A i \in 1 .. n + 1 : i \in 1 .. n \/ i = n + 1
    BY <1>1
  <2>2. 1 .. n \subseteq 1 .. n + 1 /\ n + 1 \in 1 .. n + 1
    BY <1>1
  <2> QED BY <1>1, <2>1, <2>2 DEF MarkedPages
<1>3. new # {} => Shared(qs[Max(new)], level)
  BY DEF Mended, qs
<1> HIDE DEF old, new, found
<1>4. old \in SUBSET Int /\ IsFiniteSet(old) /\ new \in SUBSET Int /\ IsFiniteSet(new)
  <2>1. 1 .. n + 1 \in SUBSET Int /\ IsFiniteSet(1 .. n + 1)
    BY <1>1, FS_Interval
  <2>2. old \in SUBSET (1 .. n + 1) /\ new \in SUBSET (1 .. n + 1)
    BY <1>1, <1>2
  <2> QED BY <2>1, <2>2, FS_Subset
<1>5. CASE found = {}
  <2>1. new = old
    BY <1>2, <1>5
  <2>2. old # {} => Max(old) \in 1 .. n
    BY <1>2, <1>4, MinMaxAre
  <2>3. old # {} => Shared(ps[Max(old)], level)
    BY <1>1, <1>3, <2>1, <2>2
  <2>4. Mended(ps, level)
    BY <2>3 DEF Mended, old
  <2> QED BY <1>5, <2>4 DEF found
<1>6. CASE found # {}
  <2>1. n + 1 \in new /\ n + 1 \in Int /\ \A i \in new : i \in Int /\ i <= n + 1
    <3>1. new = old \union {n + 1}
      BY <1>2, <1>6
    <3>2. n + 1 \in Int /\ n + 1 <= n + 1 /\ \A i \in old : i \in Int /\ i <= n + 1
      BY <1>1, <1>2
    <3> QED BY <1>1, <3>1, <3>2
  <2>2. Max(new) \in new /\ n + 1 <= Max(new)
    BY <1>4, <2>1, MinMaxAre
  <2>3. Max(new) = n + 1
    <3> DEFINE m == n + 1
               largest == Max(new)
    <3>1. m \in Int /\ largest \in Int /\ largest <= m /\ m <= largest
      BY <2>1, <2>2
    <3> HIDE DEF m, largest
    <3> QED BY <3>1 DEF m, largest
  <2>4. Shared(page, level)
    BY <1>1, <1>3, <2>1, <2>3
  <2> QED BY <1>6, <2>4 DEF found
<1> QED
  BY <1>5, <1>6

\* The names that are open are those the chunker finds, of every level whose
\* last headings both have found.
StagesInv ==
  /\ pages # <<>> => labels[Len(pages)] = Label(reading)
  /\ \A level \in LabelLevels : Mended(pages, level) => reading.open[level].name = LastName(units, level)

LEMMA InitStagesInv == Init => StagesInv
<1> SUFFICES ASSUME Init PROVE StagesInv
  OBVIOUS
<1>1. pages = <<>> /\ units = <<>> /\ Len(units) = 0 /\ reading.open = [level \in Levels |-> NoSection]
  BY DEF Init
<1>2. ASSUME NEW level \in LabelLevels PROVE LastName(units, level) = NoName /\ level \in Levels
  <2>1. {j \in 1 .. 0 : units[j].level = level} = {}
    OBVIOUS
  <2>2. level \in Levels
    BY DEF Levels, LabelLevels
  <2> QED BY <1>1, <2>1, <2>2 DEF LastName, ContextAt
<1> QED
  BY <1>1, <1>2 DEF StagesInv, NoSection

LEMMA StepStagesInv == BookTypeInv /\ StagesInv /\ [Next]_vars => StagesInv'
<1> SUFFICES ASSUME BookTypeInv, StagesInv, [Next]_vars PROVE StagesInv'
  OBVIOUS
<1>1. CASE Next
  <2>1. PICK page \in Following : ReadPage(page)
    BY <1>1 DEF Next
  <2>2. page \in Leaves \union Plates
    BY FollowingPages
  <2> DEFINE p == Len(pages) + 1
  <2>3. /\ Len(pages) \in Nat /\ pages' = Append(pages, page) /\ Len(pages') = p
        /\ reading' = ReadHeadings(reading, Headings(page, p))
        /\ labels'[Len(labels) + 1] = Label(reading')
        /\ units' = units \o PageUnits(MainText(page), p)
    BY <2>1, <2>2, ReadPageDoes
  <2>4. labels'[Len(pages')] = Label(reading')
    BY <2>3 DEF BookTypeInv
  <2>5. reading \in Readings /\ units \in Seq(Units) /\ pages \in Seq(Leaves \union Plates) /\ p \in Nat
    BY <2>3 DEF BookTypeInv
  <2> HIDE DEF p
  <2>6. ASSUME NEW level \in LabelLevels, Mended(pages', level)
        PROVE  reading'.open[level].name = LastName(units', level)
    <3>1. level \in Levels
      BY DEF Levels, LabelLevels
    <3>2. IF HeadingsInMetadata(page, level) \union HeadingsInText(page, level) = {} THEN Mended(pages, level)
          ELSE Shared(page, level)
      BY <2>2, <2>3, <2>5, <2>6, MendedAppend
    <3>3. CASE HeadingsInMetadata(page, level) \union HeadingsInText(page, level) = {}
      <4>1. HeadingsInMetadata(page, level) = {} /\ HeadingsInText(page, level) = {}
        BY <3>3
      <4>2. reading.open[level].name = LastName(units, level)
        BY <3>2, <3>3 DEF StagesInv
      <4>3. reading'.open[level].name = reading.open[level].name
        BY <2>2, <2>3, <2>5, <3>1, <4>1, LastHeadingInMetadata
      <4>4. LastName(units', level) = LastName(units, level)
        BY <2>2, <2>3, <2>5, <3>1, <4>1, LastHeadingInText
      <4> QED BY <4>2, <4>3, <4>4
    <3>4. CASE HeadingsInMetadata(page, level) \union HeadingsInText(page, level) # {}
      <4>1. Shared(page, level)
        BY <3>2, <3>4
      <4>2. HeadingsInMetadata(page, level) # {}
        BY <3>4, <4>1 DEF Shared
      <4> QED BY <2>2, <2>3, <2>5, <3>1, <4>1, <4>2, SharedAreReadAlike
    <3> QED BY <3>3, <3>4
  <2> QED BY <2>4, <2>6 DEF StagesInv
<1>2. CASE UNCHANGED vars
  BY <1>2 DEF vars, StagesInv, LastName
<1> QED
  BY <1>1, <1>2

\* However many pages and headings a book has, the sections the metadata names
\* and the context of the chunker are the same of every level, as long as both
\* stages find its headings, and in one column, on the last page that has any:
\* footnotes, glosses, columns and bands that only one of them reads
\* (_detect_structures, _page_units) do not matter otherwise.
THEOREM StagesAlwaysAgree == Spec => []StagesAgreeOnSections
<1>1. Init => BookTypeInv /\ StagesInv
  BY InitBookTypeInv, InitStagesInv
<1>2. BookTypeInv /\ StagesInv /\ [Next]_vars => (BookTypeInv /\ StagesInv)'
  BY StepBookTypeInv, StepStagesInv
<1>3. BookTypeInv /\ StagesInv => StagesAgreeOnSections
  <2> SUFFICES ASSUME BookTypeInv, StagesInv, pages # <<>>, NEW level \in LabelLevels, Mended(pages, level)
               PROVE  ContextAt(units, Len(units))[level] = labels[Len(pages)][level]
    BY DEF StagesAgreeOnSections, Mended, MarkedPages
  <2>1. reading.open[level].name = LastName(units, level)
    BY DEF StagesInv
  <2>2. labels[Len(pages)][level] = reading.open[level].name
    BY DEF StagesInv, Label
  <2> QED BY <2>1, <2>2 DEF LastName
<1> QED
  BY <1>1, <1>2, <1>3, PTL DEF Spec

-----------------------------------------------------------------------------
(* Where a chunk begins.                                                   *)

Pairs == Nat \X Nat

LEMMA PairsAre ==
  ASSUME NEW R \in Seq(Pairs)
  PROVE  /\ Len(R) \in Nat /\ \A k \in 1 .. Len(R) : R[k] \in Pairs /\ R[k][1] \in Nat /\ R[k][2] \in Nat
         /\ \A k \in 1 .. Len(R) : R[k] = <<R[k][1], R[k][2]>>
<1>1. Len(R) \in Nat /\ \A k \in 1 .. Len(R) : R[k] \in Pairs
  BY LenProperties, ElementOfSeq
<1> QED
  BY <1>1 DEF Pairs

\* The ranges of R are a to b, one after the other, and nothing of B is inside
\* one.
Cuts(R, a, b, B) ==
  /\ R \in Seq(Pairs) /\ Len(R) # 0
  /\ \A k \in 1 .. Len(R) : /\ a <= R[k][1] /\ R[k][1] < R[k][2] /\ R[k][2] <= b
                            /\ \A s \in B : ~(R[k][1] < s /\ s < R[k][2])
  /\ R[1][1] = a /\ R[Len(R)][2] = b
  /\ \A k \in 1 .. Len(R) - 1 : R[k][2] = R[k + 1][1]

LEMMA RangesAre ==
  ASSUME NEW first \in Nat, NEW next \in Nat, first < next, NEW starts \in SUBSET (first .. next - 1)
  PROVE  Cuts(Ranges(starts, first, next), first, next, starts)
<1> DEFINE S == {first} \union starts
           begins == Sorted(S, Less)
           n == Cardinality(S)
           end(k) == IF k = n THEN next ELSE begins[k + 1]
           f == [k \in DOMAIN begins |-> <<begins[k], IF k = Len(begins) THEN next ELSE begins[k + 1]>>]
           R == Ranges(starts, first, next)
<1>1. S \in SUBSET Int /\ S \in SUBSET (first .. next - 1) /\ first \in S /\ starts \subseteq S
  OBVIOUS
<1>2. IsFiniteSet(S)
  <2>1. IsFiniteSet(first .. next - 1)
    BY FS_Interval
  <2> HIDE DEF S
  <2> QED BY <1>1, <2>1, FS_Subset
<1>3. R = SubSeq(f, 1, Len(begins))
  BY DEF Ranges
<1> HIDE DEF S, R
<1>4. /\ n \in Nat /\ begins \in Seq(S) /\ Len(begins) = n
      /\ \A a \in S : \E p \in 1 .. n : begins[p] = a
      /\ \A p, q \in 1 .. n : p < q <=> begins[p] < begins[q]
  BY <1>1, <1>2, NumbersInOrder
<1> HIDE DEF begins, n
<1>5. DOMAIN begins = 1 .. n /\ \A p \in 1 .. n : begins[p] \in S /\ first <= begins[p] /\ begins[p] < next /\ begins[p] \in Nat
  <2>1. DOMAIN begins = 1 .. n /\ \A p \in 1 .. n : begins[p] \in S
    BY <1>4, LenProperties, ElementOfSeq
  <2>2. \A s \in S : first <= s /\ s < next /\ s \in Nat
    BY <1>1
  <2> QED BY <2>1, <2>2
<1>6. 1 \in 1 .. n /\ n \in 1 .. n /\ begins[1] = first
  <2>1. PICK p \in 1 .. n : begins[p] = first
    BY <1>1, <1>4
  <2>2. 1 \in 1 .. n /\ n \in 1 .. n
    BY <1>4
  <2>3. ~(1 < p)
    BY <1>4, <1>5, <2>1, <2>2
  <2>4. p = 1
    BY <1>4, <2>3
  <2> QED BY <2>1, <2>2, <2>4
<1>7. ASSUME NEW k \in 1 .. n PROVE end(k) \in Nat /\ begins[k] < end(k) /\ end(k) <= next
  <2>1. CASE k = n
    BY <1>5, <2>1
  <2>2. CASE k # n
    <3>1. k + 1 \in 1 .. n /\ k < k + 1
      BY <1>4, <2>2
    <3> QED BY <1>4, <1>5, <2>2, <3>1
  <2> QED BY <2>1, <2>2
<1>8. \A k \in 1 .. n : f[k] = <<begins[k], end(k)>> /\ f[k] \in Pairs
  BY <1>4, <1>5, <1>7 DEF Pairs
<1> HIDE DEF f
<1>9. R \in Seq(Pairs) /\ Len(R) = n /\ \A k \in 1 .. n : R[k] = f[k]
  BY <1>3, <1>4, <1>8, FirstOf
<1>10. \A k \in 1 .. n : R[k][1] = begins[k] /\ R[k][2] = end(k)
  BY <1>8, <1>9
<1>11. ASSUME NEW k \in 1 .. n, NEW s \in starts, begins[k] < s, s < end(k) PROVE FALSE
  <2>1. PICK p \in 1 .. n : begins[p] = s
    BY <1>1, <1>4
  <2>2. k < p
    BY <1>4, <1>11, <2>1
  <2>3. k + 1 \in 1 .. n /\ k # n
    BY <1>4, <2>2
  <2>4. begins[p] < begins[k + 1]
    BY <1>11, <2>1, <2>3
  <2>5. p < k + 1
    BY <1>4, <2>3, <2>4
  <2> QED BY <2>2, <2>5
<1>12. \A k \in 1 .. n - 1 : k \in 1 .. n /\ k + 1 \in 1 .. n /\ k # n
  BY <1>4
<1>13. n # 0
  BY <1>6
<1>14. \A k \in 1 .. n : /\ first <= R[k][1] /\ R[k][1] < R[k][2] /\ R[k][2] <= next
                         /\ \A s \in starts : ~(R[k][1] < s /\ s < R[k][2])
  BY <1>5, <1>7, <1>10, <1>11
<1>15. R[1][1] = first /\ R[n][2] = next
  BY <1>6, <1>10
<1>16. \A k \in 1 .. n - 1 : R[k][2] = R[k + 1][1]
  BY <1>10, <1>12
<1>17. Cuts(R, first, next, starts)
  BY <1>9, <1>13, <1>14, <1>15, <1>16 DEF Cuts
<1> QED
  BY <1>17 DEF R

\* Ranges that follow one another.
LEMMA CutsJoin ==
  ASSUME NEW a \in Nat, NEW c \in Nat, NEW d \in Nat, NEW B, a <= c, c < d,
         NEW x, NEW y, Cuts(x, a, c, B), Cuts(y, c, d, B)
  PROVE  Cuts(x \o y, a, d, B)
<1>4. /\ x \in Seq(Pairs) /\ Len(x) # 0 /\ x[1][1] = a /\ x[Len(x)][2] = c
      /\ \A k \in 1 .. Len(x) : /\ a <= x[k][1] /\ x[k][1] < x[k][2] /\ x[k][2] <= c
                                /\ \A s \in B : ~(x[k][1] < s /\ s < x[k][2])
      /\ \A k \in 1 .. Len(x) - 1 : x[k][2] = x[k + 1][1]
  BY DEF Cuts
<1>5. /\ y \in Seq(Pairs) /\ Len(y) # 0 /\ y[1][1] = c /\ y[Len(y)][2] = d
      /\ \A k \in 1 .. Len(y) : /\ c <= y[k][1] /\ y[k][1] < y[k][2] /\ y[k][2] <= d
                                /\ \A s \in B : ~(y[k][1] < s /\ s < y[k][2])
      /\ \A k \in 1 .. Len(y) - 1 : y[k][2] = y[k + 1][1]
  BY DEF Cuts
<1> DEFINE z == x \o y
<1>6. /\ z \in Seq(Pairs) /\ Len(x) \in Nat /\ Len(y) \in Nat /\ Len(z) = Len(x) + Len(y)
      /\ \A p \in 1 .. Len(x) : p \in 1 .. Len(z) /\ z[p] = x[p]
      /\ \A p \in 1 .. Len(y) : Len(x) + p \in 1 .. Len(z) /\ z[Len(x) + p] = y[p]
      /\ \A p \in 1 .. Len(z) :
           \/ p \in 1 .. Len(x)
           \/ p - Len(x) \in 1 .. Len(y) /\ p = Len(x) + (p - Len(x)) /\ z[p] = y[p - Len(x)]
  BY <1>4, <1>5, ConcatHas
<1> HIDE DEF z
<1>7. \A p \in 1 .. Len(x) : x[p][1] \in Nat /\ x[p][2] \in Nat
  BY <1>4, PairsAre
<1>8. \A p \in 1 .. Len(y) : y[p][1] \in Nat /\ y[p][2] \in Nat
  BY <1>5, PairsAre
<1>9. ASSUME NEW p \in 1 .. Len(z)
      PROVE  /\ a <= z[p][1] /\ z[p][1] < z[p][2] /\ z[p][2] <= d
             /\ \A s \in B : ~(z[p][1] < s /\ s < z[p][2])
  <2>1. CASE p \in 1 .. Len(x)
    <3>1. z[p] = x[p]
      BY <1>6, <2>1
    <3> QED BY <1>4, <1>7, <2>1, <3>1
  <2>2. CASE p \notin 1 .. Len(x)
    <3>1. p - Len(x) \in 1 .. Len(y) /\ z[p] = y[p - Len(x)]
      BY <1>6, <2>2
    <3> DEFINE q == p - Len(x)
    <3> HIDE DEF q
    <3>2. q \in 1 .. Len(y) /\ z[p] = y[q]
      BY <3>1 DEF q
    <3> QED BY <1>5, <1>8, <3>2
  <2> QED BY <2>1, <2>2
<1>10. 1 \in 1 .. Len(x) /\ Len(y) \in 1 .. Len(y) /\ Len(z) # 0
  BY <1>4, <1>5, <1>6
<1>11. z[1][1] = a /\ z[Len(z)][2] = d
  BY <1>4, <1>5, <1>6, <1>10
<1>12. ASSUME NEW p \in 1 .. Len(z) - 1 PROVE z[p][2] = z[p + 1][1]
  <2>1. CASE p < Len(x)
    <3>1. p \in 1 .. Len(x) - 1 /\ p \in 1 .. Len(x) /\ p + 1 \in 1 .. Len(x)
      BY <1>6, <2>1
    <3>2. z[p] = x[p] /\ z[p + 1] = x[p + 1]
      BY <1>6, <3>1
    <3>3. x[p][2] = x[p + 1][1]
      BY <1>4, <3>1
    <3> QED BY <3>2, <3>3
  <2>2. CASE p = Len(x)
    <3>1. p \in 1 .. Len(x) /\ 1 \in 1 .. Len(y)
      BY <1>6, <2>2
    <3> QED BY <1>4, <1>5, <1>6, <2>2, <3>1
  <2>3. CASE p > Len(x)
    <3> DEFINE q == p - Len(x)
    <3>1. q \in 1 .. Len(y) - 1 /\ q \in 1 .. Len(y) /\ q + 1 \in 1 .. Len(y)
          /\ Len(x) + q = p /\ Len(x) + (q + 1) = p + 1
      BY <1>6, <2>3
    <3> HIDE DEF q
    <3>2. z[p] = y[q] /\ z[p + 1] = y[q + 1]
      <4>1. z[Len(x) + q] = y[q] /\ z[Len(x) + (q + 1)] = y[q + 1]
        BY <1>6, <3>1
      <4> QED BY <3>1, <4>1
    <3> QED BY <1>5, <3>1, <3>2
  <2> QED BY <1>6, <2>1, <2>2, <2>3
<1>13. Cuts(z, a, d, B)
  BY <1>6, <1>9, <1>10, <1>11, <1>12 DEF Cuts
<1> QED
  BY <1>13 DEF z

\* Ranges that are cut again are still ranges.
LEMMA CutAgain ==
  ASSUME NEW a \in Nat, NEW b \in Nat, NEW B, NEW R, Cuts(R, a, b, B),
         NEW seqs \in Seq(Seq(Pairs)), Len(seqs) = Len(R),
         \A k \in 1 .. Len(R) : Cuts(seqs[k], R[k][1], R[k][2], B)
  PROVE  Cuts(FlattenSeq(seqs), a, b, B)
<1> DEFINE n == Len(R)
           T == Pairs
<1>1. PICK f : /\ f \in [0 .. Len(seqs) -> Seq(T)] /\ f[0] = <<>>
               /\ \A i \in 1 .. Len(seqs) : f[i] = f[i - 1] \o seqs[i]
               /\ FlattenSeq(seqs) = f[Len(seqs)]
  BY FlattenIs
<1>2. n \in Nat /\ n # 0 /\ \A k \in 1 .. n : R[k][1] \in Nat /\ R[k][2] \in Nat
  <2>1. R \in Seq(Pairs) /\ n # 0
    BY DEF Cuts
  <2> QED BY <2>1, PairsAre
<1> DEFINE good == {i \in 0 .. n : i = 0 \/ Cuts(f[i], a, R[i][2], B)}
<1>3. 0 \in good
  BY <1>2
<1>4. ASSUME NEW i \in 0 .. n - 1, i \in good PROVE i + 1 \in good
  <2> DEFINE x == f[i]
             y == seqs[i + 1]
             j == i + 1
  <2>1. j \in 1 .. n /\ j \in 0 .. n /\ i \in 0 .. n /\ j - 1 = i /\ j # 0
    BY <1>2
  <2>2. f[j] = x \o y /\ x \in Seq(T)
    BY <1>1, <2>1
  <2>3. Cuts(y, R[j][1], R[j][2], B)
    BY <2>1
  <2>4. R[j][1] \in Nat /\ R[j][2] \in Nat /\ a <= R[j][1] /\ R[j][1] < R[j][2] /\ R[j][2] <= b
    BY <1>2, <2>1 DEF Cuts
  <2>5. CASE i = 0
    <3>1. y \in Seq(T)
      BY <2>3 DEF Cuts
    <3>2. f[j] = y
      <4>1. x = <<>>
        BY <1>1, <2>5
      <4> HIDE DEF x, y
      <4> QED BY <2>2, <3>1, <4>1, ConcatEmptySeq
    <3>3. R[j][1] = a
      BY <2>5 DEF Cuts
    <3> HIDE DEF y
    <3>4. Cuts(f[j], a, R[j][2], B)
      BY <2>3, <3>2, <3>3
    <3> QED BY <2>1, <3>4
  <2>6. CASE i # 0
    <3>1. i \in 1 .. n - 1 /\ i \in 1 .. n
      BY <1>2, <2>1, <2>6
    <3>2. Cuts(x, a, R[i][2], B) /\ R[i][2] = R[j][1]
      BY <1>4, <2>6, <3>1 DEF Cuts
    <3> HIDE DEF x, y
    <3> DEFINE c == R[j][1]
               d == R[j][2]
    <3>3. Cuts(x, a, c, B) /\ Cuts(y, c, d, B) /\ c \in Nat /\ d \in Nat /\ c < d /\ a <= c
      BY <2>3, <2>4, <3>2
    <3> HIDE DEF c, d
    <3>4. Cuts(x \o y, a, d, B)
      BY <3>3, CutsJoin
    <3>5. Cuts(f[j], a, R[j][2], B)
      BY <2>2, <3>4 DEF d
    <3> QED BY <2>1, <3>5
  <2> QED BY <2>5, <2>6
<1>5. Cuts(f[n], a, R[n][2], B)
  <2>1. \A i \in 0 .. n : i \in good
    <3> HIDE DEF good, n
    <3> QED BY <1>2, <1>3, <1>4, Counting
  <2>2. n \in 0 .. n /\ n # 0
    BY <1>2
  <2> QED BY <2>1, <2>2
<1>6. R[n][2] = b
  BY DEF Cuts
<1> QED
  BY <1>1, <1>5, <1>6

LEMMA CutsOne ==
  ASSUME NEW r \in Pairs, r[1] < r[2], NEW B, \A s \in B : ~(r[1] < s /\ s < r[2])
  PROVE  Cuts(<<r>>, r[1], r[2], B)
<1> DEFINE one == <<r>>
<1>1. one \in Seq(Pairs) /\ Len(one) = 1 /\ one[1] = r
  OBVIOUS
<1>2. \A k \in 1 .. Len(one) : k = 1
  BY <1>1
<1>3. r[1] \in Nat /\ r[2] \in Nat
  BY DEF Pairs
<1> HIDE DEF one
<1>4. Cuts(one, r[1], r[2], B)
  BY <1>1, <1>2, <1>3 DEF Cuts
<1> QED
  BY <1>4 DEF one

LEMMA LevelsBelow ==
  ASSUME NEW us
  PROVE  /\ SubLevels(us) \in Seq(Levels) /\ Len(SubLevels(us)) \in Nat
         /\ BoundaryLevels(us) \subseteq Levels
<1>1. BoundaryLevels(us) \in SUBSET Levels
  BY DEF BoundaryLevels
<1>2. IsFiniteSet(Levels)
  <2>1. Levels = ({"kitab"} \union {"bab"}) \union ({"fasl"} \union {"topic"})
    BY DEF Levels
  <2> QED BY <2>1, FS_Singleton, FS_Union
<1>3. Cardinality(BoundaryLevels(us)) \in Nat
  BY <1>1, <1>2, FS_Subset, FS_CardinalityType
<1> DEFINE c == Cardinality(BoundaryLevels(us))
           below == SubSeq(ContextKeys, c + 1, Len(ContextKeys))
<1>4. Len(ContextKeys) = 4 /\ \A i \in 1 .. 4 : ContextKeys[i] \in Levels
  BY DEF ContextKeys, Levels
<1>5. below \in Seq(Levels)
  <2>1. \A i \in c + 1 .. 4 : ContextKeys[i] \in Levels
    BY <1>3, <1>4
  <2> HIDE DEF c
  <2> QED BY <1>3, <1>4, <2>1, SubSeqProperties DEF c
<1>6. SubLevels(us) = IF PrimaryLevels(us) = {} THEN <<>> ELSE below
  BY DEF SubLevels
<1>7. SubLevels(us) \in Seq(Levels)
  <2> HIDE DEF below
  <2> QED BY <1>5, <1>6, EmptySeq
<1> QED
  BY <1>1, <1>7, LenProperties

\* What is left of a range after its levels have cut it covers the range.
LEMMA SplitRangeIs ==
  ASSUME NEW us \in Seq(Units), NEW range \in (1 .. Len(us)) \X (2 .. Len(us) + 1), range[1] < range[2],
         NEW B \in SUBSET Int, \A s \in B : ~(range[1] < s /\ s < range[2])
  PROVE  Cuts(SplitRange(us, range), range[1], range[2], B)
<1> DEFINE n == Len(us)
           A == (DOMAIN us) \X (2 .. n + 1)
           levels == SubLevels(us)
           D == Len(levels)
           headings(r, left) == {i \in r[1] .. r[2] - 1 : us[i].level = levels[Len(levels) + 1 - left]}
           pieces(r, left) == Ranges(headings(r, left), r[1], r[2])
           whole(r, left) == Tokens(us, r) <= MaxTokens \/ left = 0 \/ headings(r, left) = {}
           cutBy(h, r, left) == FlattenSeq([k \in DOMAIN pieces(r, left) |-> h[pieces(r, left)[k]]])
           layer(h, left) == [r \in A |-> IF whole(r, left) THEN <<r>> ELSE cutBy(h, r, left)]
           R == [A -> Seq(Pairs)]
<1>1. n \in Nat /\ DOMAIN us = 1 .. n /\ range \in A
  BY LenProperties
<1>2. D \in Nat
  BY LevelsBelow
<1>3. \A r \in A : r \in Pairs /\ r[1] \in 1 .. n /\ r[2] \in 2 .. n + 1 /\ r[1] \in Nat /\ r[2] \in Nat
  BY <1>1 DEF Pairs
<1>4. ASSUME NEW x \in Pairs, 1 <= x[1], x[1] < x[2], x[2] <= n + 1 PROVE x \in A
  <2>1. x = <<x[1], x[2]>> /\ x[1] \in Nat /\ x[2] \in Nat
    BY DEF Pairs
  <2>2. x[1] \in 1 .. n /\ x[2] \in 2 .. n + 1
    BY <1>1, <1>4, <2>1
  <2> QED BY <1>1, <2>1, <2>2
<1> HIDE DEF n, A, levels, D
<1>5. ASSUME NEW r \in A, NEW left, ~whole(r, left)
      PROVE  /\ r[1] < r[2] /\ Cuts(pieces(r, left), r[1], r[2], headings(r, left))
             /\ pieces(r, left) \in Seq(Pairs)
             /\ \A k \in 1 .. Len(pieces(r, left)) :
                  pieces(r, left)[k] \in A /\ pieces(r, left)[k][1] < pieces(r, left)[k][2]
  <2> DEFINE hs == headings(r, left)
             ps == pieces(r, left)
  <2>1. hs # {} /\ hs \in SUBSET (r[1] .. r[2] - 1)
    BY <1>5
  <2>2. r[1] \in Nat /\ r[2] \in Nat /\ 1 <= r[1] /\ r[2] <= n + 1
    BY <1>1, <1>3
  <2> HIDE DEF hs
  <2>3. r[1] < r[2]
    <3>1. PICK i \in hs : TRUE
      BY <2>1
    <3>2. i \in r[1] .. r[2] - 1
      BY <2>1
    <3> QED BY <2>2, <3>2
  <2>4. Cuts(ps, r[1], r[2], hs)
    BY <2>1, <2>2, <2>3, RangesAre DEF hs
  <2> HIDE DEF ps
  <2>5. ps \in Seq(Pairs) /\ \A k \in 1 .. Len(ps) : r[1] <= ps[k][1] /\ ps[k][1] < ps[k][2] /\ ps[k][2] <= r[2]
    BY <2>4 DEF Cuts
  <2>6. ASSUME NEW k \in 1 .. Len(ps) PROVE ps[k] \in A /\ ps[k][1] < ps[k][2]
    <3>1. ps[k] \in Pairs /\ ps[k][1] \in Nat /\ ps[k][2] \in Nat
      BY <2>5, PairsAre
    <3>2. 1 <= ps[k][1] /\ ps[k][1] < ps[k][2] /\ ps[k][2] <= n + 1
      BY <1>1, <2>2, <2>5, <3>1, SMTT(20)
    <3> QED BY <1>4, <3>1, <3>2
  <2> QED BY <2>3, <2>4, <2>5, <2>6 DEF ps, hs
<1> HIDE DEF pieces, headings, whole
<1>6. ASSUME NEW h \in R, NEW r \in A, NEW left, ~whole(r, left)
      PROVE  /\ [k \in DOMAIN pieces(r, left) |-> h[pieces(r, left)[k]]] \in Seq(Seq(Pairs))
             /\ Len([k \in DOMAIN pieces(r, left) |-> h[pieces(r, left)[k]]]) = Len(pieces(r, left))
             /\ cutBy(h, r, left) \in Seq(Pairs)
  <2> DEFINE ps == pieces(r, left)
             parts == [k \in DOMAIN ps |-> h[ps[k]]]
  <2>1. ps \in Seq(Pairs) /\ \A k \in 1 .. Len(ps) : ps[k] \in A
    BY <1>5, <1>6
  <2> HIDE DEF ps
  <2>2. DOMAIN ps = 1 .. Len(ps) /\ Len(ps) \in Nat
    BY <2>1, LenProperties
  <2>3. parts \in [1 .. Len(ps) -> Seq(Pairs)]
    BY <2>1, <2>2
  <2> HIDE DEF parts
  <2>4. parts \in Seq(Seq(Pairs)) /\ Len(parts) = Len(ps)
    BY <2>2, <2>3, FunctionIsSeq
  <2>5. FlattenSeq(parts) \in Seq(Pairs)
    BY <2>4, FlattenHas
  <2> QED BY <2>4, <2>5 DEF parts, ps
<1>7. ASSUME NEW h \in R, NEW left PROVE layer(h, left) \in R
  <2> SUFFICES ASSUME NEW r \in A PROVE (IF whole(r, left) THEN <<r>> ELSE cutBy(h, r, left)) \in Seq(Pairs)
    OBVIOUS
  <2>1. <<r>> \in Seq(Pairs)
    BY <1>3
  <2> HIDE DEF cutBy
  <2> QED BY <1>6, <2>1
<1> DEFINE start == [r \in A |-> <<r>>]
           turns == [i \in 1 .. D |-> i]
           step == [h \in R |-> [left \in Nat |-> layer(h, left)]]
<1>8. start \in R
  <2>1. \A r \in A : <<r>> \in Seq(Pairs)
    BY <1>3
  <2> QED BY <2>1
<1>9. turns \in Seq(Nat) /\ Len(turns) = D /\ \A i \in 1 .. D : turns[i] = i
  <2>1. turns \in [1 .. D -> Nat] /\ \A i \in 1 .. D : turns[i] = i
    OBVIOUS
  <2> HIDE DEF turns
  <2> QED BY <1>2, <2>1, FunctionIsSeq
<1> HIDE DEF turns
<1>10. step \in Steps(R, Nat) /\ \A h \in R, left \in Nat : step[h][left] = layer(h, left)
  <2> HIDE DEF layer, R
  <2> QED BY <1>7 DEF Steps
<1>11. start = layer([r \in A |-> <<r>>], 0) /\ \A h : layer(h, 0) = start
  BY DEF whole
<1> HIDE DEF step, start, layer, R
<1>12. PICK f : Run(f, step, start, turns) /\ \A i \in 0 .. Len(turns) : f[i] \in R
  BY <1>8, <1>9, <1>10, LoopOf
<1>13. f = [left \in 0 .. D |-> layer(f[left - 1], left)]
  <2>1. /\ f = [i \in 0 .. D |-> f[i]] /\ f[0] = start /\ \A i \in 0 .. D : f[i] \in R
        /\ \A i \in 1 .. D : f[i] = step[f[i - 1]][turns[i]]
    BY <1>9, <1>12 DEF Run
  <2>2. ASSUME NEW i \in 0 .. D PROVE f[i] = layer(f[i - 1], i)
    <3>1. CASE i = 0
      BY <1>11, <2>1, <3>1
    <3>2. CASE i # 0
      <4>1. i \in 1 .. D /\ i - 1 \in 0 .. D /\ i \in Nat
        BY <1>2, <3>2
      <4>2. f[i - 1] \in R /\ f[i] = step[f[i - 1]][turns[i]] /\ turns[i] = i
        BY <1>9, <2>1, <4>1
      <4>3. step[f[i - 1]][i] = layer(f[i - 1], i)
        BY <1>10, <4>1, <4>2
      <4> QED BY <4>2, <4>3
    <3> QED BY <3>1, <3>2
  <2> QED BY <2>1, <2>2
<1> DEFINE g == CHOOSE g : g = [left \in 0 .. D |-> layer(g[left - 1], left)]
<1>14. g = [left \in 0 .. D |-> layer(g[left - 1], left)]
  BY <1>13
<1>15. SplitRange(us, range) = g[D][range]
  BY DEF SplitRange, layer, whole, cutBy, pieces, headings, levels, D, A, n
<1> HIDE DEF g
<1>16. g[0] = start /\ \A left \in 1 .. D : g[left] = layer(g[left - 1], left)
  BY <1>2, <1>11, <1>14
<1>17. \A left \in 0 .. D : g[left] \in R
  <2>1. \A i \in 1 .. D : g[i - 1] \in R => g[i] \in R
    BY <1>7, <1>16
  <2> QED BY <1>2, <1>8, <1>16, <2>1, LoopStays
<1> DEFINE covers(r, left) == r[1] < r[2] /\ (\A s \in B : ~(r[1] < s /\ s < r[2])) => Cuts(g[left][r], r[1], r[2], B)
           good == {left \in 0 .. D : \A r \in A : covers(r, left)}
<1>18. 0 \in good
  <2> SUFFICES ASSUME NEW r \in A, r[1] < r[2], \A s \in B : ~(r[1] < s /\ s < r[2])
               PROVE  Cuts(g[0][r], r[1], r[2], B)
    BY <1>2
  <2>1. g[0][r] = <<r>>
    BY <1>16 DEF start
  <2> QED BY <1>3, <2>1, CutsOne
<1>19. ASSUME NEW i \in 0 .. D - 1, i \in good PROVE i + 1 \in good
  <2> DEFINE left == i + 1
  <2>1. left \in 1 .. D /\ left \in 0 .. D /\ left - 1 = i /\ i \in 0 .. D
    BY <1>2
  <2>2. g[left] = layer(g[i], left) /\ g[i] \in R /\ \A r \in A : covers(r, i)
    BY <1>16, <1>17, <1>19, <2>1
  <2> HIDE DEF left, covers
  <2>3. ASSUME NEW r \in A PROVE covers(r, left)
    <3> SUFFICES ASSUME r[1] < r[2], \A s \in B : ~(r[1] < s /\ s < r[2])
                 PROVE  Cuts(g[left][r], r[1], r[2], B)
      BY DEF covers
    <3>1. g[left][r] = IF whole(r, left) THEN <<r>> ELSE cutBy(g[i], r, left)
      BY <2>2 DEF layer
    <3>2. CASE whole(r, left)
      BY <1>3, <3>1, <3>2, CutsOne
    <3>3. CASE ~whole(r, left)
      <4> DEFINE ps == pieces(r, left)
                 parts == [k \in DOMAIN ps |-> g[i][ps[k]]]
      <4>1. /\ ps \in Seq(Pairs) /\ Cuts(ps, r[1], r[2], headings(r, left))
            /\ \A k \in 1 .. Len(ps) : ps[k] \in A /\ ps[k][1] < ps[k][2]
        BY <1>5, <3>3
      <4>2. parts \in Seq(Seq(Pairs)) /\ Len(parts) = Len(ps) /\ cutBy(g[i], r, left) = FlattenSeq(parts)
        BY <1>6, <2>2, <3>3
      <4>3. DOMAIN ps = 1 .. Len(ps)
        BY <4>1, LenProperties
      <4> HIDE DEF ps
      <4>4. \A k \in 1 .. Len(ps) : parts[k] = g[i][ps[k]]
        BY <4>3
      <4> HIDE DEF parts
      <4>5. \A k \in 1 .. Len(ps) : ps[k][1] \in Nat /\ ps[k][2] \in Nat /\ r[1] <= ps[k][1] /\ ps[k][2] <= r[2]
        <5>1. \A k \in 1 .. Len(ps) : ps[k][1] \in Nat /\ ps[k][2] \in Nat
          BY <4>1, PairsAre
        <5> QED BY <4>1, <5>1 DEF Cuts
      <4>6. r[1] \in Nat /\ r[2] \in Nat
        BY <1>3
      <4>7. \A k \in 1 .. Len(ps), s \in B : ~(ps[k][1] < s /\ s < ps[k][2])
        <5> SUFFICES ASSUME NEW k \in 1 .. Len(ps), NEW s \in B, ps[k][1] < s, s < ps[k][2] PROVE FALSE
          OBVIOUS
        <5> DEFINE from == ps[k][1]
                   to == ps[k][2]
        <5>1. from \in Nat /\ to \in Nat /\ r[1] <= from /\ to <= r[2] /\ from < s /\ s < to
          BY <4>5
        <5>2. s \in Int
          OBVIOUS
        <5> HIDE DEF from, to
        <5>3. r[1] < s /\ s < r[2]
          BY <4>6, <5>1, <5>2
        <5> QED BY <5>3
      <4>8. \A k \in 1 .. Len(ps) : Cuts(parts[k], ps[k][1], ps[k][2], B)
        BY <2>2, <4>1, <4>4, <4>7 DEF covers
      <4>9. Cuts(ps, r[1], r[2], B)
        BY <4>1, <4>7 DEF Cuts
      <4>10. Cuts(FlattenSeq(parts), r[1], r[2], B)
        BY <4>2, <4>6, <4>8, <4>9, CutAgain
      <4> QED BY <3>1, <3>3, <4>2, <4>10
    <3> QED BY <3>2, <3>3
  <2>4. left \in good
    BY <2>1, <2>3
  <2> QED BY <2>4 DEF left
<1>20. \A left \in 0 .. D : left \in good
  <2> HIDE DEF good
  <2> QED BY <1>2, <1>18, <1>19, Counting
<1>21. covers(range, D)
  <2>1. D \in 0 .. D
    BY <1>2
  <2> QED BY <1>1, <1>20, <2>1
<1> QED
  BY <1>15, <1>21

-----------------------------------------------------------------------------
(* What a chunk holds.                                                     *)

LEMMA SumIs ==
  ASSUME NEW sizes \in Seq(Nat)
  PROVE  \E f : /\ f[0] = 0 /\ Sum(sizes) = f[Len(sizes)]
                /\ \A i \in 0 .. Len(sizes) : f[i] \in Nat
                /\ \A i \in 1 .. Len(sizes) : f[i] = f[i - 1] + sizes[i]
<1> DEFINE n == Len(sizes)
           step == [a \in Nat |-> [b \in Nat |-> a + b]]
<1>1. n \in Nat /\ \A i \in 1 .. n : sizes[i] \in Nat
  BY LenProperties, ElementOfSeq
<1>2. step \in Steps(Nat, Nat) /\ \A a \in Nat, b \in Nat : step[a][b] = a + b
  BY DEF Steps
<1> HIDE DEF step
<1>3. PICK f : Run(f, step, 0, sizes) /\ \A i \in 0 .. n : f[i] \in Nat
  BY <1>2, LoopOf
<1>4. f = [i \in 0 .. n |-> IF i = 0 THEN 0 ELSE f[i - 1] + sizes[i]]
  <2>1. /\ f = [i \in 0 .. n |-> f[i]] /\ f[0] = 0
        /\ \A i \in 1 .. n : f[i] = step[f[i - 1]][sizes[i]]
    BY <1>3 DEF Run
  <2>2. ASSUME NEW i \in 1 .. n PROVE f[i] = f[i - 1] + sizes[i]
    <3>1. i - 1 \in 0 .. n
      BY <1>1
    <3> QED BY <1>1, <1>2, <1>3, <2>1, <3>1
  <2>3. \A i \in 0 .. n : i # 0 => i \in 1 .. n
    BY <1>1
  <2> QED BY <2>1, <2>2, <2>3
<1> DEFINE g == CHOOSE g : g = [i \in 0 .. n |-> IF i = 0 THEN 0 ELSE g[i - 1] + sizes[i]]
<1>5. g = [i \in 0 .. n |-> IF i = 0 THEN 0 ELSE g[i - 1] + sizes[i]]
  BY <1>4
<1>6. Sum(sizes) = g[n]
  BY DEF Sum, Loop
<1> HIDE DEF g
<1>7. g[0] = 0 /\ \A i \in 1 .. n : g[i] = g[i - 1] + sizes[i]
  BY <1>1, <1>5
<1>8. \A i \in 0 .. n : g[i] \in Nat
  <2>1. \A i \in 1 .. n : g[i - 1] \in Nat => g[i] \in Nat
    BY <1>1, <1>7
  <2>2. n \in Nat /\ g[0] \in Nat
    BY <1>1, <1>7
  <2> HIDE DEF n
  <2> QED BY <2>1, <2>2, LoopStays
<1> QED
  BY <1>6, <1>7, <1>8

LEMMA SumAppend ==
  ASSUME NEW sizes \in Seq(Nat), NEW size \in Nat
  PROVE  Sum(Append(sizes, size)) = Sum(sizes) + size /\ Sum(sizes) \in Nat
<1> DEFINE n == Len(sizes)
           more == Append(sizes, size)
<1>1. /\ n \in Nat /\ more \in Seq(Nat) /\ Len(more) = n + 1 /\ more[n + 1] = size
      /\ \A i \in 1 .. n : more[i] = sizes[i]
  BY LenProperties, AppendProperties
<1>2. PICK f : /\ f[0] = 0 /\ Sum(sizes) = f[Len(sizes)]
               /\ \A i \in 0 .. Len(sizes) : f[i] \in Nat
               /\ \A i \in 1 .. Len(sizes) : f[i] = f[i - 1] + sizes[i]
  BY SumIs
<1> HIDE DEF more
<1>3. PICK g : /\ g[0] = 0 /\ Sum(more) = g[Len(more)]
               /\ \A i \in 0 .. Len(more) : g[i] \in Nat
               /\ \A i \in 1 .. Len(more) : g[i] = g[i - 1] + more[i]
  BY <1>1, SumIs
<1> DEFINE good == {i \in 0 .. n : g[i] = f[i]}
<1>4. 0 \in good
  BY <1>1, <1>2, <1>3
<1>5. ASSUME NEW i \in 0 .. n - 1, i \in good PROVE i + 1 \in good
  <2>1. i + 1 \in 1 .. n /\ i + 1 \in 1 .. n + 1 /\ (i + 1) - 1 = i
    BY <1>1
  <2>2. g[i + 1] = g[i] + more[i + 1] /\ f[i + 1] = f[i] + sizes[i + 1]
    BY <1>1, <1>2, <1>3, <2>1
  <2> QED BY <1>1, <1>5, <2>1, <2>2
<1>6. g[n] = f[n]
  <2>1. \A i \in 0 .. n : i \in good
    <3> HIDE DEF good, n
    <3> QED BY <1>1, <1>4, <1>5, Counting
  <2>2. n \in 0 .. n
    BY <1>1
  <2> QED BY <2>1, <2>2
<1>7. g[n + 1] = g[n] + size
  <2>1. n + 1 \in 1 .. n + 1 /\ (n + 1) - 1 = n
    BY <1>1
  <2>2. g[n + 1] = g[(n + 1) - 1] + more[n + 1]
    BY <1>1, <1>3, <2>1
  <2> QED BY <1>1, <2>1, <2>2
<1>8. f[n] \in Nat
  <2>1. n \in 0 .. n
    BY <1>1
  <2> QED BY <1>2, <2>1
<1> QED
  BY <1>1, <1>2, <1>3, <1>6, <1>7, <1>8 DEF more

BookSentence == [unit : Nat, at : Nat, tokens : Nat]

LEMMA SizeAppend ==
  ASSUME NEW pack \in Seq(BookSentence), NEW sentence \in BookSentence
  PROVE  Size(Append(pack, sentence)) = Size(pack) + sentence.tokens /\ Size(pack) \in Nat
<1> DEFINE n == Len(pack)
           more == Append(pack, sentence)
           sizes == [s \in DOMAIN pack |-> pack[s].tokens]
           all == [s \in DOMAIN more |-> more[s].tokens]
<1>1. /\ n \in Nat /\ DOMAIN pack = 1 .. n /\ more \in Seq(BookSentence) /\ Len(more) = n + 1
      /\ more[n + 1] = sentence /\ \A i \in 1 .. n : more[i] = pack[i] /\ pack[i] \in BookSentence
  BY LenProperties, AppendProperties, ElementOfSeq
<1>2. sentence.tokens \in Nat /\ \A i \in 1 .. n : pack[i].tokens \in Nat
  BY <1>1 DEF BookSentence
<1>3. DOMAIN more = 1 .. n + 1
  BY <1>1, LenProperties
<1> HIDE DEF more
<1>4. sizes \in Seq(Nat) /\ Len(sizes) = n /\ \A i \in 1 .. n : sizes[i] = pack[i].tokens
  <2>1. sizes \in [1 .. n -> Nat] /\ \A i \in 1 .. n : sizes[i] = pack[i].tokens
    BY <1>1, <1>2
  <2> HIDE DEF sizes, n
  <2> QED BY <1>1, <2>1, FunctionIsSeq
<1>5. all = Append(sizes, sentence.tokens)
  <2> DEFINE one == Append(sizes, sentence.tokens)
  <2>1. /\ one \in Seq(Nat) /\ Len(one) = n + 1 /\ one[n + 1] = sentence.tokens
        /\ \A i \in 1 .. n : one[i] = pack[i].tokens
    <3> HIDE DEF sizes, n
    <3> QED BY <1>2, <1>4, AppendProperties
  <2>2. one = [i \in 1 .. n + 1 |-> one[i]]
    <3> HIDE DEF one
    <3>1. one \in [1 .. Len(one) -> Nat]
      BY <2>1, LenProperties
    <3> QED BY <2>1, <3>1
  <2> HIDE DEF one, sizes
  <2>3. \A i \in 1 .. n + 1 : i \in 1 .. n \/ i = n + 1
    BY <1>1
  <2>4. \A i \in 1 .. n + 1 : one[i] = more[i].tokens
    BY <1>1, <2>1, <2>3
  <2>5. all = [i \in 1 .. n + 1 |-> more[i].tokens]
    BY <1>3
  <2> HIDE DEF all
  <2> QED BY <2>2, <2>4, <2>5 DEF one
<1> HIDE DEF sizes, all
<1>6. Sum(all) = Sum(sizes) + sentence.tokens /\ Sum(sizes) \in Nat
  BY <1>2, <1>4, <1>5, SumAppend
<1> QED
  BY <1>6 DEF Size, all, sizes, more

\* The tail of a chunk is its last sentences, at least one.
LEMMA TailIs ==
  ASSUME NEW pack \in Seq(BookSentence), pack # <<>>
  PROVE  \E k \in 1 .. Len(pack) : TailSentences(pack) = SubSeq(pack, Len(pack) - k + 1, Len(pack))
<1> DEFINE fits == {k \in 1 .. Len(pack) : Size(SubSeq(pack, Len(pack) - k + 1, Len(pack))) <= OverlapTokens}
           S == {1} \union fits
<1>1. Len(pack) \in Nat /\ Len(pack) # 0
  BY LenProperties, EmptySeq
<1>2. S \in SUBSET (1 .. Len(pack)) /\ S # {}
  BY <1>1
<1>3. S \in SUBSET Int
  BY <1>2
<1>4. IsFiniteSet(S)
  <2>1. IsFiniteSet(1 .. Len(pack))
    BY <1>1, FS_Interval
  <2> HIDE DEF S
  <2> QED BY <1>2, <2>1, FS_Subset
<1>5. TailSentences(pack) = SubSeq(pack, Len(pack) - Max(S) + 1, Len(pack))
  BY DEF TailSentences
<1> HIDE DEF S
<1>6. Max(S) \in S
  BY <1>2, <1>3, <1>4, MinMaxAre
<1> QED
  BY <1>2, <1>5, <1>6

-----------------------------------------------------------------------------
(* Passages as runs of sentences.                                          *)

\* Where the run before the k-th ends, when the first begins after lo.
Before(Q, k, lo) == IF k = 1 THEN lo ELSE Q[k - 1][2]

\* The runs of Q go from lo to hi: none begins behind a gap or before the one it
\* follows, and each ends further on.
InTurn(Q, lo, hi) ==
  /\ Q \in Seq(Pairs)
  /\ \A k \in 1 .. Len(Q) :
       /\ lo < Q[k][1] /\ Q[k][1] <= Q[k][2] /\ Q[k][2] <= hi
       /\ Q[k][1] <= Before(Q, k, lo) + 1 /\ Before(Q, k, lo) < Q[k][2]
       /\ k # 1 => Q[k - 1][1] <= Q[k][1]
  /\ Before(Q, Len(Q) + 1, lo) = hi

\* A pack is the sentences first to last of S.
IsRun(pack, S, first, last) ==
  /\ pack \in Seq(BookSentence)
  /\ Len(pack) = last - first + 1
  /\ \A j \in 1 .. Len(pack) : pack[j] = S[first + j - 1]

\* The packs P are the runs Q of S, and one that is too long ends with the first
\* sentence that is new.
Packed(P, Q, S, lo) ==
  /\ P \in Seq(Seq(BookSentence)) /\ Len(P) = Len(Q)
  /\ \A k \in 1 .. Len(Q) : /\ IsRun(P[k], S, Q[k][1], Q[k][2])
                            /\ Size(P[k]) > MaxTokens => Q[k][2] = Before(Q, k, lo) + 1

LEMMA InTurnAppend ==
  ASSUME NEW lo \in Nat, NEW m \in Nat, NEW first \in Nat, NEW i \in Nat, NEW Q, InTurn(Q, lo, m),
         lo < first, first <= m + 1, first <= i, m < i, Len(Q) # 0 => Q[Len(Q)][1] <= first
  PROVE  /\ InTurn(Append(Q, <<first, i>>), lo, i)
         /\ Before(Append(Q, <<first, i>>), Len(Q) + 1, lo) = m
         /\ \A k \in 1 .. Len(Q) : Before(Append(Q, <<first, i>>), k, lo) = Before(Q, k, lo)
<1> DEFINE n == Len(Q)
           R == Append(Q, <<first, i>>)
<1>1. Q \in Seq(Pairs) /\ Before(Q, n + 1, lo) = m /\ <<first, i>> \in Pairs
  BY DEF InTurn, Pairs
<1>2. n \in Nat /\ \A k \in 1 .. n : Q[k][1] \in Nat /\ Q[k][2] \in Nat
  BY <1>1, PairsAre
<1>3. /\ R \in Seq(Pairs) /\ Len(R) = n + 1 /\ R[n + 1] = <<first, i>>
      /\ \A k \in 1 .. n : R[k] = Q[k]
  BY <1>1, AppendProperties
<1> HIDE DEF R
<1>4. ASSUME NEW k \in 1 .. n + 1 PROVE Before(R, k, lo) = Before(Q, k, lo)
  <2>1. CASE k = 1
    BY <2>1 DEF Before
  <2>2. CASE k # 1
    <3>1. k - 1 \in 1 .. n
      BY <1>2, <2>2
    <3> QED BY <1>3, <2>2, <3>1 DEF Before
  <2> QED BY <2>1, <2>2
<1>5. Before(R, n + 1, lo) = m
  <2>1. n + 1 \in 1 .. n + 1
    BY <1>2
  <2> QED BY <1>1, <1>4, <2>1
<1>6. R[n + 1][1] = first /\ R[n + 1][2] = i
  BY <1>3
<1>7. ASSUME NEW k \in 1 .. n
      PROVE  /\ lo < R[k][1] /\ R[k][1] <= R[k][2] /\ R[k][2] <= i
             /\ R[k][1] <= Before(R, k, lo) + 1 /\ Before(R, k, lo) < R[k][2]
             /\ k # 1 => R[k - 1][1] <= R[k][1]
  <2>1. /\ lo < Q[k][1] /\ Q[k][1] <= Q[k][2] /\ Q[k][2] <= m
        /\ Q[k][1] <= Before(Q, k, lo) + 1 /\ Before(Q, k, lo) < Q[k][2]
        /\ k # 1 => Q[k - 1][1] <= Q[k][1]
    BY DEF InTurn
  <2>2. Before(R, k, lo) = Before(Q, k, lo) /\ R[k] = Q[k] /\ (k # 1 => R[k - 1] = Q[k - 1])
    <3>1. k \in 1 .. n + 1 /\ (k # 1 => k - 1 \in 1 .. n)
      BY <1>2
    <3> QED BY <1>3, <1>4, <3>1
  <2>3. Q[k][2] <= i
    BY <1>2, <2>1
  <2> QED BY <2>1, <2>2, <2>3
<1>8. /\ lo < R[n + 1][1] /\ R[n + 1][1] <= R[n + 1][2] /\ R[n + 1][2] <= i
      /\ R[n + 1][1] <= Before(R, n + 1, lo) + 1 /\ Before(R, n + 1, lo) < R[n + 1][2]
      /\ n + 1 # 1 => R[(n + 1) - 1][1] <= R[n + 1][1]
  <2>1. n # 0 => n \in 1 .. n /\ (n + 1) - 1 = n /\ R[n] = Q[n]
    BY <1>2, <1>3
  <2>2. n + 1 # 1 => R[(n + 1) - 1][1] <= R[n + 1][1]
    BY <1>2, <1>6, <2>1
  <2> QED BY <1>5, <1>6, <2>2
<1>9. \A k \in 1 .. n + 1 : k \in 1 .. n \/ k = n + 1
  BY <1>2
<1>10. Before(R, Len(R) + 1, lo) = i
  <2>1. Len(R) + 1 # 1 /\ (Len(R) + 1) - 1 = n + 1
    BY <1>2, <1>3
  <2> QED BY <1>6, <2>1 DEF Before
<1>11. InTurn(R, lo, i)
  BY <1>3, <1>7, <1>8, <1>9, <1>10 DEF InTurn
<1>12. \A k \in 1 .. n : k \in 1 .. n + 1
  BY <1>2
<1> QED
  BY <1>4, <1>5, <1>11, <1>12 DEF R

LEMMA PackedAppend ==
  ASSUME NEW lo \in Nat, NEW m \in Nat, NEW first \in Nat, NEW i \in Nat, NEW Q, InTurn(Q, lo, m),
         lo < first, first <= m + 1, first <= i, m < i, Len(Q) # 0 => Q[Len(Q)][1] <= first,
         NEW S, NEW P, Packed(P, Q, S, lo), NEW pack, IsRun(pack, S, first, i),
         Size(pack) > MaxTokens => i = m + 1
  PROVE  Packed(Append(P, pack), Append(Q, <<first, i>>), S, lo)
<1> DEFINE n == Len(Q)
           R == Append(Q, <<first, i>>)
           more == Append(P, pack)
<1>1. Q \in Seq(Pairs) /\ <<first, i>> \in Pairs /\ P \in Seq(Seq(BookSentence)) /\ Len(P) = n
      /\ pack \in Seq(BookSentence)
  BY DEF InTurn, Pairs, Packed, IsRun
<1>2. n \in Nat
  BY <1>1, LenProperties
<1>3. R \in Seq(Pairs) /\ Len(R) = n + 1 /\ R[n + 1] = <<first, i>> /\ \A k \in 1 .. n : R[k] = Q[k]
  BY <1>1, AppendProperties
<1>4. more \in Seq(Seq(BookSentence)) /\ Len(more) = n + 1 /\ more[n + 1] = pack /\ \A k \in 1 .. n : more[k] = P[k]
  BY <1>1, AppendProperties
<1>5. /\ InTurn(R, lo, i) /\ Before(R, n + 1, lo) = m
      /\ \A k \in 1 .. n : Before(R, k, lo) = Before(Q, k, lo)
  BY InTurnAppend
<1> HIDE DEF R, more
<1>6. ASSUME NEW k \in 1 .. n
      PROVE  IsRun(more[k], S, R[k][1], R[k][2]) /\ (Size(more[k]) > MaxTokens => R[k][2] = Before(R, k, lo) + 1)
  BY <1>3, <1>4, <1>5 DEF Packed
<1>7. IsRun(more[n + 1], S, R[n + 1][1], R[n + 1][2])
      /\ (Size(more[n + 1]) > MaxTokens => R[n + 1][2] = Before(R, n + 1, lo) + 1)
  BY <1>3, <1>4, <1>5
<1>8. \A k \in 1 .. n + 1 : k \in 1 .. n \/ k = n + 1
  BY <1>2
<1>9. Packed(more, R, S, lo)
  BY <1>3, <1>4, <1>6, <1>7, <1>8 DEF Packed
<1> QED
  BY <1>9 DEF R, more

\* The packs so far and the one that is filled, which ends at sentence last.
Packings == [packs : Seq(Seq(BookSentence)), current : Seq(BookSentence)]
Packing(packing, S, lo, last) ==
  \E Q \in Seq(Pairs), m \in Nat, first \in Nat :
    /\ InTurn(Q, lo, m) /\ Packed(packing.packs, Q, S, lo)
    /\ lo < first /\ first <= m + 1 /\ first <= last /\ m < last
    /\ Len(Q) # 0 => Q[Len(Q)][1] <= first
    /\ IsRun(packing.current, S, first, last)
    /\ Size(packing.current) > MaxTokens => last = m + 1

LEMMA RunAppend ==
  ASSUME NEW S, NEW first \in Nat, NEW last \in Nat, first <= last + 1, NEW pack, IsRun(pack, S, first, last),
         NEW sentence \in BookSentence, S[last + 1] = sentence
  PROVE  IsRun(Append(pack, sentence), S, first, last + 1)
<1> DEFINE n == Len(pack)
           more == Append(pack, sentence)
<1>1. pack \in Seq(BookSentence) /\ n = last - first + 1 /\ n \in Nat /\ \A j \in 1 .. n : pack[j] = S[first + j - 1]
  BY DEF IsRun
<1>2. more \in Seq(BookSentence) /\ Len(more) = n + 1 /\ more[n + 1] = sentence /\ \A j \in 1 .. n : more[j] = pack[j]
  BY <1>1, AppendProperties
<1> HIDE DEF more
<1>3. first + (n + 1) - 1 = last + 1
  BY <1>1
<1>4. \A j \in 1 .. n + 1 : j \in 1 .. n \/ j = n + 1
  BY <1>1
<1>5. \A j \in 1 .. n + 1 : more[j] = S[first + j - 1]
  BY <1>1, <1>2, <1>3, <1>4
<1>6. IsRun(more, S, first, last + 1)
  BY <1>1, <1>2, <1>5 DEF IsRun
<1> QED
  BY <1>6 DEF more

LEMMA TailOfRun ==
  ASSUME NEW S, NEW first \in Nat, NEW last \in Nat, first <= last, NEW pack, IsRun(pack, S, first, last)
  PROVE  \E begin \in first .. last : IsRun(TailSentences(pack), S, begin, last)
<1> DEFINE n == Len(pack)
<1>1. pack \in Seq(BookSentence) /\ n = last - first + 1 /\ n \in Nat /\ \A j \in 1 .. n : pack[j] = S[first + j - 1]
  BY DEF IsRun
<1>2. pack # <<>>
  BY <1>1, EmptySeq
<1>3. PICK k \in 1 .. n : TailSentences(pack) = SubSeq(pack, n - k + 1, n)
  BY <1>1, <1>2, TailIs
<1> DEFINE begin == last - k + 1
           tail == SubSeq(pack, n - k + 1, n)
<1>4. begin \in first .. last /\ n - k + 1 \in 1 .. n /\ n - (n - k + 1) + 1 = k /\ k = last - begin + 1
  BY <1>1
<1>5. tail \in Seq(BookSentence) /\ Len(tail) = k /\ \A j \in 1 .. k : tail[j] = pack[(n - k + 1) + j - 1]
  <2> DEFINE from == n - k + 1
  <2>1. from \in Int /\ n \in Int /\ from <= n /\ \A j \in from .. n : pack[j] \in BookSentence
    BY <1>1, <1>4, ElementOfSeq
  <2>2. n - from + 1 = k
    BY <1>4
  <2> HIDE DEF from, n
  <2>3. /\ SubSeq(pack, from, n) \in Seq(BookSentence)
        /\ Len(SubSeq(pack, from, n)) = IF from <= n THEN n - from + 1 ELSE 0
        /\ \A j \in 1 .. n - from + 1 : SubSeq(pack, from, n)[j] = pack[from + j - 1]
    BY <2>1, SubSeqProperties
  <2> QED BY <2>1, <2>2, <2>3 DEF from
<1> HIDE DEF tail
<1>6. ASSUME NEW j \in 1 .. k PROVE tail[j] = S[begin + j - 1]
  <2> DEFINE at == (n - k + 1) + j - 1
  <2>1. at \in 1 .. n /\ first + at - 1 = begin + j - 1
    BY <1>1
  <2>2. tail[j] = pack[at]
    BY <1>5
  <2> HIDE DEF at, begin
  <2> QED BY <1>1, <2>1, <2>2
<1>7. IsRun(tail, S, begin, last)
  BY <1>4, <1>5, <1>6 DEF IsRun
<1> QED
  BY <1>3, <1>4, <1>7 DEF tail

LEMMA PackingStarts ==
  ASSUME NEW S, NEW lo \in Nat, NEW sentence \in BookSentence, S[lo + 1] = sentence
  PROVE  Packing([packs |-> <<>>, current |-> <<sentence>>], S, lo, lo + 1)
<1> DEFINE Q == <<>>
           x == [packs |-> <<>>, current |-> <<sentence>>]
<1>1. Q \in Seq(Pairs) /\ Len(Q) = 0 /\ x.packs = <<>> /\ x.packs \in Seq(Seq(BookSentence)) /\ Len(x.packs) = 0
  BY EmptySeq
<1>2. x.current \in Seq(BookSentence) /\ Len(x.current) = 1 /\ x.current[1] = sentence
  OBVIOUS
<1> HIDE DEF Q, x
<1>3. InTurn(Q, lo, lo)
  BY <1>1 DEF InTurn, Before
<1>4. Packed(x.packs, Q, S, lo)
  BY <1>1 DEF Packed
<1>5. IsRun(x.current, S, lo + 1, lo + 1)
  <2>1. Len(x.current) = (lo + 1) - (lo + 1) + 1 /\ (lo + 1) + 1 - 1 = lo + 1
    BY <1>2
  <2>2. \A j \in 1 .. Len(x.current) : x.current[j] = S[(lo + 1) + j - 1]
    BY <1>2, <2>1
  <2> QED BY <1>2, <2>1, <2>2 DEF IsRun
<1>6. /\ lo < lo + 1 /\ lo + 1 <= lo + 1 /\ lo + 1 \in Nat
      /\ Len(Q) # 0 => Q[Len(Q)][1] <= lo + 1
  BY <1>1
<1>7. Packing(x, S, lo, lo + 1)
  BY <1>1, <1>3, <1>4, <1>5, <1>6 DEF Packing
<1> QED
  BY <1>7 DEF x

LEMMA PacksTypes ==
  ASSUME NEW packing \in Packings, NEW sentence \in BookSentence
  PROVE  Packs(packing, sentence) \in Packings
<1> DEFINE P == packing.packs
           c == packing.current
<1>1. P \in Seq(Seq(BookSentence)) /\ c \in Seq(BookSentence) /\ packing = [packs |-> P, current |-> c]
  BY DEF Packings
<1>2. Append(c, sentence) \in Seq(BookSentence) /\ Append(P, c) \in Seq(Seq(BookSentence))
  BY <1>1, AppendProperties
<1>3. ASSUME c # <<>> PROVE Append(TailSentences(c), sentence) \in Seq(BookSentence)
  <2> DEFINE n == Len(c)
  <2>1. n \in Nat /\ \A j \in 1 .. n : c[j] \in BookSentence
    BY <1>1, LenProperties, ElementOfSeq
  <2>2. PICK k \in 1 .. n : TailSentences(c) = SubSeq(c, n - k + 1, n)
    BY <1>1, <1>3, TailIs
  <2>3. TailSentences(c) \in Seq(BookSentence)
    <3> DEFINE from == n - k + 1
    <3>1. from \in Int /\ n \in Int /\ \A j \in from .. n : c[j] \in BookSentence
      BY <2>1
    <3> HIDE DEF from, n
    <3>2. SubSeq(c, from, n) \in Seq(BookSentence)
      BY <3>1, SubSeqProperties
    <3> QED BY <2>2, <3>2 DEF from
  <2> QED BY <2>3, AppendProperties
<1> HIDE DEF P, c
<1>4. CASE c # <<>> /\ Size(c) + sentence.tokens > MaxTokens
  <2>1. Packs(packing, sentence) = [packs |-> Append(P, c), current |-> Append(TailSentences(c), sentence)]
    BY <1>4 DEF Packs, P, c
  <2> QED BY <1>2, <1>3, <1>4, <2>1 DEF Packings
<1>5. CASE ~(c # <<>> /\ Size(c) + sentence.tokens > MaxTokens)
  <2>1. Packs(packing, sentence) = [packs |-> P, current |-> Append(c, sentence)]
    BY <1>1, <1>5 DEF Packs, P, c
  <2> QED BY <1>1, <1>2, <2>1 DEF Packings
<1> QED
  BY <1>4, <1>5

\* A sentence more.
LEMMA PacksGoesOn ==
  ASSUME NEW packing \in Packings, NEW S, NEW lo \in Nat, NEW last \in Nat, Packing(packing, S, lo, last),
         NEW sentence \in BookSentence, S[last + 1] = sentence
  PROVE  Packing(Packs(packing, sentence), S, lo, last + 1)
<1> DEFINE P == packing.packs
           c == packing.current
<1>1. P \in Seq(Seq(BookSentence)) /\ c \in Seq(BookSentence) /\ packing = [packs |-> P, current |-> c]
  BY DEF Packings
<1> HIDE DEF P, c
<1>2. PICK Q \in Seq(Pairs), m \in Nat, first \in Nat :
        /\ InTurn(Q, lo, m) /\ Packed(P, Q, S, lo)
        /\ lo < first /\ first <= m + 1 /\ first <= last /\ m < last
        /\ Len(Q) # 0 => Q[Len(Q)][1] <= first
        /\ IsRun(c, S, first, last)
        /\ Size(c) > MaxTokens => last = m + 1
  BY DEF Packing, P, c
<1>3. c # <<>>
  <2>1. Len(c) = last - first + 1 /\ last - first + 1 # 0
    BY <1>2 DEF IsRun
  <2> QED BY <2>1, EmptySeq
<1>4. MaxTokens \in Nat /\ Size(c) \in Nat /\ sentence.tokens \in Nat /\ Size(Append(c, sentence)) = Size(c) + sentence.tokens
  BY <1>1, SizeAppend, TokensAssumption DEF BookSentence
<1>5. CASE Size(c) + sentence.tokens > MaxTokens
  <2>1. Packs(packing, sentence) = [packs |-> Append(P, c), current |-> Append(TailSentences(c), sentence)]
    BY <1>3, <1>5 DEF Packs, P, c
  <2> DEFINE R == Append(Q, <<first, last>>)
  <2>2. /\ InTurn(R, lo, last) /\ Before(R, Len(Q) + 1, lo) = m
        /\ \A k \in 1 .. Len(Q) : Before(R, k, lo) = Before(Q, k, lo)
    <3>1. /\ m \in Nat /\ first \in Nat /\ last \in Nat /\ InTurn(Q, lo, m)
          /\ lo < first /\ first <= m + 1 /\ first <= last /\ m < last
          /\ Len(Q) # 0 => Q[Len(Q)][1] <= first
      BY <1>2
    <3> QED BY <3>1, InTurnAppend, SMTT(20)
  <2>3. Packed(Append(P, c), R, S, lo)
    BY <1>2, PackedAppend
  <2>4. R \in Seq(Pairs) /\ Len(R) # 0 /\ R[Len(R)][1] = first
    <3>1. <<first, last>> \in Pairs /\ <<first, last>>[1] = first /\ Len(Q) \in Nat
      BY <1>2, LenProperties DEF Pairs
    <3> HIDE DEF Pairs
    <3> QED BY <3>1, AppendProperties
  <2> HIDE DEF R
  <2>5. PICK begin \in first .. last : IsRun(TailSentences(c), S, begin, last)
    BY <1>2, TailOfRun
  <2>6. begin \in Nat /\ lo < begin /\ begin <= last + 1 /\ last < last + 1 /\ first <= begin
    BY <1>2
  <2>7. IsRun(Append(TailSentences(c), sentence), S, begin, last + 1)
    BY <2>5, <2>6, RunAppend
  <2> QED BY <2>1, <2>2, <2>3, <2>4, <2>6, <2>7 DEF Packing
<1>6. CASE ~(Size(c) + sentence.tokens > MaxTokens)
  <2>1. Packs(packing, sentence) = [packs |-> P, current |-> Append(c, sentence)]
    BY <1>1, <1>6 DEF Packs, P, c
  <2>2. IsRun(Append(c, sentence), S, first, last + 1)
    BY <1>2, RunAppend
  <2>3. ~(Size(Append(c, sentence)) > MaxTokens) /\ first <= last + 1 /\ m < last + 1
    BY <1>2, <1>4, <1>6
  <2> QED BY <1>2, <2>1, <2>2, <2>3 DEF Packing
<1> QED
  BY <1>5, <1>6

LEMMA PackingEnds ==
  ASSUME NEW packing \in Packings, NEW S, NEW lo \in Nat, NEW last \in Nat, Packing(packing, S, lo, last)
  PROVE  \E Q : /\ packing.current # <<>>
               /\ InTurn(Q, lo, last) /\ Packed(Append(packing.packs, packing.current), Q, S, lo)
<1> DEFINE P == packing.packs
           c == packing.current
<1>1. PICK Q \in Seq(Pairs), m \in Nat, first \in Nat :
        /\ InTurn(Q, lo, m) /\ Packed(P, Q, S, lo)
        /\ lo < first /\ first <= m + 1 /\ first <= last /\ m < last
        /\ Len(Q) # 0 => Q[Len(Q)][1] <= first
        /\ IsRun(c, S, first, last)
        /\ Size(c) > MaxTokens => last = m + 1
  BY DEF Packing
<1> HIDE DEF P, c
<1>2. c # <<>>
  <2>1. Len(c) = last - first + 1 /\ last - first + 1 # 0
    BY <1>1 DEF IsRun
  <2> QED BY <2>1, EmptySeq
<1>3. /\ InTurn(Append(Q, <<first, last>>), lo, last)
      /\ Before(Append(Q, <<first, last>>), Len(Q) + 1, lo) = m
      /\ \A k \in 1 .. Len(Q) : Before(Append(Q, <<first, last>>), k, lo) = Before(Q, k, lo)
  BY <1>1, InTurnAppend, SMTT(20)
<1>4. Packed(Append(P, c), Append(Q, <<first, last>>), S, lo)
  BY <1>1, PackedAppend
<1> QED
  BY <1>2, <1>3, <1>4 DEF P, c

\* The passages of a run of sentences take its sentences in turn.
LEMMA SentencePacksAre ==
  ASSUME NEW S, NEW lo \in Nat, NEW x \in Seq(BookSentence), \A j \in 1 .. Len(x) : S[lo + j] = x[j]
  PROVE  \E Q : InTurn(Q, lo, lo + Len(x)) /\ Packed(SentencePacks(x), Q, S, lo)
<1> DEFINE R == Packings
           H == BookSentence
           n == Len(x)
           start == [packs |-> <<>>, current |-> <<>>]
           step == [p \in R |-> [h \in H |-> Packs(p, h)]]
<1>1. n \in Nat /\ \A i \in 1 .. n : x[i] \in H
  BY LenProperties, ElementOfSeq
<1>2. step \in Steps(R, H)
  BY PacksTypes DEF Steps
<1>3. \A p \in R, h \in H : step[p][h] = Packs(p, h)
  OBVIOUS
<1>4. start \in R
  BY EmptySeq DEF Packings
<1> HIDE DEF step, R, H, start
<1>5. PICK f : Run(f, step, start, x) /\ \A i \in 0 .. n : f[i] \in R
  <2>1. x \in Seq(H)
    BY DEF H
  <2> QED BY <1>2, <1>4, <2>1, LoopOf
<1>6. /\ f = [i \in 0 .. n |-> f[i]] /\ f[0] = start
      /\ \A i \in 1 .. n : f[i] = Packs(f[i - 1], x[i])
  <2>1. /\ f = [i \in 0 .. n |-> f[i]] /\ f[0] = start
        /\ \A i \in 1 .. n : f[i] = step[f[i - 1]][x[i]]
    BY <1>5 DEF Run
  <2>2. ASSUME NEW i \in 1 .. n PROVE f[i] = Packs(f[i - 1], x[i])
    <3>1. i - 1 \in 0 .. n
      BY <1>1
    <3> QED BY <1>1, <1>3, <1>5, <2>1, <3>1
  <2> QED BY <2>1, <2>2
<1>7. f = [i \in 0 .. n |-> IF i = 0 THEN start ELSE Packs(f[i - 1], x[i])]
  <2>1. \A i \in 0 .. n : i # 0 => i \in 1 .. n
    BY <1>1
  <2> QED BY <1>5, <1>6, <2>1
<1> DEFINE g == CHOOSE g : g = [i \in 0 .. n |-> IF i = 0 THEN start ELSE Packs(g[i - 1], x[i])]
<1>8. g = [i \in 0 .. n |-> IF i = 0 THEN start ELSE Packs(g[i - 1], x[i])]
  BY <1>7
<1>9. SentencePacks(x) = IF g[n].current = <<>> THEN g[n].packs ELSE Append(g[n].packs, g[n].current)
  BY DEF SentencePacks, Loop, start
<1> HIDE DEF g
<1>10. g[0] = start /\ \A i \in 1 .. n : g[i] = Packs(g[i - 1], x[i])
  BY <1>1, <1>8
<1>11. \A i \in 0 .. n : g[i] \in R
  <2>1. \A i \in 1 .. n : g[i - 1] \in R => g[i] \in R
    BY <1>1, <1>10, PacksTypes DEF R, H
  <2>2. g[0] \in R
    BY <1>4, <1>10
  <2> HIDE DEF n
  <2> QED BY <1>1, <2>1, <2>2, LoopStays
<1>12. CASE n = 0
  <2>1. SentencePacks(x) = <<>>
    BY <1>9, <1>10, <1>12 DEF start
  <2> DEFINE Q == <<>>
  <2>2. Q \in Seq(Pairs) /\ Len(Q) = 0 /\ SentencePacks(x) \in Seq(Seq(BookSentence)) /\ Len(SentencePacks(x)) = 0
    BY <2>1, EmptySeq
  <2> HIDE DEF Q
  <2>3. InTurn(Q, lo, lo)
    BY <2>2 DEF InTurn, Before
  <2>4. Packed(SentencePacks(x), Q, S, lo)
    BY <2>2 DEF Packed
  <2>5. lo + Len(x) = lo
    BY <1>12
  <2> QED BY <2>3, <2>4, <2>5
<1>13. CASE n # 0
  <2> DEFINE good == {i \in 0 .. n : i = 0 \/ Packing(g[i], S, lo, lo + i)}
  <2>1. 0 \in good
    BY <1>1
  <2>2. ASSUME NEW i \in 0 .. n - 1, i \in good PROVE i + 1 \in good
    <3>1. i + 1 \in 1 .. n /\ i + 1 \in 0 .. n /\ (i + 1) - 1 = i /\ lo + (i + 1) = (lo + i) + 1 /\ i \in 0 .. n
          /\ lo + i \in Nat
      BY <1>1
    <3>2. g[i + 1] = Packs(g[i], x[i + 1]) /\ x[i + 1] \in BookSentence /\ S[(lo + i) + 1] = x[i + 1]
      <4>1. S[lo + (i + 1)] = x[i + 1] /\ x[i + 1] \in BookSentence
      BY <1>1, <3>1 DEF H
    <4>2. g[i + 1] = Packs(g[i], x[i + 1])
      BY <1>10, <3>1
    <4> QED BY <3>1, <4>1, <4>2
    <3>3. CASE i = 0
      <4>1. Packs(start, x[1]) = [packs |-> <<>>, current |-> <<x[1]>>]
        BY DEF Packs, start
      <4>2. Packing([packs |-> <<>>, current |-> <<x[1]>>], S, lo, lo + 1)
        BY <3>2, <3>3, PackingStarts
      <4>3. g[1] = Packs(start, x[1])
        BY <1>10, <3>2, <3>3
      <4> QED BY <3>1, <3>3, <4>1, <4>2, <4>3
    <3>4. CASE i # 0
      <4>1. Packing(g[i], S, lo, lo + i) /\ g[i] \in Packings
        BY <1>11, <2>2, <3>1, <3>4 DEF R
      <4>2. Packing(Packs(g[i], x[i + 1]), S, lo, (lo + i) + 1)
        BY <3>1, <3>2, <4>1, PacksGoesOn
      <4> QED BY <3>1, <3>2, <4>2
    <3> QED BY <3>3, <3>4
  <2>3. \A i \in 0 .. n : i \in good
    <3> HIDE DEF good, n
    <3> QED BY <1>1, <2>1, <2>2, Counting
  <2>4. n \in 0 .. n /\ lo + n \in Nat
    BY <1>1
  <2>5. Packing(g[n], S, lo, lo + n)
    BY <1>13, <2>3, <2>4
  <2> DEFINE last == lo + n
  <2>6. last \in Nat /\ g[n] \in Packings
    BY <1>11, <2>4 DEF R
  <2> HIDE DEF n, last
  <2>7. Packing(g[n], S, lo, last)
    BY <2>5 DEF last
  <2>8. PICK Q : /\ g[n].current # <<>>
                 /\ InTurn(Q, lo, last) /\ Packed(Append(g[n].packs, g[n].current), Q, S, lo)
    BY <2>6, <2>7, PackingEnds
  <2> QED BY <1>9, <2>8 DEF last, n
<1> QED
  BY <1>12, <1>13

-----------------------------------------------------------------------------
(* Where the sentences of a unit stand in the book.                        *)

\* The sentences of unit i, and those of every unit of a range.
TextOf(us, i) ==
  IF us[i].level = "body"
  THEN SubSeq([s \in DOMAIN us[i].sentences |-> [unit |-> i, at |-> s, tokens |-> us[i].sentences[s]]],
              1, Len(us[i].sentences))
  ELSE <<>>
TextsOf(us, range) == [k \in 1 .. range[2] - range[1] |-> TextOf(us, range[1] + k - 1)]

LEMMA TextOfIs ==
  ASSUME NEW us \in Seq(Units), NEW i \in 1 .. Len(us)
  PROVE  /\ TextOf(us, i) \in Seq(BookSentence) /\ Len(TextOf(us, i)) \in Nat
         /\ \A s \in 1 .. Len(TextOf(us, i)) : TextOf(us, i)[s].unit = i /\ TextOf(us, i)[s].at = s
<1> DEFINE texts == us[i].sentences
           n == Len(texts)
           f == [s \in DOMAIN texts |-> [unit |-> i, at |-> s, tokens |-> texts[s]]]
<1>1. texts \in Seq(Nat) /\ i \in Nat
  <2>1. us[i] \in Units /\ Len(us) \in Nat
    BY ElementOfSeq, LenProperties
  <2> QED BY <2>1 DEF Units
<1>2. n \in Nat /\ DOMAIN texts = 1 .. n /\ \A s \in 1 .. n : texts[s] \in Nat
  BY <1>1, LenProperties, ElementOfSeq
<1> HIDE DEF texts
<1>3. \A s \in 1 .. n : f[s] \in BookSentence
  BY <1>1, <1>2 DEF BookSentence
<1>7. \A s \in 1 .. n : f[s].unit = i /\ f[s].at = s
  BY <1>2
<1> HIDE DEF n, f
<1>4. /\ SubSeq(f, 1, n) \in Seq(BookSentence)
      /\ Len(SubSeq(f, 1, n)) = n
      /\ \A s \in 1 .. n : SubSeq(f, 1, n)[s] = f[s]
  BY <1>2, <1>3, FirstOf
<1>5. CASE us[i].level = "body"
  <2>1. TextOf(us, i) = SubSeq(f, 1, n)
    BY <1>5 DEF TextOf, f, n, texts
  <2> DEFINE text == TextOf(us, i)
  <2>2. text \in Seq(BookSentence) /\ Len(text) = n /\ \A s \in 1 .. n : text[s] = f[s]
    BY <1>4, <2>1
  <2> HIDE DEF text
  <2>3. text \in Seq(BookSentence) /\ Len(text) \in Nat /\ \A s \in 1 .. Len(text) : text[s].unit = i /\ text[s].at = s
    BY <1>2, <1>7, <2>2
  <2> QED BY <2>3 DEF text
<1>6. CASE us[i].level # "body"
  <2>1. TextOf(us, i) = <<>>
    BY <1>6 DEF TextOf
  <2>2. TextOf(us, i) \in Seq(BookSentence) /\ Len(TextOf(us, i)) = 0
    BY <2>1, EmptySeq
  <2> QED BY <2>2
<1> QED
  BY <1>5, <1>6

LEMMA TextsOfAre ==
  ASSUME NEW us \in Seq(Units), NEW range \in Pairs,
         1 <= range[1], range[1] <= range[2], range[2] <= Len(us) + 1
  PROVE  /\ TextsOf(us, range) \in Seq(Seq(BookSentence)) /\ Len(TextsOf(us, range)) = range[2] - range[1]
         /\ \A k \in 1 .. range[2] - range[1] : TextsOf(us, range)[k] = TextOf(us, range[1] + k - 1)
         /\ Sentences(us, range) = FlattenSeq(TextsOf(us, range))
<1> DEFINE n == range[2] - range[1]
           f == TextsOf(us, range)
<1>1. range[1] \in Nat /\ range[2] \in Nat /\ Len(us) \in Nat /\ n \in Nat
  BY LenProperties DEF Pairs
<1>2. f = [k \in 1 .. n |-> TextOf(us, range[1] + k - 1)]
  BY DEF TextsOf
<1>3. Sentences(us, range) = FlattenSeq(f)
  BY DEF Sentences, TextsOf, TextOf
<1>4. ASSUME NEW k \in 1 .. n PROVE TextOf(us, range[1] + k - 1) \in Seq(BookSentence)
  <2>1. range[1] + k - 1 \in 1 .. Len(us)
    BY <1>1
  <2> QED BY <2>1, TextOfIs
<1> HIDE DEF f
<1>5. f \in [1 .. n -> Seq(BookSentence)] /\ \A k \in 1 .. n : f[k] = TextOf(us, range[1] + k - 1)
  BY <1>2, <1>4
<1>6. f \in Seq(Seq(BookSentence)) /\ Len(f) = n
  <2> HIDE DEF n
  <2> QED BY <1>1, <1>5, FunctionIsSeq
<1> QED
  BY <1>3, <1>5, <1>6 DEF f

\* Unit k has the sentences after W[k - 1] up to W[k] of S.
PlacesIn(W, us, S) ==
  /\ W \in [0 .. Len(us) -> Nat] /\ W[0] = 0 /\ W[Len(us)] = Len(S)
  /\ \A m \in 0 .. Len(us) : \A j \in 0 .. m : W[j] <= W[m]
  /\ \A k \in 1 .. Len(us) : /\ W[k] = W[k - 1] + Len(TextOf(us, k))
                             /\ \A j \in 1 .. Len(TextOf(us, k)) : S[W[k - 1] + j] = TextOf(us, k)[j]
  /\ \A p \in 1 .. Len(S) : \E k \in 1 .. Len(us) :
       W[k - 1] < p /\ p <= W[k] /\ S[p].unit = k /\ S[p].at = p - W[k - 1]

LEMMA SentencesPlaced ==
  ASSUME NEW us \in Seq(Units)
  PROVE  /\ Sentences(us, <<1, Len(us) + 1>>) \in Seq(BookSentence)
         /\ \E W : PlacesIn(W, us, Sentences(us, <<1, Len(us) + 1>>))
<1> DEFINE n == Len(us)
           range == <<1, n + 1>>
           S == Sentences(us, range)
           seqs == TextsOf(us, range)
<1>1. n \in Nat
  BY LenProperties
<1>2. range \in Pairs /\ range[1] = 1 /\ range[2] = n + 1 /\ range[2] - range[1] = n
  BY <1>1 DEF Pairs
<1> HIDE DEF range, S, seqs
<1>3. /\ seqs \in Seq(Seq(BookSentence)) /\ Len(seqs) = n /\ S = FlattenSeq(seqs)
      /\ \A k \in 1 .. n : seqs[k] = TextOf(us, k)
  <2>1. 1 <= range[1] /\ range[1] <= range[2] /\ range[2] <= Len(us) + 1
    BY <1>1, <1>2
  <2>2. /\ seqs \in Seq(Seq(BookSentence)) /\ Len(seqs) = range[2] - range[1]
        /\ \A k \in 1 .. range[2] - range[1] : seqs[k] = TextOf(us, range[1] + k - 1)
        /\ S = FlattenSeq(seqs)
    BY <1>2, <2>1, TextsOfAre DEF seqs, S
  <2>3. \A k \in 1 .. n : range[1] + k - 1 = k
    BY <1>1, <1>2
  <2> QED BY <1>2, <2>2, <2>3
<1>4. PICK W : /\ Counted(W, seqs)
               /\ S \in Seq(BookSentence) /\ Len(S) = W[n]
               /\ \A k \in 1 .. n : \A j \in 1 .. Len(seqs[k]) : S[W[k - 1] + j] = seqs[k][j]
  <2>1. PICK W : StandsAt(S, seqs, W)
    BY <1>3, FlattenAt
  <2>2. S \in Seq(BookSentence)
    BY <1>3, FlattenAt
  <2>3. /\ Counted(W, seqs) /\ Len(S) = W[n]
        /\ \A k \in 1 .. n : \A j \in 1 .. Len(seqs[k]) : S[W[k - 1] + j] = seqs[k][j]
    <3>1. /\ Counted(W, seqs) /\ Len(S) = W[Len(seqs)]
          /\ \A k \in 1 .. Len(seqs) : \A j \in 1 .. Len(seqs[k]) : S[W[k - 1] + j] = seqs[k][j]
      BY <2>1 DEF StandsAt
    <3>2. Len(seqs) = n
      BY <1>3
    <3> QED BY <3>1, <3>2
  <2> QED BY <2>2, <2>3
<1>5. W \in [0 .. n -> Nat] /\ W[0] = 0 /\ \A k \in 1 .. n : W[k] = W[k - 1] + Len(TextOf(us, k))
  BY <1>3, <1>4 DEF Counted
<1>6. /\ \A m \in 0 .. n : \A j \in 0 .. m : W[j] <= W[m]
      /\ \A m \in 0 .. n : \A p \in 1 .. W[m] : \E k \in 1 .. m : W[k - 1] < p /\ p <= W[k]
  BY <1>3, <1>4, CountedIs
<1>7. \A k \in 1 .. n : \A j \in 1 .. Len(TextOf(us, k)) : S[W[k - 1] + j] = TextOf(us, k)[j]
  BY <1>3, <1>4
<1>8. ASSUME NEW p \in 1 .. Len(S)
      PROVE  \E k \in 1 .. n : W[k - 1] < p /\ p <= W[k] /\ S[p].unit = k /\ S[p].at = p - W[k - 1]
  <2>1. n \in 0 .. n
    BY <1>1
  <2>2. PICK k \in 1 .. n : W[k - 1] < p /\ p <= W[k]
    BY <1>4, <1>6, <2>1
  <2>3. k - 1 \in 0 .. n /\ k \in 0 .. n
    BY <1>1
  <2>4. /\ Len(TextOf(us, k)) \in Nat
        /\ \A s \in 1 .. Len(TextOf(us, k)) : TextOf(us, k)[s].unit = k /\ TextOf(us, k)[s].at = s
    BY TextOfIs
  <2> DEFINE j == p - W[k - 1]
  <2>5. j \in 1 .. Len(TextOf(us, k)) /\ W[k - 1] + j = p
    <3>1. W[k] = W[k - 1] + Len(TextOf(us, k)) /\ W[k - 1] \in Nat /\ p \in Nat
      BY <1>5, <2>3
    <3> QED BY <2>2, <2>4, <3>1
  <2> HIDE DEF j
  <2>6. S[p] = TextOf(us, k)[j]
    BY <1>7, <2>5
  <2>7. S[p].unit = k /\ S[p].at = j
    BY <2>4, <2>5, <2>6
  <2> QED BY <2>2, <2>7 DEF j
<1>9. PlacesIn(W, us, S)
  BY <1>4, <1>5, <1>6, <1>7, <1>8 DEF PlacesIn
<1> QED
  BY <1>4, <1>9 DEF S, range

\* No two places have the same sentence.
LEMMA PlacesDiffer ==
  ASSUME NEW us \in Seq(Units), NEW S, NEW W, PlacesIn(W, us, S),
         NEW p \in 1 .. Len(S), NEW q \in 1 .. Len(S), S[p] = S[q]
  PROVE  p = q
<1>1. PICK k \in 1 .. Len(us) : S[p].unit = k /\ S[p].at = p - W[k - 1]
  BY DEF PlacesIn
<1>2. PICK l \in 1 .. Len(us) : S[q].unit = l /\ S[q].at = q - W[l - 1]
  BY DEF PlacesIn
<1>3. k = l /\ p - W[k - 1] = q - W[k - 1]
  BY <1>1, <1>2
<1>4. k - 1 \in 0 .. Len(us) /\ W[k - 1] \in Nat /\ W[Len(us)] = Len(S) /\ W[Len(us)] \in Nat
  <2>1. Len(us) \in Nat
    BY LenProperties
  <2>2. k - 1 \in 0 .. Len(us) /\ Len(us) \in 0 .. Len(us)
    BY <2>1
  <2> QED BY <2>2 DEF PlacesIn
<1> QED
  BY <1>3, <1>4

\* The sentences of a range follow one another in the book.
LEMMA RangePlaced ==
  ASSUME NEW us \in Seq(Units), NEW S, NEW W, PlacesIn(W, us, S), NEW range \in Pairs,
         1 <= range[1], range[1] <= range[2], range[2] <= Len(us) + 1
  PROVE  /\ Sentences(us, range) \in Seq(BookSentence) /\ W[range[1] - 1] \in Nat
         /\ W[range[2] - 1] = W[range[1] - 1] + Len(Sentences(us, range))
         /\ \A j \in 1 .. Len(Sentences(us, range)) : S[W[range[1] - 1] + j] = Sentences(us, range)[j]
<1> DEFINE n == range[2] - range[1]
           a == range[1] - 1
           seqs == TextsOf(us, range)
           flat == Sentences(us, range)
<1>1. Len(us) \in Nat /\ n \in Nat /\ a \in Nat /\ a + n = range[2] - 1 /\ a + n <= Len(us)
      /\ range[1] \in Nat /\ range[2] \in Nat
  BY LenProperties DEF Pairs
<1>2. /\ seqs \in Seq(Seq(BookSentence)) /\ Len(seqs) = n /\ flat = FlattenSeq(seqs)
      /\ \A k \in 1 .. n : seqs[k] = TextOf(us, range[1] + k - 1)
  BY TextsOfAre
<1>3. \A k \in 1 .. n : range[1] + k - 1 = a + k
  BY <1>1
<1> HIDE DEF n, a, seqs, flat
<1>4. flat \in Seq(BookSentence)
  BY <1>2, FlattenAt
<1>5. PICK V : StandsAt(flat, seqs, V)
  BY <1>2, FlattenAt
<1>6. /\ V \in [0 .. n -> Nat] /\ V[0] = 0 /\ Len(flat) = V[n]
      /\ \A k \in 1 .. n : V[k] = V[k - 1] + Len(seqs[k])
  BY <1>2, <1>5 DEF StandsAt, Counted
<1>7. \A k \in 1 .. n : \A j \in 1 .. Len(seqs[k]) : flat[V[k - 1] + j] = seqs[k][j]
  BY <1>2, <1>5 DEF StandsAt
<1>8. \A k \in 1 .. n : seqs[k] = TextOf(us, a + k) /\ Len(seqs[k]) \in Nat
  <2>1. \A k \in 1 .. n : a + k \in 1 .. Len(us)
    BY <1>1
  <2> QED BY <1>2, <1>3, <2>1, TextOfIs
<1>9. /\ W \in [0 .. Len(us) -> Nat]
      /\ \A k \in 1 .. Len(us) : /\ W[k] = W[k - 1] + Len(TextOf(us, k))
                                 /\ \A j \in 1 .. Len(TextOf(us, k)) : S[W[k - 1] + j] = TextOf(us, k)[j]
  BY DEF PlacesIn
<1> DEFINE good == {k \in 0 .. n : W[a + k] = W[a] + V[k]}
<1>10. W[a] \in Nat /\ \A k \in 0 .. n : V[k] \in Nat
  <2>1. a \in 0 .. Len(us)
    BY <1>1
  <2>2. W[a] \in Nat
    BY <1>9, <2>1
  <2> QED BY <1>6, <2>2
<1>11. 0 \in good
  BY <1>1, <1>6, <1>10
<1>12. ASSUME NEW k \in 0 .. n - 1, k \in good PROVE k + 1 \in good
  <2> DEFINE l == k + 1
             i == a + l
  <2>1. l \in 1 .. n /\ l \in 0 .. n /\ l - 1 = k /\ i \in 1 .. Len(us) /\ i - 1 = a + k /\ k \in 0 .. n
    BY <1>1
  <2> HIDE DEF l
  <2>2. V[l] = V[k] + Len(seqs[l])
    BY <1>6, <2>1
  <2>3. seqs[l] = TextOf(us, i) /\ Len(seqs[l]) \in Nat
    BY <1>8, <2>1
  <2> HIDE DEF i
  <2>4. W[i] = W[a + k] + Len(TextOf(us, i))
    BY <1>9, <2>1
  <2>5. W[i] = W[a] + V[l]
    BY <1>10, <1>12, <2>1, <2>2, <2>3, <2>4
  <2> QED BY <2>1, <2>5 DEF i, l
<1>13. \A k \in 0 .. n : W[a + k] = W[a] + V[k]
  <2>1. \A k \in 0 .. n : k \in good
    <3> HIDE DEF good
    <3> QED BY <1>1, <1>11, <1>12, Counting
  <2> QED BY <2>1
<1>14. W[a + n] = W[a] + Len(flat)
  BY <1>1, <1>6, <1>13
<1>15. ASSUME NEW j \in 1 .. Len(flat) PROVE S[W[a] + j] = flat[j]
  <2>1. PICK k \in 1 .. n : V[k - 1] < j /\ j <= V[k]
    <3>1. n \in 0 .. n
      BY <1>1
    <3>2. \A m \in 0 .. n : \A p \in 1 .. V[m] : \E k \in 1 .. m : V[k - 1] < p /\ p <= V[k]
      BY <1>2, <1>5, CountedIs DEF StandsAt
    <3> QED BY <1>6, <3>1, <3>2
  <2> DEFINE s == j - V[k - 1]
             i == a + k
  <2>2. k - 1 \in 0 .. n /\ i \in 1 .. Len(us) /\ i - 1 = a + (k - 1)
    BY <1>1
  <2>3. V[k] = V[k - 1] + Len(seqs[k]) /\ V[k - 1] \in Nat /\ Len(seqs[k]) \in Nat /\ seqs[k] = TextOf(us, i)
    BY <1>6, <1>8, <1>10, <2>2
  <2>4. s \in 1 .. Len(seqs[k]) /\ V[k - 1] + s = j
    BY <2>1, <2>3
  <2> HIDE DEF s, i
  <2>5. flat[j] = seqs[k][s]
    BY <1>7, <2>4
  <2>6. S[W[i - 1] + s] = TextOf(us, i)[s]
    BY <1>9, <2>2, <2>3, <2>4
  <2>7. W[i - 1] = W[a] + V[k - 1]
    BY <1>13, <2>2
  <2>8. W[i - 1] + s = W[a] + j
    BY <1>10, <2>3, <2>4, <2>7
  <2> QED BY <2>3, <2>5, <2>6, <2>8
<1> QED
  BY <1>1, <1>4, <1>10, <1>14, <1>15 DEF a, flat

LEMMA UnitsOfRange ==
  ASSUME NEW us \in Seq(Units), NEW S, NEW W, PlacesIn(W, us, S), NEW range \in Pairs,
         1 <= range[1], range[1] <= range[2], range[2] <= Len(us) + 1,
         NEW p \in 1 .. Len(S), W[range[1] - 1] < p, p <= W[range[2] - 1]
  PROVE  S[p].unit \in range[1] .. range[2] - 1
<1>1. Len(us) \in Nat /\ range[1] \in Nat /\ range[2] \in Nat
  BY LenProperties DEF Pairs
<1>2. W \in [0 .. Len(us) -> Nat] /\ \A m \in 0 .. Len(us) : \A j \in 0 .. m : W[j] <= W[m]
  BY DEF PlacesIn
<1>3. PICK k \in 1 .. Len(us) : W[k - 1] < p /\ p <= W[k] /\ S[p].unit = k
  BY DEF PlacesIn
<1> DEFINE a == range[1] - 1
           b == range[2] - 1
<1>4. a \in 0 .. Len(us) /\ b \in 0 .. Len(us) /\ k - 1 \in 0 .. Len(us) /\ k \in 0 .. Len(us) /\ p \in Int
  BY <1>1
<1> HIDE DEF a, b
<1>5. W[a] \in Nat /\ W[b] \in Nat /\ W[k] \in Nat /\ W[k - 1] \in Nat
  BY <1>2, <1>4
<1>6. ~(k <= a)
  <2> SUFFICES ASSUME k <= a PROVE FALSE
    OBVIOUS
  <2>1. k \in 0 .. a
    BY <1>4
  <2>2. W[k] <= W[a]
    BY <1>2, <1>4, <2>1
  <2>3. W[a] < p
    BY DEF a
  <2> QED BY <1>3, <1>4, <1>5, <2>2, <2>3
<1>7. ~(b <= k - 1)
  <2> SUFFICES ASSUME b <= k - 1 PROVE FALSE
    OBVIOUS
  <2>1. b \in 0 .. k - 1
    BY <1>4
  <2>2. W[b] <= W[k - 1]
    BY <1>2, <1>4, <2>1
  <2>3. p <= W[b]
    BY DEF b
  <2> QED BY <1>3, <1>4, <1>5, <2>2, <2>3
<1> QED
  BY <1>1, <1>3, <1>6, <1>7 DEF a, b

-----------------------------------------------------------------------------
(* The passages of a book.                                                 *)

\* What is written on a passage holds for all of it: its units are in a range r
\* that nothing of B cuts, and it names the sections at the start of r.
InRange(pack, us, B, r) ==
  /\ 1 <= r[1] /\ r[1] < r[2] /\ r[2] <= Len(us) + 1
  /\ \A s \in B : ~(r[1] < s /\ s < r[2])
  /\ \A j \in 1 .. Len(pack) : pack[j].unit \in r[1] .. r[2] - 1
Cited(chunk, us, B) == \E r \in Pairs : InRange(chunk.pack, us, B, r) /\ chunk.context = ContextAt(us, r[1])

ChunkSet(us) == [pack : Seq(BookSentence), context : {ContextAt(us, i) : i \in 1 .. Len(us)}]

\* The passages C are the runs Q of the sentences S, from lo to hi.
Passages(C, Q, us, S, B, lo, hi) ==
  /\ C \in Seq(ChunkSet(us)) /\ Len(C) = Len(Q) /\ InTurn(Q, lo, hi)
  /\ \A k \in 1 .. Len(Q) : /\ IsRun(C[k].pack, S, Q[k][1], Q[k][2])
                            /\ Size(C[k].pack) > MaxTokens => Q[k][2] = Before(Q, k, lo) + 1
                            /\ Cited(C[k], us, B)

ChunksOf(us, range) ==
  LET packs == SentencePacks(Sentences(us, range))
  IN  SubSeq([k \in DOMAIN packs |-> [pack |-> packs[k], context |-> ContextAt(us, range[1])]], 1, Len(packs))

LEMMA ChunksOfAre ==
  ASSUME NEW us \in Seq(Units), NEW S, NEW W, PlacesIn(W, us, S), NEW range \in Pairs, NEW B,
         1 <= range[1], range[1] < range[2], range[2] <= Len(us) + 1,
         \A s \in B : ~(range[1] < s /\ s < range[2])
  PROVE  \E Q : Passages(ChunksOf(us, range), Q, us, S, B, W[range[1] - 1], W[range[2] - 1])
<1> DEFINE x == Sentences(us, range)
           lo == W[range[1] - 1]
           hi == W[range[2] - 1]
           packs == SentencePacks(x)
           n == Len(packs)
           context == ContextAt(us, range[1])
           f == [k \in DOMAIN packs |-> [pack |-> packs[k], context |-> context]]
           C == ChunksOf(us, range)
<1>1. Len(us) \in Nat /\ range[1] \in Nat /\ range[2] \in Nat /\ range[1] <= range[2] /\ range[1] \in 1 .. Len(us)
      /\ range[2] - 1 \in 0 .. Len(us) /\ range[1] - 1 \in 0 .. Len(us) /\ range[1] - 1 \in 0 .. range[2] - 1
  BY LenProperties DEF Pairs
<1>2. x \in Seq(BookSentence) /\ lo \in Nat /\ hi = lo + Len(x) /\ \A j \in 1 .. Len(x) : S[lo + j] = x[j]
  <2>1. /\ Sentences(us, range) \in Seq(BookSentence) /\ W[range[1] - 1] \in Nat
        /\ W[range[2] - 1] = W[range[1] - 1] + Len(Sentences(us, range))
        /\ \A j \in 1 .. Len(Sentences(us, range)) : S[W[range[1] - 1] + j] = Sentences(us, range)[j]
    <3>1. 1 <= range[1] /\ range[1] <= range[2] /\ range[2] <= Len(us) + 1
      BY <1>1
    <3> QED BY <3>1, RangePlaced
  <2> QED BY <2>1
<1>3. C = SubSeq(f, 1, n)
  BY DEF ChunksOf
<1> HIDE DEF C
<1>4. hi <= Len(S) /\ Len(S) \in Nat
  <2>1. /\ W \in [0 .. Len(us) -> Nat] /\ W[Len(us)] = Len(S)
        /\ \A m \in 0 .. Len(us) : \A j \in 0 .. m : W[j] <= W[m]
    BY DEF PlacesIn
  <2>2. Len(us) \in 0 .. Len(us)
    BY <1>1
  <2> QED BY <1>1, <2>1, <2>2
<1> HIDE DEF x, lo, hi
<1>5. PICK Q : InTurn(Q, lo, hi) /\ Packed(packs, Q, S, lo)
  BY <1>2, SentencePacksAre
<1> HIDE DEF packs, context
<1>6. /\ packs \in Seq(Seq(BookSentence)) /\ n = Len(Q) /\ n \in Nat /\ DOMAIN packs = 1 .. n
      /\ \A k \in 1 .. n : /\ packs[k] \in Seq(BookSentence) /\ IsRun(packs[k], S, Q[k][1], Q[k][2])
                           /\ Size(packs[k]) > MaxTokens => Q[k][2] = Before(Q, k, lo) + 1
  BY <1>5, LenProperties, ElementOfSeq DEF Packed
<1> HIDE DEF n
<1>7. context \in {ContextAt(us, i) : i \in 1 .. Len(us)}
  BY <1>1 DEF context
<1>8. \A k \in 1 .. n : f[k] \in ChunkSet(us)
  BY <1>6, <1>7 DEF ChunkSet
<1>9. \A k \in 1 .. n : f[k].pack = packs[k] /\ f[k].context = context
  BY <1>6
<1> HIDE DEF f
<1>10. C \in Seq(ChunkSet(us)) /\ Len(C) = n /\ \A k \in 1 .. n : C[k] = f[k]
  BY <1>3, <1>6, <1>8, FirstOf
<1>11. ASSUME NEW k \in 1 .. n PROVE InRange(packs[k], us, B, range)
  <2> DEFINE first == Q[k][1]
             last == Q[k][2]
  <2>1. first \in Nat /\ last \in Nat
    BY <1>5, <1>6, PairsAre DEF InTurn
  <2>2. lo < first /\ first <= last /\ last <= hi
    BY <1>5, <1>6 DEF InTurn
  <2> HIDE DEF first, last
  <2>3. Len(packs[k]) = last - first + 1 /\ \A j \in 1 .. Len(packs[k]) : packs[k][j] = S[first + j - 1]
    BY <1>6 DEF IsRun, first, last
  <2>4. ASSUME NEW j \in 1 .. Len(packs[k]) PROVE packs[k][j].unit \in range[1] .. range[2] - 1
    <3> DEFINE p == first + j - 1
    <3>1. p \in 1 .. Len(S) /\ lo < p /\ p <= hi
      <4>1. j \in 1 .. last - first + 1
        BY <2>3
      <4>2. p \in Nat /\ first <= p /\ p <= last
        BY <2>1, <4>1
      <4>3. lo \in Nat /\ hi \in Nat /\ hi <= Len(S) /\ Len(S) \in Nat
        <5>1. lo \in Nat /\ hi = lo + Len(x) /\ Len(x) \in Nat
          BY <1>2, LenProperties
        <5> QED BY <1>4, <5>1
      <4> HIDE DEF p
      <4> QED BY <2>1, <2>2, <4>2, <4>3
    <3>2. packs[k][j] = S[p]
      BY <2>3
    <3> HIDE DEF p
    <3>3. S[p].unit \in range[1] .. range[2] - 1
      BY <1>1, <3>1, UnitsOfRange DEF lo, hi
    <3> QED BY <3>2, <3>3
  <2> QED BY <2>4 DEF InRange
<1>12. \A k \in 1 .. n : Cited(C[k], us, B)
  BY <1>9, <1>10, <1>11 DEF Cited, context
<1>13. Passages(C, Q, us, S, B, lo, hi)
  BY <1>5, <1>6, <1>9, <1>10, <1>12 DEF Passages
<1> QED
  BY <1>13 DEF C, lo, hi

LEMMA PassagesJoin ==
  ASSUME NEW us, NEW S, NEW B, NEW lo \in Nat, NEW mid \in Nat, NEW hi \in Nat, lo <= mid, mid <= hi,
         NEW C, NEW Q, Passages(C, Q, us, S, B, lo, mid),
         NEW D, NEW R, Passages(D, R, us, S, B, mid, hi)
  PROVE  Passages(C \o D, Q \o R, us, S, B, lo, hi)
<1> DEFINE m == Len(Q)
           n == Len(R)
           E == C \o D
           P == Q \o R
           T == ChunkSet(us)
<1>1. /\ C \in Seq(T) /\ Len(C) = m /\ InTurn(Q, lo, mid)
      /\ D \in Seq(T) /\ Len(D) = n /\ InTurn(R, mid, hi)
  BY DEF Passages
<1>2. Q \in Seq(Pairs) /\ R \in Seq(Pairs) /\ Before(Q, m + 1, lo) = mid /\ Before(R, n + 1, mid) = hi
  BY <1>1 DEF InTurn
<1>3. /\ m \in Nat /\ n \in Nat /\ \A k \in 1 .. m : Q[k][1] \in Nat /\ Q[k][2] \in Nat
      /\ \A k \in 1 .. n : R[k][1] \in Nat /\ R[k][2] \in Nat
  BY <1>2, PairsAre
<1> HIDE DEF T
<1>4. /\ E \in Seq(T) /\ Len(E) = m + n /\ \A k \in 1 .. m : E[k] = C[k]
      /\ \A k \in 1 .. n : E[m + k] = D[k]
  <2> HIDE DEF m, n
  <2>1. /\ C \o D \in Seq(T) /\ Len(C \o D) = Len(C) + Len(D)
        /\ \A p \in 1 .. Len(C) : (C \o D)[p] = C[p]
        /\ \A p \in 1 .. Len(D) : (C \o D)[Len(C) + p] = D[p]
    <3>1. C \in Seq(T) /\ D \in Seq(T)
      BY <1>1
    <3> QED BY <3>1, ConcatHas
  <2> QED BY <1>1, <2>1
<1>5. /\ P \in Seq(Pairs) /\ Len(P) = m + n /\ \A k \in 1 .. m : P[k] = Q[k]
      /\ \A k \in 1 .. n : P[m + k] = R[k]
  BY <1>2, ConcatHas
<1> HIDE DEF E, P, m, n
<1>6. ASSUME NEW k \in 1 .. m + 1 PROVE Before(P, k, lo) = Before(Q, k, lo)
  <2>1. CASE k = 1
    BY <2>1 DEF Before
  <2>2. CASE k # 1
    <3>1. k - 1 \in 1 .. m
      BY <1>3, <2>2
    <3> QED BY <1>5, <2>2, <3>1 DEF Before
  <2> QED BY <2>1, <2>2
<1>7. ASSUME NEW k \in 1 .. n + 1 PROVE Before(P, m + k, lo) = Before(R, k, mid)
  <2>1. CASE k = 1
    <3>1. m + 1 \in 1 .. m + 1
      BY <1>3
    <3>2. Before(P, m + 1, lo) = mid
      BY <1>2, <1>6, <3>1 DEF m
    <3> QED BY <2>1, <3>2 DEF Before
  <2>2. CASE k # 1
    <3>1. k - 1 \in 1 .. n /\ m + k # 1 /\ (m + k) - 1 = m + (k - 1)
      BY <1>3, <2>2
    <3> QED BY <1>5, <2>2, <3>1 DEF Before
  <2> QED BY <2>1, <2>2
<1> DEFINE inTurn(k) == /\ lo < P[k][1] /\ P[k][1] <= P[k][2] /\ P[k][2] <= hi
                        /\ P[k][1] <= Before(P, k, lo) + 1 /\ Before(P, k, lo) < P[k][2]
                        /\ k # 1 => P[k - 1][1] <= P[k][1]
           isPassage(k) == /\ IsRun(E[k].pack, S, P[k][1], P[k][2])
                           /\ Size(E[k].pack) > MaxTokens => P[k][2] = Before(P, k, lo) + 1
                           /\ Cited(E[k], us, B)
<1>8. ASSUME NEW k \in 1 .. m PROVE inTurn(k) /\ isPassage(k)
  <2>1. /\ lo < Q[k][1] /\ Q[k][1] <= Q[k][2] /\ Q[k][2] <= mid
        /\ Q[k][1] <= Before(Q, k, lo) + 1 /\ Before(Q, k, lo) < Q[k][2]
        /\ k # 1 => Q[k - 1][1] <= Q[k][1]
    BY <1>1 DEF InTurn, m
  <2>2. /\ IsRun(C[k].pack, S, Q[k][1], Q[k][2])
        /\ Size(C[k].pack) > MaxTokens => Q[k][2] = Before(Q, k, lo) + 1
        /\ Cited(C[k], us, B)
    BY DEF Passages, m
  <2>3. P[k] = Q[k] /\ E[k] = C[k] /\ Before(P, k, lo) = Before(Q, k, lo) /\ (k # 1 => P[k - 1] = Q[k - 1])
    <3>1. k \in 1 .. m + 1 /\ (k # 1 => k - 1 \in 1 .. m)
      BY <1>3
    <3> QED BY <1>4, <1>5, <1>6, <3>1
  <2>4. Q[k][2] <= hi
    BY <1>3, <2>1
  <2>5. inTurn(k)
    BY <2>1, <2>3, <2>4
  <2>6. isPassage(k)
    BY <2>2, <2>3
  <2> QED BY <2>5, <2>6
<1>9. ASSUME NEW k \in 1 .. n PROVE inTurn(m + k) /\ isPassage(m + k)
  <2>1. /\ mid < R[k][1] /\ R[k][1] <= R[k][2] /\ R[k][2] <= hi
        /\ R[k][1] <= Before(R, k, mid) + 1 /\ Before(R, k, mid) < R[k][2]
        /\ k # 1 => R[k - 1][1] <= R[k][1]
    BY <1>1 DEF InTurn, n
  <2>2. /\ IsRun(D[k].pack, S, R[k][1], R[k][2])
        /\ Size(D[k].pack) > MaxTokens => R[k][2] = Before(R, k, mid) + 1
        /\ Cited(D[k], us, B)
    BY DEF Passages, n
  <2>3. P[m + k] = R[k] /\ E[m + k] = D[k] /\ Before(P, m + k, lo) = Before(R, k, mid)
    <3>1. k \in 1 .. n + 1
      BY <1>3
    <3> QED BY <1>4, <1>5, <1>7, <3>1
  <2>4. m + k # 1 => P[(m + k) - 1][1] <= P[m + k][1]
    <3>1. CASE k = 1
      <4>1. CASE m = 0
        BY <3>1, <4>1
      <4>2. CASE m # 0
        <5>1. m \in 1 .. m /\ (m + k) - 1 = m
          BY <1>3, <3>1, <4>2
        <5>2. Q[m][1] <= Q[m][2] /\ Q[m][2] <= mid
          BY <1>1, <5>1 DEF InTurn, m
        <5>3. Q[m][1] <= R[k][1]
          BY <1>3, <2>1, <5>1, <5>2
        <5> QED BY <1>5, <2>3, <5>1, <5>3
      <4> QED BY <4>1, <4>2
    <3>2. CASE k # 1
      <4>1. k - 1 \in 1 .. n /\ (m + k) - 1 = m + (k - 1)
        BY <1>3, <3>2
      <4>2. P[(m + k) - 1] = R[k - 1]
        BY <1>5, <4>1
      <4> QED BY <2>1, <2>3, <3>2, <4>2
    <3> QED BY <3>1, <3>2
  <2>5. lo < R[k][1]
    BY <1>3, <2>1
  <2>6. inTurn(m + k)
    BY <2>1, <2>3, <2>4, <2>5
  <2>7. isPassage(m + k)
    BY <2>2, <2>3
  <2> QED BY <2>6, <2>7
<1>10. ASSUME NEW k \in 1 .. m + n PROVE inTurn(k) /\ isPassage(k)
  <2>1. CASE k \in 1 .. m
    BY <1>8, <2>1
  <2>2. CASE k \notin 1 .. m
    <3> DEFINE j == k - m
    <3>1. j \in 1 .. n /\ k = m + j
      BY <1>3, <2>2
    <3> HIDE DEF j, inTurn, isPassage
    <3> QED BY <1>9, <3>1
  <2> QED BY <2>1, <2>2
<1>11. Before(P, Len(P) + 1, lo) = hi
  <2>1. n + 1 \in 1 .. n + 1 /\ Len(P) + 1 = m + (n + 1)
    BY <1>3, <1>5
  <2> QED BY <1>2, <1>7, <2>1 DEF n
<1>12. InTurn(P, lo, hi)
  BY <1>5, <1>10, <1>11 DEF InTurn
<1>13. Passages(E, P, us, S, B, lo, hi)
  BY <1>4, <1>5, <1>10, <1>12 DEF Passages, T
<1> QED
  BY <1>13 DEF E, P

LEMMA PassagesOfParts ==
  ASSUME NEW us \in Seq(Units), NEW S, NEW W, PlacesIn(W, us, S), NEW B,
         NEW parts, Cuts(parts, 1, Len(us) + 1, B),
         NEW seqs, seqs = [k \in DOMAIN parts |-> ChunksOf(us, parts[k])]
  PROVE  \E Q : Passages(FlattenSeq(seqs), Q, us, S, B, 0, Len(S))
<1> DEFINE n == Len(parts)
           T == ChunkSet(us)
           end(m) == IF m = 0 THEN 1 ELSE parts[m][2]
           at(m) == W[end(m) - 1]
<1>1. /\ parts \in Seq(Pairs) /\ n # 0 /\ parts[1][1] = 1 /\ parts[n][2] = Len(us) + 1
      /\ \A k \in 1 .. n : /\ 1 <= parts[k][1] /\ parts[k][1] < parts[k][2] /\ parts[k][2] <= Len(us) + 1
                           /\ \A s \in B : ~(parts[k][1] < s /\ s < parts[k][2])
      /\ \A k \in 1 .. n - 1 : parts[k][2] = parts[k + 1][1]
  BY DEF Cuts
<1>2. /\ n \in Nat /\ Len(us) \in Nat /\ DOMAIN parts = 1 .. n
      /\ \A k \in 1 .. n : parts[k] \in Pairs /\ parts[k][1] \in Nat /\ parts[k][2] \in Nat
  BY <1>1, PairsAre, LenProperties
<1>3. /\ W \in [0 .. Len(us) -> Nat] /\ W[0] = 0 /\ W[Len(us)] = Len(S)
      /\ \A m \in 0 .. Len(us) : \A j \in 0 .. m : W[j] <= W[m]
  BY DEF PlacesIn
<1> HIDE DEF n, T
<1>4. ASSUME NEW k \in 1 .. n
      PROVE  \E Q : Passages(ChunksOf(us, parts[k]), Q, us, S, B, W[parts[k][1] - 1], W[parts[k][2] - 1])
  BY <1>1, <1>2, ChunksOfAre
<1>5. seqs \in Seq(Seq(T)) /\ Len(seqs) = n /\ \A k \in 1 .. n : seqs[k] = ChunksOf(us, parts[k])
  <2>1. ASSUME NEW k \in 1 .. n PROVE ChunksOf(us, parts[k]) \in Seq(T)
    BY <1>4 DEF Passages, T
  <2>2. seqs \in [1 .. n -> Seq(T)] /\ \A k \in 1 .. n : seqs[k] = ChunksOf(us, parts[k])
    BY <1>2, <2>1
  <2> QED BY <1>2, <2>2, FunctionIsSeq
<1>6. PICK f : /\ f \in [0 .. n -> Seq(T)] /\ f[0] = <<>>
               /\ \A i \in 1 .. n : f[i] = f[i - 1] \o seqs[i]
               /\ FlattenSeq(seqs) = f[n]
  BY <1>5, FlattenIs
<1> DEFINE good == {m \in 0 .. n : \E Q : Passages(f[m], Q, us, S, B, 0, at(m))}
<1>7. 0 \in good
  <2> DEFINE Q == <<>>
  <2>1. Q \in Seq(Pairs) /\ Len(Q) = 0 /\ f[0] \in Seq(ChunkSet(us)) /\ Len(f[0]) = 0
    BY <1>6, EmptySeq
  <2> HIDE DEF Q
  <2>2. InTurn(Q, 0, 0)
    BY <2>1 DEF InTurn, Before
  <2>3. Passages(f[0], Q, us, S, B, 0, 0)
    BY <2>1, <2>2 DEF Passages
  <2>4. at(0) = 0 /\ 0 \in 0 .. n
    BY <1>2, <1>3
  <2> QED BY <2>3, <2>4
<1>8. ASSUME NEW m \in 0 .. n - 1, m \in good PROVE m + 1 \in good
  <2> DEFINE k == m + 1
             mid == at(m)
             hi == at(k)
  <2>1. k \in 1 .. n /\ k \in 0 .. n /\ k # 0 /\ k - 1 = m
    BY <1>2
  <2>2. end(m) = parts[k][1] /\ end(k) = parts[k][2]
    <3>1. m # 0 => m \in 1 .. n - 1
      BY <1>2
    <3> QED BY <1>1, <2>1, <3>1
  <2>3. end(m) - 1 \in 0 .. Len(us) /\ end(k) - 1 \in 0 .. Len(us) /\ end(m) - 1 \in 0 .. end(k) - 1
    <3> HIDE DEF k, end
    <3> DEFINE from == parts[k][1]
               to == parts[k][2]
    <3>1. from \in Nat /\ to \in Nat /\ 1 <= from /\ from < to /\ to <= Len(us) + 1
      BY <1>1, <1>2, <2>1
    <3>2. end(m) = from /\ end(k) = to
      BY <2>2
    <3> HIDE DEF from, to
    <3>3. from - 1 \in 0 .. Len(us) /\ to - 1 \in 0 .. Len(us) /\ from - 1 \in 0 .. to - 1
      BY <1>2, <3>1
    <3> QED BY <3>2, <3>3
  <2>4. mid \in Nat /\ hi \in Nat /\ mid <= hi /\ 0 <= mid
    <3> HIDE DEF k, end
    <3> QED BY <1>3, <2>3
  <2>5. PICK Q : Passages(f[m], Q, us, S, B, 0, mid)
    BY <1>8
  <2>6. PICK R : Passages(seqs[k], R, us, S, B, mid, hi)
    <3>1. seqs[k] = ChunksOf(us, parts[k]) /\ mid = W[parts[k][1] - 1] /\ hi = W[parts[k][2] - 1]
      <4> HIDE DEF k, end
      <4> QED BY <1>5, <2>1, <2>2
    <3> HIDE DEF k, mid, hi
    <3> QED BY <1>4, <2>1, <3>1
  <2>7. f[k] = f[m] \o seqs[k]
    <3> HIDE DEF k
    <3> QED BY <1>6, <2>1
  <2> HIDE DEF k, mid, hi
  <2>8. Passages(f[m] \o seqs[k], Q \o R, us, S, B, 0, hi)
    BY <2>4, <2>5, <2>6, PassagesJoin
  <2>9. \E P : Passages(f[k], P, us, S, B, 0, at(k))
    BY <2>7, <2>8 DEF hi
  <2>10. k \in good
    BY <2>1, <2>9
  <2> QED BY <2>10 DEF k
<1>9. n \in good
  <2>1. \A m \in 0 .. n : m \in good
    <3> HIDE DEF good
    <3> QED BY <1>2, <1>7, <1>8, Counting
  <2>2. n \in 0 .. n
    BY <1>2
  <2> QED BY <2>1, <2>2
<1>10. at(n) = Len(S)
  <2>1. (Len(us) + 1) - 1 = Len(us) /\ n # 0
    BY <1>1, <1>2 DEF n
  <2> QED BY <1>1, <1>3, <2>1 DEF n
<1> QED
  BY <1>6, <1>9, <1>10

\* The passages of a book are its sentences in turn.
LEMMA ChunksAre ==
  ASSUME NEW us \in Seq(Units), NEW S, NEW W, PlacesIn(W, us, S)
  PROVE  \E Q : Passages(Chunks(us), Q, us, S, BoundaryStarts(us), 0, Len(S))
<1> DEFINE n == Len(us)
           B == BoundaryStarts(us)
           ranges == Ranges(B, 1, n + 1)
           cuts == [k \in DOMAIN ranges |-> SplitRange(us, ranges[k])]
           parts == FlattenSeq(cuts)
           seqs == [k \in DOMAIN parts |-> ChunksOf(us, parts[k])]
<1>1. n \in Nat /\ DOMAIN us = 1 .. n
  BY LenProperties
<1>2. CASE us = <<>>
  <2> DEFINE Q == <<>>
             C == Chunks(us)
  <2>1. C = <<>> /\ n = 0
    BY <1>2 DEF Chunks
  <2>2. Q \in Seq(Pairs) /\ Len(Q) = 0 /\ C \in Seq(ChunkSet(us)) /\ Len(C) = 0
    BY <2>1, EmptySeq
  <2>3. Len(S) = 0
    BY <2>1 DEF PlacesIn
  <2> HIDE DEF Q, C
  <2>4. InTurn(Q, 0, 0)
    BY <2>2 DEF InTurn, Before
  <2>5. Passages(C, Q, us, S, B, 0, 0)
    BY <2>2, <2>4 DEF Passages
  <2> QED BY <2>3, <2>5 DEF C
<1>3. CASE us # <<>>
  <2>1. n # 0 /\ 1 < n + 1 /\ B \in SUBSET (1 .. n) /\ (n + 1) - 1 = n
    <3>1. n # 0
      BY <1>3, EmptySeq
    <3> QED BY <1>1, <3>1 DEF BoundaryStarts
  <2>2. Chunks(us) = FlattenSeq(seqs)
    BY <1>3 DEF Chunks, ChunksOf
  <2> HIDE DEF B, seqs, n
  <2>3. Cuts(ranges, 1, n + 1, B)
    <3>1. 1 \in Nat /\ n + 1 \in Nat /\ B \in SUBSET (1 .. (n + 1) - 1)
      BY <1>1, <2>1
    <3> QED BY <2>1, <3>1, RangesAre
  <2> HIDE DEF ranges
  <2>4. /\ ranges \in Seq(Pairs) /\ Len(ranges) \in Nat /\ DOMAIN ranges = 1 .. Len(ranges)
        /\ \A k \in 1 .. Len(ranges) : ranges[k] \in Pairs /\ ranges[k][1] \in Nat /\ ranges[k][2] \in Nat
                                       /\ ranges[k] = <<ranges[k][1], ranges[k][2]>>
    BY <2>3, PairsAre, LenProperties DEF Cuts
  <2>5. ASSUME NEW k \in 1 .. Len(ranges)
        PROVE  Cuts(SplitRange(us, ranges[k]), ranges[k][1], ranges[k][2], B) /\ SplitRange(us, ranges[k]) \in Seq(Pairs)
    <3> DEFINE range == ranges[k]
    <3>1. /\ 1 <= range[1] /\ range[1] < range[2] /\ range[2] <= n + 1
          /\ \A s \in B : ~(range[1] < s /\ s < range[2])
      BY <2>3 DEF Cuts
    <3>2. range[1] \in Nat /\ range[2] \in Nat /\ range = <<range[1], range[2]>>
      BY <2>4
    <3> HIDE DEF range
    <3>3. range[1] \in 1 .. n /\ range[2] \in 2 .. n + 1
      BY <1>1, <3>1, <3>2
    <3>4. range \in (1 .. n) \X (2 .. n + 1)
      BY <3>2, <3>3
    <3>5. B \in SUBSET Int
      BY <1>1, <2>1
    <3>6. Cuts(SplitRange(us, range), range[1], range[2], B)
      BY <3>1, <3>4, <3>5, SplitRangeIs DEF n
    <3> QED BY <3>6 DEF Cuts, range
  <2>6. cuts \in Seq(Seq(Pairs)) /\ Len(cuts) = Len(ranges)
        /\ \A k \in 1 .. Len(ranges) : Cuts(cuts[k], ranges[k][1], ranges[k][2], B)
    <3>1. cuts \in [1 .. Len(ranges) -> Seq(Pairs)]
          /\ \A k \in 1 .. Len(ranges) : Cuts(cuts[k], ranges[k][1], ranges[k][2], B)
      BY <2>4, <2>5
    <3> HIDE DEF cuts
    <3> QED BY <2>4, <3>1, FunctionIsSeq
  <2> HIDE DEF cuts
  <2>7. Cuts(parts, 1, n + 1, B)
    <3> DEFINE end == n + 1
    <3>1. 1 \in Nat /\ end \in Nat
      BY <1>1
    <3> HIDE DEF end
    <3>2. Cuts(ranges, 1, end, B) /\ cuts \in Seq(Seq(Pairs)) /\ Len(cuts) = Len(ranges)
          /\ \A k \in 1 .. Len(ranges) : Cuts(cuts[k], ranges[k][1], ranges[k][2], B)
      BY <2>3, <2>6 DEF end
    <3>3. Cuts(FlattenSeq(cuts), 1, end, B)
      BY <3>1, <3>2, CutAgain
    <3> QED BY <3>3 DEF end
  <2> HIDE DEF parts
  <2>8. \E Q : Passages(FlattenSeq(seqs), Q, us, S, B, 0, Len(S))
    BY <2>7, PassagesOfParts DEF seqs, n
  <2> QED BY <2>2, <2>8 DEF B
<1> QED
  BY <1>2, <1>3

-----------------------------------------------------------------------------
(* What holds of the passages, of every book and after every page.         *)

\* The passages kept are those of the units that were read (extract_chunks).
ChunksInv == chunks = Chunks(units)

LEMMA InitChunksInv == Init => ChunksInv
BY DEF Init, ChunksInv, Chunks

LEMMA StepChunksInv == ChunksInv /\ [Next]_vars => ChunksInv'
<1> SUFFICES ASSUME ChunksInv, [Next]_vars PROVE ChunksInv'
  OBVIOUS
<1>1. CASE UNCHANGED vars
  BY <1>1 DEF vars, ChunksInv
<1>2. ASSUME NEW page \in Following, ReadPage(page) PROVE ChunksInv'
  BY <1>2 DEF ReadPage, ChunksInv
<1> QED
  BY <1>1, <1>2 DEF Next

LEMMA ChunksInvAlways == Spec => [](BookTypeInv /\ ChunksInv)
<1>1. Init => ChunksInv
  BY InitChunksInv
<1>2. ChunksInv /\ [Next]_vars => ChunksInv'
  BY StepChunksInv
<1>3. Spec => []ChunksInv
  BY <1>1, <1>2, PTL DEF Spec
<1>4. Spec => []BookTypeInv
  BY BookTypeInvAlways
<1> QED
  BY <1>3, <1>4, PTL

\* Where the passages stand, by the numbers of their runs.
Runs(C, Q, S) ==
  /\ DOMAIN C = 1 .. Len(Q) /\ Len(C) = Len(Q) /\ Len(Q) \in Nat
  /\ Before(Q, Len(Q) + 1, 0) = Len(S)
  /\ \A k \in 1 .. Len(Q) :
       /\ Q[k][1] \in 1 .. Len(S) /\ Q[k][2] \in 1 .. Len(S) /\ Q[k][1] <= Q[k][2]
       /\ Before(Q, k, 0) \in Nat /\ Q[k][1] <= Before(Q, k, 0) + 1 /\ Before(Q, k, 0) < Q[k][2]
       /\ C[k].pack \in Seq(BookSentence)
       /\ Len(C[k].pack) = Q[k][2] - Q[k][1] + 1 /\ DOMAIN C[k].pack = 1 .. Q[k][2] - Q[k][1] + 1
       /\ \A s \in 1 .. Q[k][2] - Q[k][1] + 1 : /\ C[k].pack[s] = S[Q[k][1] + s - 1]
                                                /\ Q[k][1] + s - 1 \in 1 .. Len(S)

LEMMA PassageIs ==
  ASSUME NEW us, NEW S \in Seq(BookSentence), NEW B, NEW C, NEW Q, Passages(C, Q, us, S, B, 0, Len(S))
  PROVE  Runs(C, Q, S)
<1> DEFINE n == Len(Q)
<1>1. C \in Seq(ChunkSet(us)) /\ Len(C) = n /\ InTurn(Q, 0, Len(S)) /\ Len(S) \in Nat
  BY LenProperties DEF Passages
<1>2. Q \in Seq(Pairs) /\ Before(Q, n + 1, 0) = Len(S)
  BY <1>1 DEF InTurn
<1>3. n \in Nat /\ DOMAIN C = 1 .. n /\ \A k \in 1 .. n : Q[k][1] \in Nat /\ Q[k][2] \in Nat
  <2>1. DOMAIN C = 1 .. n
    BY <1>1, LenProperties
  <2> QED BY <1>2, <2>1, PairsAre
<1>4. ASSUME NEW k \in 1 .. n
      PROVE  /\ Q[k][1] \in 1 .. Len(S) /\ Q[k][2] \in 1 .. Len(S) /\ Q[k][1] <= Q[k][2]
             /\ Before(Q, k, 0) \in Nat /\ Q[k][1] <= Before(Q, k, 0) + 1 /\ Before(Q, k, 0) < Q[k][2]
  <2>1. /\ 0 < Q[k][1] /\ Q[k][1] <= Q[k][2] /\ Q[k][2] <= Len(S)
        /\ Q[k][1] <= Before(Q, k, 0) + 1 /\ Before(Q, k, 0) < Q[k][2]
    BY <1>1 DEF InTurn
  <2>2. Before(Q, k, 0) \in Nat
    <3>1. k # 1 => k - 1 \in 1 .. n
      BY <1>3
    <3> QED BY <1>3, <3>1 DEF Before
  <2> QED BY <1>1, <1>3, <2>1, <2>2
<1>5. ASSUME NEW k \in 1 .. n
      PROVE  /\ C[k].pack \in Seq(BookSentence)
             /\ Len(C[k].pack) = Q[k][2] - Q[k][1] + 1 /\ DOMAIN C[k].pack = 1 .. Q[k][2] - Q[k][1] + 1
             /\ \A s \in 1 .. Q[k][2] - Q[k][1] + 1 : /\ C[k].pack[s] = S[Q[k][1] + s - 1]
                                                      /\ Q[k][1] + s - 1 \in 1 .. Len(S)
  <2> DEFINE pack == C[k].pack
             first == Q[k][1]
             last == Q[k][2]
             m == last - first + 1
  <2>1. IsRun(pack, S, first, last)
    BY DEF Passages
  <2>2. first \in 1 .. Len(S) /\ last \in 1 .. Len(S) /\ first <= last
    BY <1>4
  <2> HIDE DEF pack, first, last
  <2>3. pack \in Seq(BookSentence) /\ Len(pack) = m /\ \A s \in 1 .. m : pack[s] = S[first + s - 1]
    BY <2>1 DEF IsRun
  <2>4. \A s \in 1 .. m : first + s - 1 \in 1 .. Len(S)
    BY <1>1, <2>2
  <2>5. DOMAIN pack = 1 .. m
    BY <2>3, LenProperties
  <2> QED BY <2>3, <2>4, <2>5 DEF pack, first, last
<1> QED
  BY <1>1, <1>2, <1>3, <1>4, <1>5 DEF Runs

\* The passages that are kept are runs of the book's sentences.
LEMMA BookPassages ==
  ASSUME BookTypeInv, ChunksInv
  PROVE  /\ BookSentences \in Seq(BookSentence) /\ Len(BookSentences) \in Nat
         /\ \A p, q \in 1 .. Len(BookSentences) : BookSentences[p] = BookSentences[q] => p = q
         /\ \E Q : /\ Passages(chunks, Q, units, BookSentences, BoundaryStarts(units), 0, Len(BookSentences))
                   /\ Runs(chunks, Q, BookSentences)
<1> DEFINE S == BookSentences
<1>1. units \in Seq(Units) /\ chunks = Chunks(units) /\ S = Sentences(units, <<1, Len(units) + 1>>)
  BY DEF BookTypeInv, ChunksInv, BookSentences
<1> HIDE DEF S
<1>2. S \in Seq(BookSentence)
  BY <1>1, SentencesPlaced
<1>3. PICK W : PlacesIn(W, units, S)
  BY <1>1, SentencesPlaced
<1>4. \A p, q \in 1 .. Len(S) : S[p] = S[q] => p = q
  BY <1>1, <1>3, PlacesDiffer
<1>5. PICK Q : Passages(chunks, Q, units, S, BoundaryStarts(units), 0, Len(S))
  BY <1>1, <1>3, ChunksAre
<1>6. Runs(chunks, Q, S)
  BY <1>2, <1>5, PassageIs
<1> QED
  BY <1>2, <1>4, <1>5, <1>6, LenProperties DEF S

LEMMA PlaceOfIs ==
  ASSUME BookSentences \in Seq(BookSentence),
         \A p, q \in 1 .. Len(BookSentences) : BookSentences[p] = BookSentences[q] => p = q,
         NEW p \in 1 .. Len(BookSentences)
  PROVE  PlaceOf(BookSentences[p]) = p
<1>1. DOMAIN BookSentences = 1 .. Len(BookSentences)
  BY LenProperties
<1>2. /\ PlaceOf(BookSentences[p]) \in DOMAIN BookSentences
      /\ BookSentences[PlaceOf(BookSentences[p])] = BookSentences[p]
  BY <1>1 DEF PlaceOf
<1> QED
  BY <1>1, <1>2

LEMMA PassagesLoseNothing ==
  ASSUME BookTypeInv, ChunksInv
  PROVE  NothingIsLost
<1> DEFINE S == BookSentences
           places(k) == [s \in DOMAIN chunks[k].pack |-> PlaceOf(chunks[k].pack[s])]
           first(k) == places(k)[1]
           last(k) == IF k = 0 THEN 0 ELSE places(k)[Len(chunks[k].pack)]
<1>1. S \in Seq(BookSentence) /\ Len(S) \in Nat /\ \A p, q \in 1 .. Len(S) : S[p] = S[q] => p = q
  BY BookPassages
<1>2. PICK Q : Passages(chunks, Q, units, S, BoundaryStarts(units), 0, Len(S)) /\ Runs(chunks, Q, S)
  BY BookPassages
<1> DEFINE n == Len(Q)
<1>3. DOMAIN chunks = 1 .. n /\ Len(chunks) = n /\ n \in Nat /\ Before(Q, n + 1, 0) = Len(S)
  BY <1>2 DEF Runs
<1>4. ASSUME NEW k \in 1 .. n
      PROVE  /\ Q[k][1] \in 1 .. Len(S) /\ Q[k][2] \in 1 .. Len(S) /\ Q[k][1] <= Q[k][2]
             /\ Q[k][1] <= Before(Q, k, 0) + 1 /\ Before(Q, k, 0) < Q[k][2]
             /\ Len(chunks[k].pack) = Q[k][2] - Q[k][1] + 1 /\ DOMAIN chunks[k].pack = 1 .. Q[k][2] - Q[k][1] + 1
             /\ \A s \in 1 .. Q[k][2] - Q[k][1] + 1 : PlaceOf(chunks[k].pack[s]) = Q[k][1] + s - 1
  <2>1. /\ Q[k][1] \in 1 .. Len(S) /\ Q[k][2] \in 1 .. Len(S) /\ Q[k][1] <= Q[k][2]
        /\ Q[k][1] <= Before(Q, k, 0) + 1 /\ Before(Q, k, 0) < Q[k][2]
        /\ Len(chunks[k].pack) = Q[k][2] - Q[k][1] + 1 /\ DOMAIN chunks[k].pack = 1 .. Q[k][2] - Q[k][1] + 1
        /\ \A s \in 1 .. Q[k][2] - Q[k][1] + 1 : /\ chunks[k].pack[s] = S[Q[k][1] + s - 1]
                                                 /\ Q[k][1] + s - 1 \in 1 .. Len(S)
    BY <1>2 DEF Runs
  <2>2. \A p \in 1 .. Len(S) : PlaceOf(S[p]) = p
    BY <1>1, PlaceOfIs
  <2> HIDE DEF S
  <2>3. \A s \in 1 .. Q[k][2] - Q[k][1] + 1 : PlaceOf(chunks[k].pack[s]) = Q[k][1] + s - 1
    BY <2>1, <2>2
  <2> QED BY <2>1, <2>3
<1>5. ASSUME NEW k \in 1 .. n
      PROVE  /\ DOMAIN places(k) = 1 .. Q[k][2] - Q[k][1] + 1
             /\ \A s \in 1 .. Q[k][2] - Q[k][1] + 1 : places(k)[s] = Q[k][1] + s - 1
             /\ first(k) = Q[k][1] /\ last(k) = Q[k][2]
  <2> DEFINE m == Q[k][2] - Q[k][1] + 1
  <2>1. m \in Nat /\ 1 \in 1 .. m /\ m \in 1 .. m /\ Q[k][1] + 1 - 1 = Q[k][1] /\ Q[k][1] + m - 1 = Q[k][2]
    BY <1>1, <1>4
  <2>2. Len(chunks[k].pack) = m /\ DOMAIN chunks[k].pack = 1 .. m
        /\ \A s \in 1 .. m : PlaceOf(chunks[k].pack[s]) = Q[k][1] + s - 1
    BY <1>4
  <2> HIDE DEF m
  <2>3. DOMAIN places(k) = 1 .. m /\ \A s \in 1 .. m : places(k)[s] = Q[k][1] + s - 1
    BY <2>2
  <2>4. k # 0
    BY <1>3
  <2> HIDE DEF places
  <2> QED BY <2>1, <2>2, <2>3, <2>4 DEF m
<1>6. ASSUME NEW k \in 1 .. n + 1 PROVE last(k - 1) = Before(Q, k, 0)
  <2>1. CASE k = 1
    BY <2>1 DEF Before
  <2>2. CASE k # 1
    <3>1. k - 1 \in 1 .. n
      BY <1>3, <2>2
    <3> HIDE DEF last
    <3> QED BY <1>5, <2>2, <3>1 DEF Before
  <2> QED BY <2>1, <2>2
<1> HIDE DEF places, first, last, n, S
<1>7. ASSUME NEW k \in 1 .. n
      PROVE  /\ \A s \in DOMAIN places(k) : places(k)[s] = first(k) + s - 1
             /\ first(k) <= last(k - 1) + 1
             /\ last(k - 1) < last(k)
  <2>1. k \in 1 .. n + 1
    BY <1>3
  <2>2. last(k - 1) = Before(Q, k, 0)
    BY <1>6, <2>1
  <2> QED BY <1>4, <1>5, <2>2
<1>8. last(n) = Len(S)
  <2>1. n + 1 \in 1 .. n + 1 /\ (n + 1) - 1 = n
    BY <1>3
  <2>2. last((n + 1) - 1) = Before(Q, n + 1, 0)
    BY <1>6, <2>1
  <2> QED BY <1>3, <2>1, <2>2
<1> QED
  BY <1>3, <1>7, <1>8 DEF NothingIsLost, places, first, last, S

LEMMA PassagesHaveOneContext ==
  ASSUME BookTypeInv, ChunksInv
  PROVE  PassagesAreCitable
<1> DEFINE S == BookSentences
           B == BoundaryStarts(units)
<1>1. S \in Seq(BookSentence)
  BY BookPassages
<1>2. PICK Q : Passages(chunks, Q, units, S, B, 0, Len(S)) /\ Runs(chunks, Q, S)
  BY BookPassages
<1>3. DOMAIN chunks = 1 .. Len(Q)
  BY <1>2 DEF Runs
<1>4. Len(units) \in Nat /\ DOMAIN units = 1 .. Len(units)
  BY LenProperties DEF BookTypeInv
<1> SUFFICES ASSUME NEW k \in 1 .. Len(Q)
             PROVE  LET chunk == chunks[k]
                        first == chunk.pack[1].unit
                        last == chunk.pack[Len(chunk.pack)].unit
                    IN  /\ \A i \in first + 1 .. last :
                             /\ units[i].level \notin BoundaryLevels(units)
                             /\ units[i].page # units[i - 1].page => units[i - 1].level = "body" /\ ~units[i - 1].ends
                        /\ \A s \in DOMAIN chunk.pack, level \in BoundaryLevels(units) :
                             chunk.context[level] = ContextAt(units, chunk.pack[s].unit)[level]
  BY <1>3 DEF PassagesAreCitable
<1> DEFINE pack == chunks[k].pack
           m == Len(pack)
<1>5. m \in Nat /\ m # 0 /\ DOMAIN pack = 1 .. m
  <2>1. /\ Q[k][1] \in 1 .. Len(S) /\ Q[k][2] \in 1 .. Len(S) /\ Q[k][1] <= Q[k][2]
        /\ m = Q[k][2] - Q[k][1] + 1 /\ DOMAIN pack = 1 .. Q[k][2] - Q[k][1] + 1
    BY <1>2 DEF Runs
  <2> QED BY <2>1
<1>6. PICK r \in Pairs : InRange(pack, units, B, r) /\ chunks[k].context = ContextAt(units, r[1])
  BY <1>2 DEF Passages, Cited
<1>7. /\ 1 <= r[1] /\ r[1] < r[2] /\ r[2] <= Len(units) + 1 /\ r[1] \in Nat /\ r[2] \in Nat
      /\ \A s \in B : ~(r[1] < s /\ s < r[2])
      /\ \A j \in 1 .. m : pack[j].unit \in r[1] .. r[2] - 1
  BY <1>6 DEF InRange, Pairs
<1>8. ASSUME NEW i \in r[1] + 1 .. r[2] - 1
      PROVE  /\ units[i].level \notin BoundaryLevels(units)
             /\ units[i].page # units[i - 1].page => units[i - 1].level = "body" /\ ~units[i - 1].ends
  <2>1. i \in 1 .. Len(units) /\ i > 1 /\ r[1] < i /\ i < r[2]
    BY <1>4, <1>7
  <2>2. i \notin B
    BY <1>7, <2>1
  <2>3. ~(\/ units[i].level \in BoundaryLevels(units)
          \/ i > 1 /\ units[i].page # units[i - 1].page /\ ~PageContinues(units, i))
    BY <1>4, <2>1, <2>2 DEF BoundaryStarts
  <2> QED BY <2>1, <2>3 DEF PageContinues
<1> HIDE DEF pack, m, B, S
<1>9. \A i \in pack[1].unit + 1 .. pack[m].unit : i \in r[1] + 1 .. r[2] - 1
  <2>1. 1 \in 1 .. m /\ m \in 1 .. m
    BY <1>5
  <2>2. pack[1].unit \in r[1] .. r[2] - 1 /\ pack[m].unit \in r[1] .. r[2] - 1
    BY <1>7, <2>1
  <2> DEFINE x == pack[1].unit
             y == pack[m].unit
  <2>3. x \in r[1] .. r[2] - 1 /\ y \in r[1] .. r[2] - 1 /\ r[1] \in Nat /\ r[2] \in Nat
    BY <1>7, <2>2
  <2> HIDE DEF x, y
  <2>4. \A i \in x + 1 .. y : i \in r[1] + 1 .. r[2] - 1
    BY <2>3
  <2> QED BY <2>4 DEF x, y
<1>10. ASSUME NEW s \in 1 .. m, NEW level \in BoundaryLevels(units)
       PROVE  ContextAt(units, r[1])[level] = ContextAt(units, pack[s].unit)[level]
  <2> DEFINE u == pack[s].unit
             upTo(i) == {j \in 1 .. i : units[j].level = level}
  <2>1. u \in r[1] .. r[2] - 1
    BY <1>7
  <2>2. level \in Levels
    BY LevelsBelow
  <2> HIDE DEF u
  <2>3. ASSUME NEW j \in 1 .. u, units[j].level = level PROVE j \in 1 .. r[1]
    <3>1. CASE j <= r[1]
      BY <1>7, <2>1, <3>1
    <3>2. CASE ~(j <= r[1])
      <4>1. j \in r[1] + 1 .. r[2] - 1
        BY <1>7, <2>1, <3>2
      <4> QED BY <1>8, <2>3, <4>1
    <3> QED BY <3>1, <3>2
  <2>4. \A j \in 1 .. r[1] : j \in 1 .. u
    BY <1>7, <2>1
  <2>5. upTo(r[1]) = upTo(u)
    BY <2>3, <2>4
  <2>6. \A i : ContextAt(units, i)[level] = IF upTo(i) = {} THEN NoName ELSE units[Max(upTo(i))].name
    BY <2>2 DEF ContextAt
  <2> HIDE DEF upTo
  <2> QED BY <2>5, <2>6 DEF u
<1> QED
  BY <1>5, <1>6, <1>8, <1>9, <1>10 DEF pack, m

LEMMA PassagesAreShort ==
  ASSUME BookTypeInv, ChunksInv
  PROVE  OneSentenceTooMany
<1> DEFINE S == BookSentences
<1>1. S \in Seq(BookSentence) /\ Len(S) \in Nat /\ \A p, q \in 1 .. Len(S) : S[p] = S[q] => p = q
  BY BookPassages
<1>2. PICK Q : Passages(chunks, Q, units, S, BoundaryStarts(units), 0, Len(S)) /\ Runs(chunks, Q, S)
  BY BookPassages
<1> DEFINE n == Len(Q)
           pack(k) == chunks[k].pack
<1>3. DOMAIN chunks = 1 .. n /\ n \in Nat
  BY <1>2 DEF Runs
<1>4. ASSUME NEW k \in 1 .. n
      PROVE  /\ Q[k][1] \in 1 .. Len(S) /\ Q[k][2] \in 1 .. Len(S) /\ Q[k][1] <= Q[k][2]
             /\ Before(Q, k, 0) \in Nat /\ Q[k][1] <= Before(Q, k, 0) + 1 /\ Before(Q, k, 0) < Q[k][2]
             /\ DOMAIN pack(k) = 1 .. Q[k][2] - Q[k][1] + 1
             /\ \A s \in 1 .. Q[k][2] - Q[k][1] + 1 : /\ pack(k)[s] = S[Q[k][1] + s - 1]
                                                      /\ Q[k][1] + s - 1 \in 1 .. Len(S)
  BY <1>2 DEF Runs
<1> HIDE DEF S, pack
<1>5. ASSUME NEW k \in 1 .. n PROVE Range(pack(k)) = {S[p] : p \in Q[k][1] .. Q[k][2]}
  <2> DEFINE first == Q[k][1]
             last == Q[k][2]
             m == last - first + 1
  <2>1. first \in Int /\ last \in Int /\ DOMAIN pack(k) = 1 .. m /\ \A s \in 1 .. m : pack(k)[s] = S[first + s - 1]
    BY <1>4
  <2> HIDE DEF first, last
  <2>2. Range(pack(k)) = {pack(k)[s] : s \in 1 .. m}
    BY <2>1 DEF Range
  <2>3. \A s \in 1 .. m : first + s - 1 \in first .. last
    BY <2>1
  <2>4. ASSUME NEW p \in first .. last PROVE \E s \in 1 .. m : pack(k)[s] = S[p]
    <3> DEFINE s == p - first + 1
    <3>1. s \in 1 .. m /\ first + s - 1 = p
      BY <2>1
    <3>2. pack(k)[s] = S[p]
      <4> HIDE DEF s
      <4> QED BY <2>1, <3>1
    <3> QED BY <3>1, <3>2
  <2> DEFINE some == {pack(k)[s] : s \in 1 .. m}
             all == {S[p] : p \in first .. last}
  <2> HIDE DEF m
  <2>5. \A x \in some : x \in all
    BY <2>1, <2>3
  <2>6. \A x \in all : x \in some
    BY <2>4
  <2>7. some = all
    <3> HIDE DEF some, all
    <3> QED BY <2>5, <2>6
  <2> QED BY <2>2, <2>7 DEF first, last
<1>6. ASSUME NEW k \in 1 .. n, Size(pack(k)) > MaxTokens
      PROVE  Cardinality(Range(pack(k)) \ (IF k = 1 THEN {} ELSE Range(pack(k - 1)))) = 1
  <2> DEFINE known == IF k = 1 THEN {} ELSE Range(pack(k - 1))
             first == Q[k][1]
             last == Q[k][2]
             new == S[last]
  <2>1. last = Before(Q, k, 0) + 1
    BY <1>2, <1>6 DEF Passages, pack
  <2>2. first \in 1 .. Len(S) /\ last \in 1 .. Len(S) /\ first <= last
    BY <1>4
  <2>3. Range(pack(k)) = {S[p] : p \in first .. last}
    BY <1>5
  <2> HIDE DEF first, last
  <2>4. ASSUME NEW p \in first .. last, p # last PROVE S[p] \in known
    <3>1. p <= Before(Q, k, 0)
      <4>1. Before(Q, k, 0) \in Nat /\ p \in Int /\ p < last /\ last \in Int
        BY <1>1, <1>4, <2>2, <2>4
      <4> QED BY <2>1, <4>1
    <3>2. k # 1
      BY <1>1, <2>2, <3>1 DEF Before
    <3>3. k - 1 \in 1 .. n /\ p <= Q[k - 1][2]
      BY <1>3, <3>1, <3>2 DEF Before
    <3>4. Q[k - 1][1] <= first
      BY <1>2, <3>2 DEF Passages, InTurn, first
    <3>5. Q[k - 1][1] \in Int /\ Q[k - 1][2] \in Int
      BY <1>1, <1>4, <3>3
    <3>6. p \in Q[k - 1][1] .. Q[k - 1][2]
      BY <2>2, <3>3, <3>4, <3>5
    <3>7. S[p] \in Range(pack(k - 1))
      BY <1>5, <3>3, <3>6
    <3> QED BY <3>2, <3>7
  <2>5. new \notin known
    <3> SUFFICES ASSUME new \in known PROVE FALSE
      OBVIOUS
    <3>1. k # 1 /\ new \in Range(pack(k - 1))
      OBVIOUS
    <3>2. k - 1 \in 1 .. n
      BY <1>3, <3>1
    <3>3. PICK p \in Q[k - 1][1] .. Q[k - 1][2] : S[p] = S[last]
      BY <1>5, <3>1, <3>2
    <3>4. Q[k - 1][1] \in 1 .. Len(S) /\ Q[k - 1][2] \in 1 .. Len(S)
      BY <1>4, <3>2
    <3>5. p \in 1 .. Len(S)
      BY <1>1, <3>4
    <3>6. p = last
      BY <1>1, <2>2, <3>3, <3>5
    <3>7. Before(Q, k, 0) = Q[k - 1][2]
      BY <3>1 DEF Before
    <3> QED BY <1>1, <2>1, <3>4, <3>6, <3>7
  <2>6. new \in Range(pack(k))
    <3>1. last \in first .. last
      BY <1>1, <2>2
    <3> QED BY <2>3, <3>1
  <2> DEFINE brought == Range(pack(k)) \ known
  <2>7. brought = {new}
    <3>1. \A x \in Range(pack(k)) : x \notin known => x = new
      BY <2>3, <2>4
    <3> HIDE DEF known, new
    <3> QED BY <2>5, <2>6, <3>1
  <2>8. Cardinality({new}) = 1
    BY FS_Singleton
  <2> HIDE DEF brought
  <2>9. Cardinality(brought) = 1
    BY <2>7, <2>8
  <2> QED BY <2>9 DEF brought, known
<1> QED
  BY <1>3, <1>6 DEF OneSentenceTooMany, pack

\* Every sentence of a book is in a passage of it, after every page, with any
\* sizes of passage and overlap: the passages are runs of the book's sentences
\* that leave no gap, and each goes further than the one before (_sentence_pack,
\* _ranges, _split_range).
THEOREM NothingIsEverLost == Spec => []NothingIsLost
BY ChunksInvAlways, PassagesLoseNothing, PTL

\* A passage is never of two sections that cut the book, nor of two pages unless
\* a sentence goes on, and the names it is cited by are those in effect at each of
\* its sentences (_boundary_starts, _context_at).
THEOREM PassagesAlwaysCitable == Spec => []PassagesAreCitable
BY ChunksInvAlways, PassagesHaveOneContext, PTL

\* A passage over the limit brings one sentence that the passage before does not
\* have: the limit is soft by no more than one sentence (_sentence_pack).
THEOREM OneSentenceTooManyAtMost == Spec => []OneSentenceTooMany
BY ChunksInvAlways, PassagesAreShort, PTL

-----------------------------------------------------------------------------
(* Printed page numbers.                                                   *)

Sums == [total : Int, previous : Int]
Add(sum, value) ==
  IF value < sum.previous THEN [sum EXCEPT !.total = @ - value]
  ELSE [total |-> sum.total + value, previous |-> value]

LEMMA AddIs ==
  ASSUME NEW sum \in Sums, NEW value \in Int
  PROVE  /\ Add(sum, value) \in Sums
         /\ value < sum.previous => Add(sum, value).total = sum.total - value /\ Add(sum, value).previous = sum.previous
         /\ sum.previous <= value => Add(sum, value).total = sum.total + value /\ Add(sum, value).previous = value
BY DEF Sums, Add

\* A numeral is read letter by letter from its end.
LEMMA FromRomanIs ==
  ASSUME NEW numeral \in Seq(Int)
  PROVE  \E f : /\ \A i \in 0 .. Len(numeral) : f[i] \in Sums
                /\ f[0] = [total |-> 0, previous |-> 0]
                /\ \A i \in 1 .. Len(numeral) : f[i] = Add(f[i - 1], numeral[Len(numeral) + 1 - i])
                /\ FromRoman(numeral) = IF Len(numeral) \in 1 .. MaxNumeral /\ f[Len(numeral)].total > 0
                                        THEN f[Len(numeral)].total ELSE NoPage
<1> DEFINE n == Len(numeral)
           seq == Reverse(numeral)
           step == [s \in Sums |-> [v \in Int |-> Add(s, v)]]
           zero == [total |-> 0, previous |-> 0]
<1>1. n \in Nat /\ DOMAIN numeral = 1 .. n /\ \A i \in 1 .. n : numeral[i] \in Int
  BY LenProperties, ElementOfSeq
<1>2. seq = [i \in 1 .. n |-> numeral[(n - i) + 1]]
  BY DEF Reverse
<1>3. \A i \in 1 .. n : (n - i) + 1 \in 1 .. n /\ (n - i) + 1 = n + 1 - i
  BY <1>1
<1>4. seq \in [1 .. n -> Int] /\ \A i \in 1 .. n : seq[i] = numeral[n + 1 - i]
  BY <1>1, <1>2, <1>3
<1> HIDE DEF seq, n
<1>5. seq \in Seq(Int) /\ Len(seq) = n
  BY <1>1, <1>4, FunctionIsSeq
<1>6. step \in Steps(Sums, Int) /\ \A s \in Sums, v \in Int : step[s][v] = Add(s, v)
  <2>1. \A s \in Sums, v \in Int : Add(s, v) \in Sums
    BY AddIs
  <2> QED BY <2>1 DEF Steps
<1>7. zero \in Sums
  BY DEF Sums
<1> HIDE DEF step, zero
<1>8. PICK f : Run(f, step, zero, seq) /\ \A i \in 0 .. n : f[i] \in Sums
  BY <1>5, <1>6, <1>7, LoopOf
<1>9. f = [i \in 0 .. n |-> IF i = 0 THEN zero ELSE Add(f[i - 1], seq[i])]
  <2>1. /\ f = [i \in 0 .. n |-> f[i]] /\ f[0] = zero
        /\ \A i \in 1 .. n : f[i] = step[f[i - 1]][seq[i]]
    BY <1>5, <1>8 DEF Run
  <2>2. ASSUME NEW i \in 1 .. n PROVE f[i] = Add(f[i - 1], seq[i])
    <3>1. i - 1 \in 0 .. n
      BY <1>1
    <3>2. seq[i] \in Int
      BY <1>4
    <3> QED BY <1>6, <1>8, <2>1, <3>1, <3>2
  <2>3. \A i \in 0 .. n : i # 0 => i \in 1 .. n
    BY <1>1
  <2> QED BY <2>1, <2>2, <2>3
<1> DEFINE g == CHOOSE g : g = [i \in 0 .. n |-> IF i = 0 THEN zero ELSE Add(g[i - 1], seq[i])]
<1>10. g = [i \in 0 .. n |-> IF i = 0 THEN zero ELSE Add(g[i - 1], seq[i])]
  BY <1>9
<1>11. Loop(Add, zero, seq) = g[n]
  BY <1>5 DEF Loop
<1>12. FromRoman(numeral) = IF n \in 1 .. MaxNumeral /\ Loop(Add, zero, seq).total > 0
                            THEN Loop(Add, zero, seq).total ELSE NoPage
  BY DEF FromRoman, Loop, Add, zero, seq, n
<1> HIDE DEF g
<1>13. g[0] = zero /\ \A i \in 1 .. n : g[i] = Add(g[i - 1], seq[i])
  BY <1>1, <1>10
<1>14. \A i \in 0 .. n : g[i] \in Sums
  <2>1. \A i \in 1 .. n : g[i - 1] \in Sums => g[i] \in Sums
    BY <1>4, <1>13, AddIs
  <2> QED BY <1>1, <1>7, <1>13, <2>1, LoopStays
<1>15. \A i \in 1 .. n : g[i] = Add(g[i - 1], numeral[n + 1 - i])
  BY <1>4, <1>13
<1>16. FromRoman(numeral) = IF n \in 1 .. MaxNumeral /\ g[n].total > 0 THEN g[n].total ELSE NoPage
  BY <1>11, <1>12
<1> QED
  BY <1>13, <1>14, <1>15, <1>16 DEF n, zero

\* The letters of a digit.
DigitLetters(w, d, one, five, ten) ==
  /\ d \in 0 .. 3 => Len(w) = d /\ \A i \in 1 .. d : w[i] = one
  /\ d = 4 => Len(w) = 2 /\ w[1] = one /\ w[2] = five
  /\ d \in 5 .. 8 => Len(w) = d - 4 /\ w[1] = five /\ \A i \in 2 .. d - 4 : w[i] = one
  /\ d = 9 => Len(w) = 2 /\ w[1] = one /\ w[2] = ten

LEMMA DigitIs ==
  ASSUME NEW d \in 0 .. 9, NEW one \in Nat, NEW five \in Nat, NEW ten \in Nat
  PROVE  /\ Digit(d, one, five, ten) \in Seq(Nat)
         /\ DigitLetters(Digit(d, one, five, ten), d, one, five, ten)
<1> DEFINE w == Digit(d, one, five, ten)
<1>1. CASE d \in 0 .. 3
  <2> DEFINE f == [i \in 1 .. d |-> one]
  <2>1. w = SubSeq(f, 1, d)
    BY <1>1 DEF Digit
  <2>2. d \in Nat /\ \A i \in 1 .. d : f[i] \in Nat /\ f[i] = one
    BY <1>1
  <2> HIDE DEF f, w
  <2>3. w \in Seq(Nat) /\ Len(w) = d /\ \A i \in 1 .. d : w[i] = f[i]
    BY <2>1, <2>2, FirstOf
  <2>4. d # 4 /\ d # 9 /\ d \notin 5 .. 8
    BY <1>1
  <2> QED BY <2>2, <2>3, <2>4 DEF DigitLetters, w
<1>2. CASE d = 4
  <2>1. w = <<one, five>>
    BY <1>2 DEF Digit
  <2>2. w \in Seq(Nat) /\ Len(w) = 2 /\ w[1] = one /\ w[2] = five
    BY <2>1
  <2> QED BY <1>2, <2>2 DEF DigitLetters
<1>3. CASE d \in 5 .. 8
  <2> DEFINE m == d - 4
             f == [i \in 1 .. m |-> IF i = 1 THEN five ELSE one]
  <2>1. w = SubSeq(f, 1, m)
    BY <1>3 DEF Digit
  <2>2. m \in 1 .. 4 /\ m \in Nat
    BY <1>3
  <2> HIDE DEF m
  <2>3. /\ \A i \in 1 .. m : f[i] \in Nat
        /\ f[1] = five /\ \A i \in 2 .. m : f[i] = one /\ i \in 1 .. m
        /\ 1 \in 1 .. m
    BY <2>2
  <2> HIDE DEF f, w
  <2>4. w \in Seq(Nat) /\ Len(w) = m /\ \A i \in 1 .. m : w[i] = f[i]
    BY <2>1, <2>2, <2>3, FirstOf
  <2>5. d # 4 /\ d # 9 /\ d \notin 0 .. 3
    BY <1>3
  <2> QED BY <2>3, <2>4, <2>5 DEF DigitLetters, w, m
<1>4. CASE d = 9
  <2>1. w = <<one, ten>>
    BY <1>4 DEF Digit
  <2>2. w \in Seq(Nat) /\ Len(w) = 2 /\ w[1] = one /\ w[2] = ten
    BY <2>1
  <2> QED BY <1>4, <2>2 DEF DigitLetters
<1>5. d \in 0 .. 3 \/ d = 4 \/ d \in 5 .. 8 \/ d = 9
  OBVIOUS
<1> QED
  BY <1>1, <1>2, <1>3, <1>4, <1>5

\* The letters of w are added from its end, after the k-th step.
Adds(f, k, w) ==
  /\ \A j \in 0 .. Len(w) : f[k + j] \in Sums
  /\ \A j \in 1 .. Len(w) : f[k + j] = Add(f[k + j - 1], w[Len(w) + 1 - j])

\* Up to three equal letters.
LEMMA OnesAdd ==
  ASSUME NEW m \in 0 .. 3, NEW one \in Nat, NEW f, NEW k \in Nat,
         \A j \in 0 .. m : f[k + j] \in Sums,
         \A j \in 1 .. m : f[k + j] = Add(f[k + j - 1], one),
         f[k].previous <= one
  PROVE  f[k + m].total = f[k].total + m * one /\ f[k + m].previous <= one
<1>1. \A i \in Nat : k + 0 = k /\ k + 1 - 1 = k /\ k + 2 - 1 = k + 1 /\ k + 3 - 1 = k + 2
  OBVIOUS
<1>2. f[k] \in Sums
  <2>1. 0 \in 0 .. m
    OBVIOUS
  <2>2. f[k + 0] \in Sums
    BY <2>1
  <2> QED BY <1>1, <2>2
<1>3. f[k].total \in Int /\ f[k].previous \in Int
  BY <1>2 DEF Sums
<1>4. ASSUME m >= 1
      PROVE  f[k + 1] \in Sums /\ f[k + 1].total = f[k].total + one /\ f[k + 1].previous = one
  <2>1. 1 \in 1 .. m
    BY <1>4
  <2>2. f[k + 1] = Add(f[k], one)
    BY <1>1, <2>1
  <2> QED BY <1>2, <2>2, AddIs
<1>5. ASSUME m >= 2
      PROVE  f[k + 2] \in Sums /\ f[k + 2].total = f[k].total + 2 * one /\ f[k + 2].previous = one
  <2>1. 2 \in 1 .. m /\ m >= 1
    BY <1>5
  <2>2. f[k + 2] = Add(f[k + 1], one)
    BY <1>1, <2>1
  <2>3. f[k + 1] \in Sums /\ f[k + 1].total = f[k].total + one /\ f[k + 1].previous <= one
    BY <1>4, <2>1
  <2>4. f[k + 2] \in Sums /\ f[k + 2].total = f[k + 1].total + one /\ f[k + 2].previous = one
    BY <2>2, <2>3, AddIs
  <2> QED BY <1>3, <2>3, <2>4
<1>6. ASSUME m >= 3
      PROVE  f[k + 3].total = f[k].total + 3 * one /\ f[k + 3].previous = one
  <2>1. 3 \in 1 .. m /\ m >= 2
    BY <1>6
  <2>2. f[k + 3] = Add(f[k + 2], one)
    BY <1>1, <2>1
  <2>3. f[k + 2] \in Sums /\ f[k + 2].total = f[k].total + 2 * one /\ f[k + 2].previous <= one
    BY <1>5, <2>1
  <2>4. f[k + 3].total = f[k + 2].total + one /\ f[k + 3].previous = one
    BY <2>2, <2>3, AddIs
  <2> QED BY <1>3, <2>3, <2>4
<1>7. CASE m = 0
  BY <1>1, <1>3, <1>7
<1>8. CASE m = 1
  BY <1>4, <1>8
<1>9. CASE m = 2
  BY <1>5, <1>9
<1>10. CASE m = 3
  BY <1>6, <1>10
<1> QED
  BY <1>7, <1>8, <1>9, <1>10

Scale(one, five, ten) == one \in Nat \ {0} /\ five = 5 * one /\ ten = 10 * one

\* The letters of a digit add up to it, after what is smaller.
LEMMA DigitAdds ==
  ASSUME NEW d \in 0 .. 9, NEW one, NEW five, NEW ten, Scale(one, five, ten),
         NEW w, DigitLetters(w, d, one, five, ten), NEW f, NEW k \in Nat, Adds(f, k, w), f[k].previous <= one
  PROVE  /\ Len(w) \in 0 .. 4
         /\ f[k + Len(w)].total = f[k].total + d * one
         /\ f[k + Len(w)].previous <= ten
<1>1. five \in Int /\ ten \in Int /\ one \in Nat /\ one < five /\ one < ten /\ five < ten
  BY DEF Scale
<1>0. five = 5 * one /\ ten = 10 * one
  BY DEF Scale
<1>2. Len(w) \in 0 .. 4
  <2>1. d \in 0 .. 3 \/ d = 4 \/ d \in 5 .. 8 \/ d = 9
    OBVIOUS
  <2>2. /\ d \in 0 .. 3 => Len(w) = d
        /\ d = 4 \/ d = 9 => Len(w) = 2
        /\ d \in 5 .. 8 => Len(w) = d - 4
    BY DEF DigitLetters
  <2>3. /\ d \in 0 .. 3 => d \in 0 .. 4
        /\ d \in 5 .. 8 => d - 4 \in 0 .. 4
        /\ 2 \in 0 .. 4
    OBVIOUS
  <2> QED BY <2>1, <2>2, <2>3
<1>3. f[k] \in Sums
  <2>1. 0 \in 0 .. Len(w) /\ k + 0 = k
    BY <1>2
  <2>2. f[k + 0] \in Sums
    BY <2>1 DEF Adds
  <2> QED BY <2>1, <2>2
<1>4. f[k].total \in Int /\ f[k].previous \in Int
  BY <1>3 DEF Sums
<1>5. CASE d \in 0 .. 3
  <2>1. Len(w) = d /\ \A i \in 1 .. d : w[i] = one
    BY <1>5 DEF DigitLetters
  <2>2. \A j \in 1 .. d : d + 1 - j \in 1 .. d
    BY <1>5
  <2>3. /\ \A j \in 0 .. d : f[k + j] \in Sums
        /\ \A j \in 1 .. d : f[k + j] = Add(f[k + j - 1], one)
    BY <2>1, <2>2 DEF Adds
  <2>4. f[k + d].total = f[k].total + d * one /\ f[k + d].previous <= one
    BY <1>1, <1>5, <2>3, OnesAdd
  <2>5. f[k + d] \in Sums /\ f[k + d].previous \in Int
    <3>1. d \in 0 .. d
      BY <1>5
    <3> QED BY <2>3, <3>1 DEF Sums
  <2> QED BY <1>1, <1>2, <2>1, <2>4, <2>5
<1>6. ASSUME NEW big \in Int, one < big, Len(w) = 2, w[1] = one, w[2] = big
      PROVE  f[k + 2].total = f[k].total + big - one /\ f[k + 2].previous = big
  <2>1. /\ 1 \in 1 .. Len(w) /\ 2 \in 1 .. Len(w) /\ Len(w) + 1 - 1 = 2 /\ Len(w) + 1 - 2 = 1
        /\ k + 1 - 1 = k /\ k + 2 - 1 = k + 1
    BY <1>6
  <2>2. f[k + 1] = Add(f[k], big) /\ f[k + 2] = Add(f[k + 1], one)
    BY <1>6, <2>1 DEF Adds
  <2>3. f[k].previous <= big
    BY <1>1, <1>4, <1>6
  <2>4. f[k + 1] \in Sums /\ f[k + 1].total = f[k].total + big /\ f[k + 1].previous = big
    <3>1. f[k] \in Sums /\ big \in Int
      BY <1>3, <1>6
    <3>2. /\ Add(f[k], big) \in Sums
          /\ f[k].previous <= big => Add(f[k], big).total = f[k].total + big /\ Add(f[k], big).previous = big
      BY <3>1, AddIs
    <3> QED BY <2>2, <2>3, <3>2
  <2>5. f[k + 2].total = f[k + 1].total - one /\ f[k + 2].previous = f[k + 1].previous
    <3>1. one \in Int /\ one < f[k + 1].previous
      BY <1>1, <1>6, <2>4
    <3> DEFINE sum == f[k + 1]
    <3>2. sum \in Sums /\ one \in Int /\ one < sum.previous
      BY <2>4, <3>1
    <3> HIDE DEF sum
    <3>3. Add(sum, one).total = sum.total - one /\ Add(sum, one).previous = sum.previous
      BY <3>2, AddIs
    <3> QED BY <2>2, <3>3 DEF sum
  <2> QED BY <1>1, <1>4, <1>6, <2>4, <2>5
<1>7. CASE d = 4
  <2>1. Len(w) = 2 /\ w[1] = one /\ w[2] = five
    BY <1>7 DEF DigitLetters
  <2>2. f[k + 2].total = f[k].total + five - one /\ f[k + 2].previous = five
    BY <1>1, <1>6, <2>1
  <2> QED BY <1>0, <1>1, <1>4, <1>7, <2>1, <2>2
<1>8. CASE d = 9
  <2>1. Len(w) = 2 /\ w[1] = one /\ w[2] = ten
    BY <1>8 DEF DigitLetters
  <2>2. f[k + 2].total = f[k].total + ten - one /\ f[k + 2].previous = ten
    BY <1>1, <1>6, <2>1
  <2> QED BY <1>0, <1>1, <1>4, <1>8, <2>1, <2>2
<1>9. CASE d \in 5 .. 8
  <2> DEFINE m == d - 5
  <2>1. /\ Len(w) = m + 1 /\ w[1] = five /\ \A i \in 2 .. m + 1 : w[i] = one
        /\ m \in 0 .. 3 /\ d = m + 5
    BY <1>9 DEF DigitLetters
  <2> HIDE DEF m
  <2>2. \A j \in 1 .. m : (m + 1) + 1 - j \in 2 .. m + 1 /\ j \in 1 .. m + 1
    BY <2>1
  <2>3. \A j \in 0 .. m : j \in 0 .. m + 1
    BY <2>1
  <2>4. /\ \A j \in 0 .. m : f[k + j] \in Sums
        /\ \A j \in 1 .. m : f[k + j] = Add(f[k + j - 1], one)
    BY <2>1, <2>2, <2>3 DEF Adds
  <2>5. f[k + m].total = f[k].total + m * one /\ f[k + m].previous <= one
    BY <1>1, <2>1, <2>4, OnesAdd
  <2>6. f[k + m] \in Sums /\ f[k + m].previous \in Int /\ f[k + m].total \in Int
    <3>1. m \in 0 .. m
      BY <2>1
    <3> QED BY <2>4, <3>1 DEF Sums
  <2>7. f[k + (m + 1)] = Add(f[k + m], five)
    <3>1. m + 1 \in 1 .. m + 1 /\ k + (m + 1) - 1 = k + m /\ (m + 1) + 1 - (m + 1) = 1
      BY <2>1
    <3> QED BY <2>1, <3>1 DEF Adds
  <2>8. f[k + m].previous <= five
    BY <1>1, <2>5, <2>6
  <2>9. f[k + (m + 1)].total = f[k + m].total + five /\ f[k + (m + 1)].previous = five
    <3> DEFINE sum == f[k + m]
    <3>1. sum \in Sums /\ five \in Int /\ sum.previous <= five
      BY <1>1, <2>6, <2>8
    <3> HIDE DEF sum
    <3>2. Add(sum, five).total = sum.total + five /\ Add(sum, five).previous = five
      BY <3>1, AddIs
    <3> QED BY <2>7, <3>2 DEF sum
  <2>10. CASE m = 0
    BY <1>0, <1>1, <1>2, <1>4, <2>1, <2>5, <2>9, <2>10
  <2>11. CASE m = 1
    BY <1>0, <1>1, <1>2, <1>4, <2>1, <2>5, <2>9, <2>11
  <2>12. CASE m = 2
    BY <1>0, <1>1, <1>2, <1>4, <2>1, <2>5, <2>9, <2>12
  <2>13. CASE m = 3
    BY <1>0, <1>1, <1>2, <1>4, <2>1, <2>5, <2>9, <2>13
  <2> QED BY <2>1, <2>10, <2>11, <2>12, <2>13
<1> QED
  BY <1>5, <1>7, <1>8, <1>9

\* A part of a numeral is added when what follows it has been.
LEMMA PartAdds ==
  ASSUME NEW s \in Seq(Nat), NEW w \in Seq(Nat), NEW at \in Nat, NEW k \in Nat, Len(s) = at + Len(w) + k,
         \A i \in 1 .. Len(w) : s[at + i] = w[i],
         NEW f, \A i \in 0 .. Len(s) : f[i] \in Sums,
         \A i \in 1 .. Len(s) : f[i] = Add(f[i - 1], s[Len(s) + 1 - i])
  PROVE  Adds(f, k, w)
<1> DEFINE m == Len(w)
           n == Len(s)
<1>1. m \in Nat /\ n \in Nat /\ n = at + m + k
  BY LenProperties
<1> HIDE DEF m, n
<1>2. ASSUME NEW j \in 0 .. m PROVE f[k + j] \in Sums
  <2>1. k + j \in 0 .. n
    BY <1>1
  <2> QED BY <2>1 DEF n
<1>3. ASSUME NEW j \in 1 .. m PROVE f[k + j] = Add(f[k + j - 1], w[m + 1 - j])
  <2> DEFINE i == m + 1 - j
             l == k + j
  <2>1. i \in 1 .. m /\ l \in 1 .. n /\ n + 1 - l = at + i
    BY <1>1
  <2> HIDE DEF i, l
  <2>2. s[at + i] = w[i]
    BY <2>1 DEF m
  <2>3. f[l] = Add(f[l - 1], s[n + 1 - l])
    BY <2>1 DEF n
  <2>4. f[l] = Add(f[l - 1], w[i])
    BY <2>1, <2>2, <2>3
  <2> QED BY <2>4 DEF i, l
<1> QED
  BY <1>2, <1>3 DEF Adds, m

\* How a numeral is read.
Reading(f, s) ==
  /\ \A i \in 0 .. Len(s) : f[i] \in Sums
  /\ \A i \in 1 .. Len(s) : f[i] = Add(f[i - 1], s[Len(s) + 1 - i])

\* The part w of s, with at letters before it and k behind.
PartOf(w, s, at, k) == Len(s) = at + Len(w) + k /\ \A i \in 1 .. Len(w) : s[at + i] = w[i]

LEMMA NextDigit ==
  ASSUME NEW s \in Seq(Nat), NEW f, Reading(f, s), NEW w \in Seq(Nat), NEW at \in Nat, NEW k \in Nat,
         PartOf(w, s, at, k), NEW d \in 0 .. 9, NEW one, NEW five, NEW ten, Scale(one, five, ten),
         DigitLetters(w, d, one, five, ten), f[k].previous <= one
  PROVE  /\ f[k + Len(w)].total = f[k].total + d * one
         /\ f[k + Len(w)].previous <= ten
<1>1. Adds(f, k, w)
  BY PartAdds DEF Reading, PartOf
<1>2. /\ Len(w) \in 0 .. 4
      /\ f[k + Len(w)].total = f[k].total + d * one
      /\ f[k + Len(w)].previous <= ten
  BY <1>1, DigitAdds
<1> QED
  BY <1>2

\* The three digits of a numeral, one after the other.
LEMMA NumeralParts ==
  ASSUME NEW h \in Seq(Nat), NEW t \in Seq(Nat), NEW u \in Seq(Nat)
  PROVE  /\ (h \o t) \o u \in Seq(Nat)
         /\ PartOf(h, (h \o t) \o u, 0, Len(t) + Len(u))
         /\ PartOf(t, (h \o t) \o u, Len(h), Len(u))
         /\ PartOf(u, (h \o t) \o u, Len(h) + Len(t), 0)
<1> DEFINE ht == h \o t
           s == ht \o u
           a == Len(h)
           b == Len(t)
           c == Len(u)
<1>1. /\ a \in Nat /\ b \in Nat /\ ht \in Seq(Nat) /\ Len(ht) = a + b
      /\ \A p \in 1 .. a : p \in 1 .. Len(ht) /\ ht[p] = h[p]
      /\ \A p \in 1 .. b : a + p \in 1 .. Len(ht) /\ ht[a + p] = t[p]
  BY ConcatHas
<1> HIDE DEF ht
<1>2. /\ c \in Nat /\ s \in Seq(Nat) /\ Len(s) = Len(ht) + c
      /\ \A p \in 1 .. Len(ht) : s[p] = ht[p]
      /\ \A p \in 1 .. c : s[Len(ht) + p] = u[p]
  <2>1. ht \in Seq(Nat) /\ u \in Seq(Nat)
    BY <1>1
  <2>2. /\ ht \o u \in Seq(Nat) /\ Len(u) \in Nat /\ Len(ht \o u) = Len(ht) + Len(u)
        /\ \A p \in 1 .. Len(ht) : (ht \o u)[p] = ht[p]
        /\ \A p \in 1 .. Len(u) : (ht \o u)[Len(ht) + p] = u[p]
    BY <2>1, ConcatHas
  <2> QED BY <2>2
<1> HIDE DEF s, a, b, c
<1>3. Len(s) = a + b + c
  BY <1>1, <1>2
<1>4. /\ \A p \in 1 .. a : s[0 + p] = h[p]
      /\ \A p \in 1 .. b : s[a + p] = t[p]
      /\ \A p \in 1 .. c : s[(a + b) + p] = u[p]
  <2>1. \A p \in 1 .. a : 0 + p = p
    BY <1>1
  <2>2. \A p \in 1 .. b : a + p \in 1 .. Len(ht)
    BY <1>1
  <2> QED BY <1>1, <1>2, <2>1, <2>2
<1>5. Len(s) = 0 + a + (b + c) /\ Len(s) = a + b + c /\ Len(s) = (a + b) + c + 0
  BY <1>1, <1>2, <1>3
<1>6. PartOf(h, s, 0, b + c)
  BY <1>4, <1>5 DEF PartOf, a
<1>7. PartOf(t, s, a, c)
  BY <1>4, <1>5 DEF PartOf, b
<1>8. PartOf(u, s, a + b, 0)
  BY <1>4, <1>5 DEF PartOf, c
<1> QED
  BY <1>2, <1>6, <1>7, <1>8 DEF s, ht, a, b, c

\* A numeral that is not too long is read as the number it was written for.
LEMMA NumeralIsRead ==
  ASSUME NEW n \in Printable
  PROVE  /\ Numeral(n) \in Seq(Nat)
         /\ FromRoman(Numeral(n)) = IF Len(Numeral(n)) <= MaxNumeral THEN n ELSE NoPage
<1> DEFINE x == n \div 100
           y == (n \div 10) % 10
           z == n % 10
           h == Digit(x, 100, 500, 1000)
           t == Digit(y, 10, 50, 100)
           u == Digit(z, 1, 5, 10)
           s == (h \o t) \o u
           b == Len(t)
           c == Len(u)
           N == Len(s)
<1>0. n = 100 * x + 10 * y + z
  BY DEF Printable
<1>1. x \in 0 .. 9 /\ y \in 0 .. 9 /\ z \in 0 .. 9
  BY DEF Printable
<1>2. Numeral(n) = s
  BY DEF Numeral
<1> HIDE DEF x, y, z
<1>3. h \in Seq(Nat) /\ DigitLetters(h, x, 100, 500, 1000)
  <2>1. ASSUME NEW one, NEW five, NEW ten, one \in Nat, five \in Nat, ten \in Nat
        PROVE  Digit(x, one, five, ten) \in Seq(Nat) /\ DigitLetters(Digit(x, one, five, ten), x, one, five, ten)
    BY <1>1, <2>1, DigitIs
  <2> QED BY <2>1
<1>4. t \in Seq(Nat) /\ DigitLetters(t, y, 10, 50, 100)
  BY <1>1, DigitIs
<1>5. u \in Seq(Nat) /\ DigitLetters(u, z, 1, 5, 10)
  BY <1>1, DigitIs
<1> HIDE DEF h, t, u
<1>6. Len(h) \in Nat /\ b \in Nat /\ c \in Nat
  BY <1>3, <1>4, <1>5, LenProperties
<1>7. /\ s \in Seq(Nat) /\ PartOf(h, s, 0, b + c) /\ PartOf(t, s, Len(h), c) /\ PartOf(u, s, Len(h) + b, 0)
  BY <1>3, <1>4, <1>5, NumeralParts
<1> HIDE DEF s
<1>8. s \in Seq(Int) /\ N \in Nat
  BY <1>7, SeqMonotonic, LenProperties
<1>9. PICK f : /\ \A i \in 0 .. N : f[i] \in Sums
               /\ f[0] = [total |-> 0, previous |-> 0]
               /\ \A i \in 1 .. N : f[i] = Add(f[i - 1], s[N + 1 - i])
               /\ FromRoman(s) = IF N \in 1 .. MaxNumeral /\ f[N].total > 0 THEN f[N].total ELSE NoPage
  BY <1>8, FromRomanIs
<1>10. Reading(f, s)
  BY <1>9 DEF Reading
<1>11. f[c].total = z /\ f[c].previous <= 10
  <2>1. f[0].previous <= 1 /\ f[0].total = 0
    BY <1>9
  <2> DEFINE k == 0
             one == 1
             five == 5
             ten == 10
             at == Len(h) + b
  <2>2. at \in Nat /\ k \in Nat /\ Scale(one, five, ten)
    BY <1>6 DEF Scale
  <2>3. PartOf(u, s, at, k) /\ DigitLetters(u, z, one, five, ten) /\ f[k].previous <= one
    BY <1>5, <1>7, <2>1
  <2> HIDE DEF k, one, five, ten, at
  <2>4. f[k + Len(u)].total = f[k].total + z * one /\ f[k + Len(u)].previous <= ten
    BY <1>1, <1>5, <1>7, <1>10, <2>2, <2>3, NextDigit
  <2>5. k + Len(u) = c /\ z * one = z /\ k = 0 /\ ten = 10
    BY <1>1, <1>6 DEF k, one, ten
  <2> QED BY <1>1, <2>1, <2>4, <2>5
<1>12. f[b + c].total = z + 10 * y /\ f[b + c].previous <= 100
  <2> DEFINE one == 10
             five == 50
             ten == 100
             at == Len(h)
  <2>2. at \in Nat /\ Scale(one, five, ten)
    BY <1>6 DEF Scale
  <2>3. PartOf(t, s, at, c) /\ DigitLetters(t, y, one, five, ten) /\ f[c].previous <= one
    BY <1>4, <1>7, <1>11
  <2> HIDE DEF one, five, ten, at, c
  <2>4. f[c + Len(t)].total = f[c].total + y * one /\ f[c + Len(t)].previous <= ten
    BY <1>1, <1>4, <1>6, <1>7, <1>10, <2>2, <2>3, NextDigit
  <2>5. c + Len(t) = b + c /\ y * one = 10 * y /\ ten = 100
    BY <1>1, <1>6 DEF one, ten
  <2> QED BY <1>1, <1>11, <2>4, <2>5
<1>13. f[N].total = n
  <2> DEFINE one == 100
             five == 500
             ten == 1000
             at == 0
             k == b + c
  <2>2. at \in Nat /\ k \in Nat /\ Scale(one, five, ten)
    BY <1>6 DEF Scale
  <2>3. PartOf(h, s, at, k) /\ DigitLetters(h, x, one, five, ten) /\ f[k].previous <= one /\ f[k].total = z + 10 * y
    BY <1>3, <1>7, <1>12
  <2>5. x * one = 100 * x /\ k + Len(h) = 0 + Len(h) + k
    BY <1>1, <1>6
  <2>6. N = 0 + Len(h) + k
    BY <1>7 DEF PartOf
  <2> HIDE DEF one, five, ten, at, k, N
  <2>4. f[k + Len(h)].total = f[k].total + x * one /\ f[k + Len(h)].previous <= ten
    BY <1>1, <1>3, <1>7, <1>10, <2>2, <2>3, NextDigit
  <2>7. N = k + Len(h)
    BY <2>5, <2>6
  <2>8. f[N].total = (z + 10 * y) + 100 * x
    BY <2>3, <2>4, <2>5, <2>7
  <2> QED BY <1>0, <1>1, <2>8
<1> HIDE DEF N
<1>14. N # 0
  <2>1. n \in Nat /\ n > 0
    BY DEF Printable
  <2> QED BY <1>9, <1>13, <2>1
<1>15. FromRoman(s) = IF N <= MaxNumeral THEN n ELSE NoPage
  BY <1>8, <1>9, <1>13, <1>14 DEF MaxNumeral, Printable
<1> QED
  BY <1>2, <1>7, <1>15 DEF N

\* The order in which the number of a page is looked for.
Later(a, b) ==
  \/ a.y1 < b.y1
  \/ a.y1 = b.y1 /\ a.x0 < b.x0
  \/ a.y1 = b.y1 /\ a.x0 = b.x0 /\ a.index < b.index
LaterIn(S) == [a \in S |-> {b \in S : Later(b, a)}]

\* The last of the footers stands lowest.
LEMMA LastIsLowest ==
  ASSUME NEW page \in Leaves \union Plates
  PROVE  LET footers == Sorted(Footers(page), Later) IN
         /\ footers \in Seq(Footers(page))
         /\ footers # <<>> => footers[Len(footers)] \in Lowest(page)
         /\ Lowest(page) # {} => footers # <<>>
<1> DEFINE S == Footers(page)
           seq == Sorted(S, Later)
<1>1. S \in SUBSET Blocks(page) /\ IsFiniteSet(S)
  <2>1. S \in SUBSET Blocks(page)
    BY DEF Footers
  <2> HIDE DEF S
  <2> QED BY <2>1, PageBlocks, FS_Subset
<1>2. \A b \in S : b.x0 \in Int /\ b.y1 \in Int /\ b.index \in Nat
  BY <1>1, PageBlocks
<1>3. \A a, b \in S : a.index = b.index => a = b
  BY <1>1, PageBlocks
<1>4. Lowest(page) = {b \in S : \A c \in S : c.y1 < b.y1 \/ (c.y1 = b.y1 /\ c.x0 <= b.x0)}
  BY DEF Lowest
<1> HIDE DEF S
<1>5. IsOrder(LaterIn(S), S)
  <2>1. LaterIn(S) \in [S -> SUBSET S] /\ \A a, b \in S : b \in LaterIn(S)[a] <=> Later(b, a)
    BY DEF LaterIn
  <2>2. \A a \in S : ~Later(a, a)
    BY <1>2 DEF Later
  <2>3. \A a, b \in S : a = b \/ Later(a, b) \/ Later(b, a)
    BY <1>2, <1>3 DEF Later
  <2>4. ASSUME NEW a \in S, NEW b \in S, NEW c \in S, Later(c, a), Later(a, b) PROVE Later(c, b)
    BY <1>2, <2>4 DEF Later
  <2>5. ASSUME NEW a \in S, NEW b \in S, a \in LaterIn(S)[b] PROVE LaterIn(S)[a] \subseteq LaterIn(S)[b]
    <3> SUFFICES ASSUME NEW c \in LaterIn(S)[a] PROVE c \in LaterIn(S)[b]
      OBVIOUS
    <3>1. c \in S
      BY <2>1
    <3> QED BY <2>1, <2>4, <2>5, <3>1
  <2> QED BY <2>1, <2>2, <2>3, <2>5 DEF IsOrder
<1>6. seq = SortedBy(S, LaterIn(S))
  BY DEF Sorted, SortedBy, LaterIn
<1>7. InOrder(seq, S, LaterIn(S))
  BY <1>1, <1>5, <1>6, SortedByIs
<1> HIDE DEF seq
<1>8. /\ seq \in Seq(S) /\ Len(seq) \in Nat
      /\ \A a \in S : \E p \in 1 .. Len(seq) : seq[p] = a
      /\ \A p, q \in 1 .. Len(seq) : p < q <=> seq[p] \in LaterIn(S)[seq[q]]
  BY <1>7, LenProperties DEF InOrder
<1>9. ASSUME seq # <<>> PROVE seq[Len(seq)] \in Lowest(page)
  <2> DEFINE n == Len(seq)
             last == seq[n]
  <2>1. n \in 1 .. n
    BY <1>8, <1>9, EmptySeq
  <2>2. last \in S
    BY <1>8, <2>1, ElementOfSeq
  <2>3. ASSUME NEW c \in S PROVE c.y1 < last.y1 \/ (c.y1 = last.y1 /\ c.x0 <= last.x0)
    <3>1. PICK p \in 1 .. n : seq[p] = c
      BY <1>8
    <3>2. CASE p = n
      BY <1>2, <2>2, <3>1, <3>2
    <3>3. CASE p # n
      <4>1. p < n
        BY <1>8, <3>1, <3>3
      <4>2. c \in LaterIn(S)[last]
        BY <1>8, <2>1, <3>1, <4>1
      <4>3. Later(c, last)
        BY <2>2, <4>2 DEF LaterIn
      <4> QED BY <1>2, <2>2, <4>3 DEF Later
    <3> QED BY <3>2, <3>3
  <2> QED BY <1>4, <2>2, <2>3
<1>10. Lowest(page) # {} => seq # <<>>
  <2> SUFFICES ASSUME NEW b \in S PROVE seq # <<>>
    BY <1>4
  <2>1. PICK p \in 1 .. Len(seq) : seq[p] = b
    BY <1>8
  <2> QED BY <1>8, <2>1, EmptySeq
<1> QED
  BY <1>8, <1>9, <1>10 DEF seq, S

PageNumbers == [system : Range(Systems), value : Nat, letters : Seq(Nat)]
ValueOf(token) == IF token.system = "roman" THEN FromRoman(token.letters) ELSE token.value
OfSystem(tokens, k) == {i \in DOMAIN tokens : tokens[i].system = Systems[k] /\ ValueOf(tokens[i]) # NoPage}

\* The number of a page is the first one of the first system that has any.
LEMMA PrintedPageIs ==
  ASSUME NEW page \in Leaves \union Plates
  PROVE  LET footers == Sorted(Footers(page), Later)
             tokens == IF footers = <<>> THEN <<>> ELSE footers[Len(footers)].numbers
         IN  /\ PrintedPage(page).system = "roman" =>
                  \E i \in OfSystem(tokens, 3) : PrintedPage(page).value = ValueOf(tokens[i])
             /\ PrintedPage(page).system = "none" => OfSystem(tokens, 3) = {}
<1> DEFINE footers == Sorted(Footers(page), Later)
           tokens == IF footers = <<>> THEN <<>> ELSE footers[Len(footers)].numbers
           of(k) == OfSystem(tokens, k)
           found == {k \in DOMAIN Systems : of(k) # {}}
           first == Min(found)
<1>1. tokens \in Seq(PageNumbers)
  <2>1. CASE footers = <<>>
    BY <2>1, EmptySeq
  <2>2. CASE footers # <<>>
    <3>1. footers \in Seq(Footers(page)) /\ Len(footers) \in Nat /\ Len(footers) # 0
      BY <2>2, LastIsLowest, LenProperties, EmptySeq
    <3>2. footers[Len(footers)] \in Footers(page)
      BY <3>1, ElementOfSeq
    <3>3. footers[Len(footers)] \in Blocks(page)
      BY <3>2 DEF Footers
    <3>4. footers[Len(footers)].numbers \in Seq(PageNumbers)
      BY <3>3, PageBlocks DEF PageNumbers
    <3> QED BY <2>2, <3>4
  <2> QED BY <2>1, <2>2
<1>2. PrintedPage(page) = IF found = {} THEN [system |-> "none", value |-> NoPage]
                          ELSE [system |-> Systems[first], value |-> ValueOf(tokens[Min(of(first))])]
  BY DEF PrintedPage, Later, ValueOf, OfSystem
<1> HIDE DEF footers, tokens
<1>3. DOMAIN Systems = 1 .. 3 /\ Systems[1] = "arabic" /\ Systems[2] = "latin" /\ Systems[3] = "roman"
  BY DEF Systems
<1>4. ASSUME NEW k PROVE of(k) \in SUBSET Int /\ IsFiniteSet(of(k))
  <2>1. DOMAIN tokens = 1 .. Len(tokens) /\ Len(tokens) \in Nat
    BY <1>1, LenProperties
  <2>2. of(k) \in SUBSET (1 .. Len(tokens)) /\ IsFiniteSet(1 .. Len(tokens))
    BY <2>1, FS_Interval DEF OfSystem
  <2> QED BY <2>2, FS_Subset
<1>5. found \in SUBSET Int /\ IsFiniteSet(found)
  <2>1. found \in SUBSET (1 .. 3)
    BY <1>3
  <2>2. 1 \in Int /\ 3 \in Int /\ 1 .. 3 \in SUBSET Int
    OBVIOUS
  <2>3. IsFiniteSet(1 .. 3)
    BY <2>2, FS_Interval
  <2> HIDE DEF found
  <2> QED BY <2>1, <2>2, <2>3, FS_Subset
<1>6. ASSUME PrintedPage(page).system = "roman"
      PROVE  \E i \in of(3) : PrintedPage(page).value = ValueOf(tokens[i])
  <2>1. found # {}
    BY <1>2, <1>6
  <2>2. first \in found
    <3> HIDE DEF found
    <3> QED BY <1>5, <2>1, MinMaxAre
  <2>3. first \in 1 .. 3 /\ of(first) # {}
    BY <1>3, <2>2
  <2>4. Systems[first] = "roman" /\ PrintedPage(page).value = ValueOf(tokens[Min(of(first))])
    BY <1>2, <1>6, <2>1
  <2> HIDE DEF first, found
  <2>5. first = 3
    BY <1>3, <2>3, <2>4
  <2> HIDE DEF of
  <2>6. Min(of(3)) \in of(3)
    BY <1>4, <2>3, <2>5, MinMaxAre
  <2> QED BY <2>4, <2>5, <2>6
<1>7. ASSUME PrintedPage(page).system = "none" PROVE of(3) = {}
  <2>1. found = {}
    <3> SUFFICES ASSUME found # {} PROVE FALSE
      OBVIOUS
    <3>1. first \in found
      <4> HIDE DEF found
      <4> QED BY <1>5, MinMaxAre
    <3>2. first \in 1 .. 3 /\ Systems[first] = "none"
      BY <1>2, <1>3, <1>7, <3>1
    <3> HIDE DEF first
    <3> QED BY <1>3, <3>2
  <2> QED BY <1>3, <2>1
<1> QED
  BY <1>6, <1>7 DEF tokens, footers

LEMMA PrintedIsRead ==
  ASSUME NEW page \in Leaves \union Plates, WellWritten(page)
  PROVE  /\ PrintedPage(page).system = "roman" =>
              \E b \in Lowest(page) : Numeral(PrintedPage(page).value) \in Numerals(b)
         /\ PrintedPage(page).system = "none" /\ Lowest(page) # {} =>
              \E b \in Lowest(page) : \A letters \in Numerals(b) : Len(letters) > MaxNumeral
<1> DEFINE footers == Sorted(Footers(page), Later)
           tokens == IF footers = <<>> THEN <<>> ELSE footers[Len(footers)].numbers
           last == footers[Len(footers)]
<1>1. /\ PrintedPage(page).system = "roman" =>
           \E i \in OfSystem(tokens, 3) : PrintedPage(page).value = ValueOf(tokens[i])
      /\ PrintedPage(page).system = "none" => OfSystem(tokens, 3) = {}
  BY PrintedPageIs
<1>2. /\ footers # <<>> => last \in Lowest(page)
      /\ Lowest(page) # {} => footers # <<>>
  BY LastIsLowest
<1>3. footers # <<>> => tokens = last.numbers
  OBVIOUS
<1>4. footers = <<>> => OfSystem(tokens, 3) = {}
  BY DEF OfSystem
<1>5. Lowest(page) \in SUBSET Blocks(page)
  BY DEF Lowest, Footers
<1> HIDE DEF footers, tokens, last
<1>6. Systems[3] = "roman"
  BY DEF Systems
<1>7. ASSUME NEW letters \in Numerals(last), footers # <<>>
      PROVE  \E n \in Printable : letters = Numeral(n)
  <2>1. last \in Blocks(page)
    BY <1>2, <1>5, <1>7
  <2>2. \A b \in Blocks(page) : \A l \in Numerals(b) : \E n \in Printable : l = Numeral(n)
    BY DEF WellWritten
  <2> QED BY <1>7, <2>1, <2>2
<1>8. ASSUME PrintedPage(page).system = "roman"
      PROVE  \E b \in Lowest(page) : Numeral(PrintedPage(page).value) \in Numerals(b)
  <2>1. PICK i \in OfSystem(tokens, 3) : PrintedPage(page).value = ValueOf(tokens[i])
    BY <1>1, <1>8
  <2>2. footers # <<>>
    BY <1>4, <2>1
  <2> DEFINE letters == tokens[i].letters
  <2>3. i \in DOMAIN tokens /\ tokens[i].system = "roman" /\ ValueOf(tokens[i]) = FromRoman(letters) /\ FromRoman(letters) # NoPage
    BY <1>6, <2>1 DEF OfSystem, ValueOf
  <2>4. letters \in Numerals(last)
    BY <1>3, <2>2, <2>3 DEF Numerals
  <2> HIDE DEF letters
  <2>5. PICK n \in Printable : letters = Numeral(n)
    BY <1>7, <2>2, <2>4
  <2>6. FromRoman(Numeral(n)) = IF Len(Numeral(n)) <= MaxNumeral THEN n ELSE NoPage
    BY NumeralIsRead
  <2>7. PrintedPage(page).value = n
    BY <2>1, <2>3, <2>5, <2>6
  <2> QED BY <1>2, <2>2, <2>4, <2>5, <2>7
<1>9. ASSUME PrintedPage(page).system = "none", Lowest(page) # {}
      PROVE  \E b \in Lowest(page) : \A letters \in Numerals(b) : Len(letters) > MaxNumeral
  <2>1. footers # <<>> /\ last \in Lowest(page) /\ OfSystem(tokens, 3) = {} /\ tokens = last.numbers
    BY <1>1, <1>2, <1>3, <1>9
  <2>2. ASSUME NEW letters \in Numerals(last) PROVE Len(letters) > MaxNumeral
    <3>1. PICK i \in DOMAIN tokens : tokens[i].system = "roman" /\ letters = tokens[i].letters
      BY <2>1 DEF Numerals
    <3>2. FromRoman(letters) = NoPage
      BY <1>6, <2>1, <3>1 DEF OfSystem, ValueOf
    <3>3. PICK n \in Printable : letters = Numeral(n)
      BY <1>7, <2>1
    <3>4. /\ Numeral(n) \in Seq(Nat)
          /\ FromRoman(Numeral(n)) = IF Len(Numeral(n)) <= MaxNumeral THEN n ELSE NoPage
      BY NumeralIsRead
    <3>5. n # NoPage
      BY DEF NoPage, Printable
    <3>6. Len(letters) \in Nat /\ ~(Len(letters) <= MaxNumeral)
      BY <3>2, <3>3, <3>4, <3>5, LenProperties
    <3> QED BY <3>6 DEF MaxNumeral
  <2> QED BY <2>1, <2>2
<1> QED
  BY <1>8, <1>9

\* The printed numbers are those of the pages.
PrintedInv ==
  /\ pages \in Seq(Leaves \union Plates) /\ printed \in Seq({PrintedPage(page) : page \in Leaves \union Plates})
  /\ Len(printed) = Len(pages)
  /\ \A p \in 1 .. Len(pages) : printed[p] = PrintedPage(pages[p])

LEMMA StepPrintedInv == PrintedInv /\ [Next]_vars => PrintedInv'
<1> SUFFICES ASSUME PrintedInv, [Next]_vars PROVE PrintedInv'
  OBVIOUS
<1>1. CASE Next
  <2>1. PICK page \in Following : ReadPage(page)
    BY <1>1 DEF Next
  <2>2. page \in Leaves \union Plates
    BY FollowingPages
  <2>3. pages' = Append(pages, page) /\ printed' = Append(printed, PrintedPage(page))
    BY <2>1 DEF ReadPage
  <2> DEFINE P == {PrintedPage(q) : q \in Leaves \union Plates}
             n == Len(pages)
  <2>4. n \in Nat /\ Len(printed) = n /\ printed \in Seq(P) /\ PrintedPage(page) \in P
    BY <2>2, LenProperties DEF PrintedInv
  <2>5. /\ pages' \in Seq(Leaves \union Plates) /\ Len(pages') = n + 1 /\ pages'[n + 1] = page
        /\ \A p \in 1 .. n : pages'[p] = pages[p]
    BY <2>2, <2>3, AppendProperties DEF PrintedInv
  <2> HIDE DEF P
  <2>6. /\ printed' \in Seq(P) /\ Len(printed') = n + 1 /\ printed'[n + 1] = PrintedPage(page)
        /\ \A p \in 1 .. n : printed'[p] = printed[p]
    BY <2>3, <2>4, AppendProperties
  <2> HIDE DEF n
  <2>7. ASSUME NEW p \in 1 .. n + 1 PROVE printed'[p] = PrintedPage(pages'[p])
    <3>1. CASE p = n + 1
      BY <2>5, <2>6, <3>1
    <3>2. CASE p # n + 1
      <4>1. p \in 1 .. n
        BY <2>4, <3>2
      <4>2. printed[p] = PrintedPage(pages[p])
        BY <4>1 DEF PrintedInv, n
      <4> QED BY <2>5, <2>6, <4>1, <4>2
    <3> QED BY <3>1, <3>2
  <2> QED BY <2>5, <2>6, <2>7 DEF PrintedInv, P
<1>2. CASE UNCHANGED vars
  BY <1>2 DEF vars, PrintedInv
<1> QED
  BY <1>1, <1>2

\* The Roman number of a page is the one that stands lowest on it, whatever
\* pages a book is made of, if its numerals are written as one writes them: the
\* sum that is taken from their end, with the smaller letters taken off, is the
\* number below a thousand they were written for, and only those with too many
\* letters have none (_roman_to_int, _parse_footer_number).
THEOREM NumeralsAreAlwaysRead ==
  ASSUME \A page \in Leaves \union Plates : WellWritten(page)
  PROVE  Spec => []NumeralsAreRead
<1>1. Init => PrintedInv
  <2> SUFFICES ASSUME Init PROVE PrintedInv
    OBVIOUS
  <2>1. pages = <<>> /\ printed = <<>>
    BY DEF Init
  <2> QED BY <2>1, EmptySeq DEF PrintedInv
<1>2. PrintedInv /\ [Next]_vars => PrintedInv'
  BY StepPrintedInv
<1>3. PrintedInv => NumeralsAreRead
  <2> SUFFICES ASSUME PrintedInv, NEW p \in DOMAIN pages
               PROVE  /\ printed[p].system = "roman" => \E b \in Lowest(pages[p]) : Numeral(printed[p].value) \in Numerals(b)
                      /\ printed[p].system = "none" /\ Lowest(pages[p]) # {} =>
                           \E b \in Lowest(pages[p]) : \A letters \in Numerals(b) : Len(letters) > MaxNumeral
    BY DEF NumeralsAreRead
  <2> DEFINE page == pages[p]
  <2>1. p \in 1 .. Len(pages)
    BY LenProperties DEF PrintedInv
  <2>2. page \in Leaves \union Plates /\ printed[p] = PrintedPage(page)
    BY <2>1, ElementOfSeq DEF PrintedInv
  <2> HIDE DEF page
  <2>3. /\ PrintedPage(page).system = "roman" =>
              \E b \in Lowest(page) : Numeral(PrintedPage(page).value) \in Numerals(b)
        /\ PrintedPage(page).system = "none" /\ Lowest(page) # {} =>
              \E b \in Lowest(page) : \A letters \in Numerals(b) : Len(letters) > MaxNumeral
    BY <2>2, PrintedIsRead
  <2> QED BY <2>2, <2>3 DEF page
<1> QED
  BY <1>1, <1>2, <1>3, PTL DEF Spec

=============================================================================
