--------------------------- MODULE AnswerSynthesisProofs ---------------------------
(***************************************************************************)
(* What an answer without a model promises, proved for any passages, any   *)
(* number of them, and any floor below the middle level.                   *)
(*                                                                         *)
(* An answer is a function of the evidence and the question; what makes it *)
(* backed is that the evidence descends, so that the best score is that of *)
(* the first passage.                                                      *)
(***************************************************************************)
EXTENDS AnswerSynthesis, FiniteSetTheorems, SequenceTheorems, WellFoundedInduction, TLAPS

-----------------------------------------------------------------------------
(* Least and greatest elements.                                            *)

\* A set of numbers has a least one.
LEMMA LeastNumber ==
  ASSUME NEW S \in SUBSET Nat, S # {}
  PROVE  \E m \in S : \A n \in S : m <= n
<1> DEFINE R == OpToRel(<, Nat)
<1>1. \A x, y \in Nat : <<x, y>> \in R <=> x < y
  BY DEF OpToRel
<1>2. IsWellFoundedOn(R, Nat)
  BY NatLessThanWellFounded
<1> HIDE DEF R
<1>3. PICK m \in S : \A n \in S : ~(<<n, m>> \in R)
  BY <1>2, WFMin
<1>4. \A n \in S : ~(n < m)
  BY <1>1, <1>3
<1> QED
  BY <1>4

LEMMA MinIs ==
  ASSUME NEW S \in SUBSET Nat, S # {}
  PROVE  Min(S) \in S /\ \A n \in S : Min(S) <= n
<1>1. \E m \in S : \A n \in S : m <= n
  BY LeastNumber
<1> QED
  BY <1>1 DEF Min

\* Min and Max, where they are known.
LEMMA MinMaxOf ==
  ASSUME NEW S \in SUBSET Nat, NEW m \in S
  PROVE  /\ (\A n \in S : m <= n) => Min(S) = m
         /\ (\A n \in S : m >= n) => Max(S) = m
<1>1. ASSUME \A n \in S : m <= n PROVE Min(S) = m
  <2>1. Min(S) \in S /\ \A n \in S : Min(S) <= n
    BY <1>1 DEF Min
  <2>2. Min(S) <= m /\ m <= Min(S) /\ Min(S) \in Nat /\ m \in Nat
    BY <1>1, <2>1
  <2> QED
    BY <2>2
<1>2. ASSUME \A n \in S : m >= n PROVE Max(S) = m
  <2>1. Max(S) \in S /\ \A n \in S : Max(S) >= n
    BY <1>2 DEF Max
  <2>2. Max(S) >= m /\ m >= Max(S) /\ Max(S) \in Nat /\ m \in Nat
    BY <1>2, <2>1
  <2> QED
    BY <2>2
<1> QED
  BY <1>1, <1>2

-----------------------------------------------------------------------------
(* Facts.                                                                  *)

\* What a fact says of the passages it was looked for in.
Fits(fact, type, n) ==
  /\ fact \in Facts /\ fact.type = type
  /\ fact.from \in 1 .. n /\ fact.parts \in SUBSET (1 .. n)
  /\ type # "explanation" =>
       /\ fact.parts \in SUBSET {fact.from}
       /\ fact.strength >= 80 => fact.parts # {}
  /\ type = "explanation" => fact.parts = (1 .. n) \intersect {1, 2}

LEMMA StatedFits ==
  ASSUME NEW chunks \in Seq(Passages), Len(chunks) >= 1, NEW type \in FactTypes
  PROVE  Fits(Stated(chunks, type), type, Len(chunks))
<1> DEFINE stating == {i \in DOMAIN chunks : type \in chunks[i].facts}
<1>1. Len(chunks) \in Nat /\ DOMAIN chunks = 1 .. Len(chunks)
  BY LenProperties
<1>2. type \in QueryTypes /\ type # "explanation"
  BY DEF FactTypes, QueryTypes
<1>3. CASE stating = {}
  <2>1. Stated(chunks, type) = [type |-> type, from |-> 1, strength |-> 40, parts |-> {}]
    BY <1>3 DEF Stated, NotFound
  <2> QED
    BY <1>1, <1>2, <2>1 DEF Fits, Facts
<1>4. CASE stating # {}
  <2>1. Min(stating) \in stating
    <3>1. stating \in SUBSET Nat
      BY <1>1
    <3> HIDE DEF stating
    <3> QED
      BY <1>4, <3>1, MinIs
  <2>2. Min(stating) \in 1 .. Len(chunks)
    BY <1>1, <2>1
  <2>3. Stated(chunks, type) = [type |-> type, from |-> Min(stating), strength |-> 100, parts |-> {Min(stating)}]
    BY <1>4 DEF Stated
  <2> HIDE DEF stating
  <2> QED
    BY <1>1, <1>2, <2>2, <2>3 DEF Fits, Facts
<1> QED
  BY <1>3, <1>4

LEMMA FactFits ==
  ASSUME NEW chunks \in Seq(Passages), Len(chunks) >= 1, NEW type \in QueryTypes
  PROVE  Fits(ExtractFact(chunks, type), type, Len(chunks))
<1>1. Len(chunks) \in Nat /\ DOMAIN chunks = 1 .. Len(chunks)
  BY LenProperties
<1>2. CASE type = "title"
  <2> DEFINE titled == {i \in DOMAIN chunks : chunks[i].titled}
             stated == Stated(chunks, "title")
  <2>1. ExtractFact(chunks, type) = Title(chunks)
    BY <1>2 DEF ExtractFact
  <2>2. Fits(stated, "title", Len(chunks))
    BY StatedFits DEF FactTypes
  <2>3. CASE titled # {}
    <3> HIDE DEF stated
    <3>1. titled \in SUBSET Nat
      BY <1>1
    <3>2. Min(titled) \in titled
      <4> HIDE DEF titled
      <4> QED
        BY <2>3, <3>1, MinIs
    <3>3. Min(titled) \in 1 .. Len(chunks)
      BY <1>1, <3>2
    <3>4. Title(chunks) = [type |-> "title", from |-> Min(titled), strength |-> 80, parts |-> {Min(titled)}]
      BY <2>3 DEF Title
    <3> DEFINE fact == [type |-> "title", from |-> Min(titled), strength |-> 80, parts |-> {Min(titled)}]
    <3>5. Fits(fact, "title", Len(chunks))
      <4> DEFINE place == Min(titled)
      <4> HIDE DEF place
      <4>1. place \in 1 .. Len(chunks) /\ fact = [type |-> "title", from |-> place, strength |-> 80, parts |-> {place}]
        BY <3>3 DEF place
      <4> HIDE DEF fact
      <4> QED
        BY <1>1, <4>1 DEF Fits, Facts, QueryTypes, FactTypes
    <3> QED
      BY <1>2, <2>1, <3>4, <3>5
  <2>4. CASE titled = {} /\ stated.parts = {}
    <3>1. Title(chunks) = stated
      BY <2>4 DEF Title
    <3> QED
      BY <1>2, <2>1, <2>2, <3>1
  <2>5. CASE titled = {} /\ stated.parts # {}
    <3>1. Title(chunks) = [stated EXCEPT !.strength = 70]
      BY <2>5 DEF Title
    <3> HIDE DEF stated
    <3> QED
      BY <1>1, <1>2, <2>1, <2>2, <3>1 DEF Fits, Facts
  <2> QED
    BY <2>3, <2>4, <2>5
<1>3. CASE type = "explanation"
  <2>1. ExtractFact(chunks, type) = Explanation(chunks)
    BY <1>3 DEF ExtractFact
  <2>2. Explanation(chunks) = [type |-> "explanation", from |-> 1, strength |-> 60,
                               parts |-> (1 .. Len(chunks)) \intersect {1, 2}]
    BY <1>1 DEF Explanation
  <2> QED
    BY <1>1, <1>3, <2>1, <2>2 DEF Fits, Facts, QueryTypes
<1>4. CASE type # "title" /\ type # "explanation"
  <2>1. ExtractFact(chunks, type) = Stated(chunks, type) /\ type \in FactTypes
    BY <1>4 DEF ExtractFact, QueryTypes
  <2> QED
    BY <2>1, StatedFits
<1> QED
  BY <1>2, <1>3, <1>4

-----------------------------------------------------------------------------
(* Levels.                                                                 *)

LEMMA Ranks == LevelRank("low") = 1 /\ LevelRank("medium") = 2 /\ LevelRank("high") = 3
<1>1. DOMAIN Levels = 1 .. 3 /\ Levels[1] = "low" /\ Levels[2] = "medium" /\ Levels[3] = "high"
  BY DEF Levels
<1> HIDE DEF Levels
<1>2. \A i \in 1 .. 3 : i = 1 \/ i = 2 \/ i = 3
  OBVIOUS
<1> QED
  BY <1>1, <1>2 DEF LevelRank

LEMMA LevelType ==
  ASSUME NEW chunks
  PROVE  BaseLevel(chunks) \in {"low", "medium", "high"}
  BY DEF BaseLevel

\* A fact raises the level of its evidence or leaves it.
LEMMA FactRaises ==
  ASSUME NEW used, NEW fact \in Facts
  PROVE  /\ FactLevel(used, fact) \in {"low", "medium", "high"}
         /\ LevelRank(BaseLevel(used)) <= LevelRank(FactLevel(used, fact))
         /\ FactLevel(used, fact) = "high" =>
              \/ BaseLevel(used) = "high"
              \/ fact.type # "explanation" /\ fact.strength >= 80
<1>1. BaseLevel(used) \in {"low", "medium", "high"}
  BY LevelType
<1>2. FactLevel(used, fact) =
        IF fact.type # "explanation" /\ fact.strength >= 80 THEN "high"
        ELSE IF fact.type # "explanation" /\ fact.strength >= 60 /\ BaseLevel(used) = "low" THEN "medium"
        ELSE BaseLevel(used)
  BY DEF FactLevel
<1> QED
  BY <1>1, <1>2, Ranks

LEMMA TwoDiffer ==
  ASSUME NEW a, NEW b, a # b
  PROVE  Cardinality({a, b}) = 2
<1>1. IsFiniteSet({a}) /\ Cardinality({a}) = 1
  BY FS_Singleton
<1>2. b \notin {a} /\ {a} \union {b} = {a, b}
  OBVIOUS
<1>3. Cardinality({a} \union {b}) = 1 + 1
  BY <1>1, <1>2, FS_AddElement
<1> QED
  BY <1>2, <1>3

\* The highest level needs two verified passages of one subject.
LEMMA HighLevel ==
  ASSUME NEW chunks \in Seq(Passages), Len(chunks) <= 2, BaseLevel(chunks) = "high"
  PROVE  /\ Len(chunks) = 2 /\ chunks[1].verified /\ chunks[2].verified
         /\ chunks[1].subject = chunks[2].subject
<1> DEFINE top == {i \in DOMAIN chunks : i <= 3}
           verified == {i \in top : chunks[i].verified}
           subjects == {chunks[i].subject : i \in top}
<1>1. Len(chunks) \in Nat /\ DOMAIN chunks = 1 .. Len(chunks)
  BY LenProperties
<1>2. top = 1 .. Len(chunks)
  BY <1>1
<1>3. Cardinality(subjects) <= 1 /\ Cardinality(verified) >= 2
  BY DEF BaseLevel
<1>4. verified \in SUBSET {1, 2}
  BY <1>1, <1>2
<1>5. ASSUME NEW x, verified \in SUBSET {x} PROVE FALSE
  <2> HIDE DEF verified
  <2>1. IsFiniteSet({x}) /\ Cardinality({x}) = 1
    BY FS_Singleton
  <2>2. IsFiniteSet(verified) /\ Cardinality(verified) <= 1
    BY <1>5, <2>1, FS_Subset
  <2>3. Cardinality(verified) \in Nat
    BY <2>2, FS_CardinalityType
  <2> QED
    BY <1>3, <2>2, <2>3
<1>6. 1 \in verified /\ 2 \in verified
  <2>1. ~(verified \in SUBSET {1}) /\ ~(verified \in SUBSET {2})
    BY <1>5
  <2> HIDE DEF verified
  <2> QED
    BY <1>4, <2>1
<1>7. Len(chunks) = 2 /\ chunks[1].verified /\ chunks[2].verified
  BY <1>1, <1>6
<1>8. chunks[1].subject = chunks[2].subject
  <2> DEFINE a == chunks[1].subject
             b == chunks[2].subject
  <2>1. subjects = {a, b}
    <3>1. top = {1, 2}
      BY <1>2, <1>7
    <3> QED
      BY <3>1
  <2> HIDE DEF subjects
  <2> HIDE DEF a, b
  <2>2. a # b => Cardinality({a, b}) = 2
    BY TwoDiffer
  <2>3. a = b
    BY <1>3, <2>1, <2>2
  <2> QED
    BY <2>3 DEF a, b
<1> QED
  BY <1>7, <1>8

-----------------------------------------------------------------------------
(* Answers.                                                                *)

\* Citations are one passage, or the first two.
LEMMA CitedAre ==
  ASSUME NEW chunks \in Seq(Passages), Len(chunks) >= 1, NEW type \in QueryTypes,
         NEW fact, fact = ExtractFact(chunks, type), NEW cited, cited = Used(chunks, fact)
  PROVE  /\ cited \in SUBSET (1 .. Len(chunks)) /\ fact.parts \in SUBSET cited
         /\ Min(cited) \in cited /\ Max(cited) \in cited /\ Min(cited) <= Max(cited)
         /\ type # "explanation" => cited = {fact.from} /\ Min(cited) = Max(cited)
         /\ type = "explanation" =>
              cited = (1 .. Len(chunks)) \intersect {1, 2} /\ Min(cited) = 1 /\ Max(cited) <= 2
<1>1. Len(chunks) \in Nat /\ DOMAIN chunks = 1 .. Len(chunks)
  BY LenProperties
<1>2. Fits(fact, type, Len(chunks))
  BY FactFits
<1>3. CASE type # "explanation"
  <2>1. cited = {fact.from} /\ fact.from \in 1 .. Len(chunks) /\ fact.parts \in SUBSET cited
    BY <1>2, <1>3 DEF Used, Fits
  <2>2. cited \in SUBSET Nat /\ fact.from \in cited
    BY <1>1, <2>1
  <2>3. \A n \in cited : fact.from <= n /\ fact.from >= n
    BY <1>1, <2>1
  <2>4. Min(cited) = fact.from /\ Max(cited) = fact.from
    BY <2>2, <2>3, MinMaxOf
  <2> QED
    BY <1>1, <1>3, <2>1, <2>4
<1>4. CASE type = "explanation"
  <2>1. cited = (1 .. Len(chunks)) \intersect {1, 2} /\ fact.parts = cited
    BY <1>1, <1>2, <1>4 DEF Used, Fits
  <2>2. cited \in SUBSET Nat /\ 1 \in cited /\ \A n \in cited : 1 <= n
    BY <1>1, <2>1
  <2>3. Min(cited) = 1
    BY <2>2, MinMaxOf
  <2>4. Max(cited) \in cited /\ Max(cited) >= 1 /\ Max(cited) <= 2
    <3>1. CASE Len(chunks) = 1
      <4>1. cited = {1}
        BY <2>1, <3>1
      <4>2. \A n \in cited : 1 >= n
        BY <4>1
      <4>3. Max(cited) = 1
        BY <2>2, <4>2, MinMaxOf
      <4> QED
        BY <2>2, <4>3
    <3>2. CASE Len(chunks) # 1
      <4>1. cited = {1, 2}
        BY <1>1, <2>1, <3>2
      <4>2. 2 \in cited /\ \A n \in cited : 2 >= n
        BY <4>1
      <4>3. Max(cited) = 2
        BY <2>2, <4>2, MinMaxOf
      <4> QED
        BY <4>2, <4>3
    <3> QED
      BY <3>1, <3>2
  <2> QED
    BY <1>4, <2>1, <2>2, <2>3, <2>4
<1> QED
  BY <1>3, <1>4

\* What is cited of the first passages is cited of all.
LEMMA AtPrefix ==
  ASSUME NEW passages \in Seq(Passages), NEW k \in 1 .. Len(passages),
         NEW a \in 1 .. k, NEW b \in 1 .. k, a <= b
  PROVE  /\ SubSeq(passages, 1, k) \in Seq(Passages) /\ Len(SubSeq(passages, 1, k)) = k
         /\ \A i \in 1 .. k : SubSeq(passages, 1, k)[i] = passages[i]
         /\ SubSeq(SubSeq(passages, 1, k), a, b) = SubSeq(passages, a, b)
         /\ SubSeq(passages, a, b) \in Seq(Passages) /\ Len(SubSeq(passages, a, b)) = b - a + 1
         /\ \A i \in 1 .. b - a + 1 : SubSeq(passages, a, b)[i] = passages[a + i - 1]
<1> DEFINE chunks == SubSeq(passages, 1, k)
           part == SubSeq(passages, a, b)
           again == SubSeq(chunks, a, b)
<1>1. /\ Len(passages) \in Nat /\ \A i \in 1 .. Len(passages) : passages[i] \in Passages
      /\ k \in Int /\ a \in Int /\ b \in Int /\ 1 <= k /\ b - a + 1 \in Nat
  BY LenProperties, ElementOfSeq
<1>2. \A i \in 1 .. k : passages[i] \in Passages
  BY <1>1
<1>3. chunks \in Seq(Passages) /\ Len(chunks) = k - 1 + 1 /\ \A i \in 1 .. k - 1 + 1 : chunks[i] = passages[1 + i - 1]
  <2> HIDE DEF part, again
  <2> QED
    BY <1>1, <1>2, SubSeqProperties
<1> HIDE DEF chunks
<1>4. Len(chunks) = k /\ \A i \in 1 .. k : chunks[i] = passages[i]
  BY <1>1, <1>3
<1>5. \A i \in a .. b : passages[i] \in Passages /\ chunks[i] \in Passages /\ chunks[i] = passages[i]
  BY <1>1, <1>2, <1>4
<1>6. part \in Seq(Passages) /\ Len(part) = b - a + 1 /\ \A i \in 1 .. b - a + 1 : part[i] = passages[a + i - 1]
  <2> HIDE DEF again
  <2> QED
    BY <1>1, <1>5, SubSeqProperties
<1> HIDE DEF part
<1>7. again \in Seq(Passages) /\ Len(again) = b - a + 1 /\ \A i \in 1 .. b - a + 1 : again[i] = chunks[a + i - 1]
  BY <1>1, <1>5, SubSeqProperties
<1> HIDE DEF again
<1>8. ASSUME NEW i \in 1 .. b - a + 1 PROVE again[i] = part[i]
  <2>1. a + i - 1 \in a .. b
    BY <1>1
  <2> QED
    BY <1>5, <1>6, <1>7, <2>1
<1>9. again = part
  BY <1>6, <1>7, <1>8, SeqEqual
<1> QED
  BY <1>3, <1>4, <1>6, <1>9 DEF chunks, part, again

\* The evidence descends.
Best(passages) ==
  /\ passages \in Seq(Passages)
  /\ \A i, j \in 1 .. Len(passages) : i < j => passages[i].score >= passages[j].score

\* An answer that is backed by the passages it was made from.
Backed(a, passages) ==
  /\ a \in Answers
  /\ ~a.refused =>
       /\ a.fact.parts \in SUBSET a.cited /\ a.cited \in SUBSET (1 .. MaxChunks)
       /\ LevelRank(BaseLevel(At(passages, a.cited))) <= LevelRank(a.level)
  /\ a.level = "high" =>
       \/ a.fact.type # "explanation" /\ a.fact.parts # {}
       \/ \E i, j \in a.cited : /\ i # j /\ passages[i].verified /\ passages[j].verified
                                /\ passages[i].subject = passages[j].subject

LEMMA RefusalIsBacked ==
  ASSUME NEW passages, Best(passages), ~Sufficient(passages)
  PROVE  Backed(Refusal(passages), passages)
<1>1. BaseLevel(passages) = "low"
  BY DEF BaseLevel, Sufficient
<1>2. NotFound("explanation") \in Facts
  BY DEF NotFound, Facts, QueryTypes
<1> QED
  BY <1>1, <1>2 DEF Refusal, Backed, Answers

LEMMA SynthesisIsBacked ==
  ASSUME NEW passages \in Seq(Passages), passages # <<>>, NEW type \in QueryTypes
  PROVE  Backed(Synthesize(passages, type), passages)
<1> DEFINE k == Min({MaxChunks, Len(passages)})
           chunks == SubSeq(passages, 1, k)
           fact == ExtractFact(chunks, type)
           cited == Used(chunks, fact)
           used == At(chunks, cited)
           level == FactLevel(used, fact)
<1>1. Len(passages) \in Nat \ {0}
  BY EmptySeq
<1>2. k \in 1 .. Len(passages) /\ k <= MaxChunks
  <2>1. CASE MaxChunks <= Len(passages)
    <3>1. k = MaxChunks
      BY <1>1, <2>1, MinMaxOf, ChunksAssumption
    <3> HIDE DEF k
    <3> QED
      BY <1>1, <2>1, <3>1, ChunksAssumption
  <2>2. CASE ~(MaxChunks <= Len(passages))
    <3>1. k = Len(passages)
      BY <1>1, <2>2, MinMaxOf, ChunksAssumption
    <3> HIDE DEF k
    <3> QED
      BY <1>1, <2>2, <3>1, ChunksAssumption
  <2> QED
    BY <2>1, <2>2
<1> HIDE DEF k
<1>3. k \in Nat /\ 1 \in 1 .. k /\ k >= 1
  BY <1>1, <1>2
<1>4. /\ chunks \in Seq(Passages) /\ Len(chunks) = k /\ chunks # <<>>
      /\ \A i \in 1 .. k : chunks[i] = passages[i]
  <2>1. /\ chunks \in Seq(Passages) /\ Len(chunks) = k
        /\ \A i \in 1 .. k : chunks[i] = passages[i]
    BY <1>2, <1>3, AtPrefix
  <2> HIDE DEF chunks
  <2> QED
    BY <1>3, <2>1, EmptySeq
<1>5. Synthesize(passages, type) = [refused |-> FALSE, fact |-> fact, cited |-> cited, level |-> level]
  BY <1>4 DEF Synthesize, k
<1> HIDE DEF chunks
<1>6. Fits(fact, type, k)
  BY <1>3, <1>4, FactFits
<1>7. /\ cited \in SUBSET (1 .. k) /\ fact.parts \in SUBSET cited
      /\ Min(cited) \in cited /\ Max(cited) \in cited /\ Min(cited) <= Max(cited)
      /\ type # "explanation" => cited = {fact.from} /\ Min(cited) = Max(cited)
      /\ type = "explanation" =>
           cited = (1 .. k) \intersect {1, 2} /\ Min(cited) = 1 /\ Max(cited) <= 2
  BY <1>3, <1>4, CitedAre
<1> HIDE DEF fact, cited
<1> DEFINE a == Min(cited)
           b == Max(cited)
<1>8. a \in 1 .. k /\ b \in 1 .. k /\ a <= b
  BY <1>7
<1>9. /\ used = At(passages, cited) /\ used \in Seq(Passages) /\ Len(used) = b - a + 1
      /\ \A i \in 1 .. b - a + 1 : used[i] = passages[a + i - 1]
  <2>1. used = SubSeq(chunks, a, b) /\ At(passages, cited) = SubSeq(passages, a, b)
    BY DEF At
  <2> HIDE DEF used, a, b
  <2>2. /\ SubSeq(chunks, a, b) = SubSeq(passages, a, b)
        /\ SubSeq(passages, a, b) \in Seq(Passages) /\ Len(SubSeq(passages, a, b)) = b - a + 1
        /\ \A i \in 1 .. b - a + 1 : SubSeq(passages, a, b)[i] = passages[a + i - 1]
    BY <1>2, <1>8, AtPrefix DEF chunks
  <2> QED
    BY <2>1, <2>2
<1> HIDE DEF used, a, b
<1>10. fact \in Facts /\ fact.type = type
  BY <1>6 DEF Fits
<1>11. /\ level \in {"low", "medium", "high"}
       /\ LevelRank(BaseLevel(used)) <= LevelRank(level)
       /\ level = "high" => \/ BaseLevel(used) = "high"
                            \/ fact.type # "explanation" /\ fact.strength >= 80
  BY <1>10, FactRaises
<1> HIDE DEF level
<1>12. ASSUME level = "high"
       PROVE  \/ fact.type # "explanation" /\ fact.parts # {}
              \/ \E i, j \in cited : /\ i # j /\ passages[i].verified /\ passages[j].verified
                                     /\ passages[i].subject = passages[j].subject
  <2>1. CASE fact.type # "explanation" /\ fact.strength >= 80
    BY <1>6, <1>10, <2>1 DEF Fits
  <2>2. CASE BaseLevel(used) = "high"
    <3>1. Len(used) <= 2
      <4>1. type # "explanation" => a = b
        BY <1>7 DEF a, b
      <4>2. type = "explanation" => a = 1 /\ b <= 2
        BY <1>7 DEF a, b
      <4> QED
        BY <1>3, <1>8, <1>9, <4>1, <4>2
    <3>2. /\ Len(used) = 2 /\ used[1].verified /\ used[2].verified
          /\ used[1].subject = used[2].subject
      BY <1>9, <2>2, <3>1, HighLevel
    <3>3. b = a + 1 /\ used[1] = passages[a] /\ used[2] = passages[b]
      <4>1. b - a + 1 = 2 /\ b = a + 1
        <5>1. b - a + 1 = 2
          BY <1>9, <3>2
        <5> QED
          BY ONLY <1>3, <1>8, <5>1
      <4>2. used[1] = passages[a + 1 - 1] /\ used[2] = passages[a + 2 - 1]
        <5>1. 1 \in 1 .. b - a + 1 /\ 2 \in 1 .. b - a + 1
          BY <4>1
        <5> QED
          BY <1>9, <5>1
      <4>3. a + 1 - 1 = a /\ a + 2 - 1 = b
        BY <1>3, <1>8, <4>1
      <4> QED
        BY <4>1, <4>2, <4>3
    <3>4. a \in cited /\ b \in cited /\ a # b
      <4>1. a \in cited /\ b \in cited
        BY <1>7 DEF a, b
      <4> QED
        BY <1>3, <1>8, <3>3, <4>1
    <3> QED
      BY <3>2, <3>3, <3>4
  <2> QED
    BY <1>11, <1>12, <2>1, <2>2
<1>13. cited \in SUBSET (1 .. MaxChunks) /\ cited \in SUBSET (Nat \ {0})
  BY <1>2, <1>3, <1>7, ChunksAssumption
<1> QED
  BY <1>5, <1>7, <1>9, <1>10, <1>11, <1>12, <1>13 DEF Backed, Answers

LEMMA AnswerAlwaysBacked ==
  ASSUME NEW passages, Best(passages), NEW type \in QueryTypes
  PROVE  Backed(Respond(passages, type), passages)
<1>1. CASE Sufficient(passages)
  <2>1. passages # <<>> /\ passages \in Seq(Passages)
    BY <1>1 DEF Sufficient, Best
  <2> QED
    BY <1>1, <2>1, SynthesisIsBacked DEF Respond
<1>2. CASE ~Sufficient(passages)
  BY <1>2, RefusalIsBacked DEF Respond
<1> QED
  BY <1>1, <1>2

-----------------------------------------------------------------------------
(* Theorems.                                                               *)

\* The evidence descends, and the answer is the one that is made from it.
Inv ==
  /\ Best(evidence) /\ Len(evidence) <= MaxEvidence
  /\ question \in QueryTypes
  /\ answer = Respond(evidence, question)

LEMMA InvAlways == Spec => []Inv
<1>1. Init => Inv
  <2> SUFFICES ASSUME Init PROVE Inv
    OBVIOUS
  <2>1. Best(evidence) /\ Len(evidence) <= MaxEvidence
    BY EmptySeq, PassagesAssumption DEF Init, Best
  <2> QED
    BY <2>1 DEF Init, Inv
<1>2. Inv /\ [Next]_vars => Inv'
  <2> SUFFICES ASSUME Inv, [Next]_vars PROVE Inv'
    OBVIOUS
  <2>1. ASSUME NEW passage \in Passages, Retrieve(passage) PROVE Inv'
    <3> DEFINE n == Len(evidence)
    <3>1. evidence \in Seq(Passages) /\ n \in Nat /\ DOMAIN evidence = 1 .. n
      BY LenProperties DEF Inv, Best
    <3>2. /\ evidence' = Append(evidence, passage) /\ n < MaxEvidence
          /\ \A i \in 1 .. n : evidence[i].score >= passage.score
      BY <2>1, <3>1 DEF Retrieve
    <3>3. /\ evidence' \in Seq(Passages) /\ Len(evidence') = n + 1 /\ evidence'[n + 1] = passage
          /\ \A i \in 1 .. n : evidence'[i] = evidence[i]
      BY <3>1, <3>2, AppendProperties
    <3> HIDE DEF n
    <3>4. \A i \in 1 .. n + 1 : i \in 1 .. n \/ i = n + 1
      BY <3>1
    <3>5. ASSUME NEW i \in 1 .. n + 1, NEW j \in 1 .. n + 1, i < j
          PROVE  evidence'[i].score >= evidence'[j].score
      <4>1. i \in 1 .. n
        BY <3>1, <3>5
      <4>2. CASE j = n + 1
        BY <3>2, <3>3, <4>1, <4>2
      <4>3. CASE j \in 1 .. n
        BY <3>3, <3>5, <4>1, <4>3 DEF Inv, Best, n
      <4> QED
        BY <3>4, <4>2, <4>3
    <3>6. Best(evidence') /\ Len(evidence') <= MaxEvidence
      BY <3>1, <3>2, <3>3, <3>5, PassagesAssumption DEF Best
    <3> QED
      BY <2>1, <3>6 DEF Inv, Retrieve
  <2>2. CASE UNCHANGED vars
    BY <2>2 DEF vars, Inv
  <2> QED
    BY <2>1, <2>2 DEF Next
<1> QED
  BY <1>1, <1>2, PTL DEF Spec

LEMMA InvBacked == Inv => Backed(answer, evidence)
  BY AnswerAlwaysBacked DEF Inv

\* The answer keeps its type, whatever is retrieved and asked.
THEOREM TypeCorrect == Spec => []TypeOK
<1>1. Inv => TypeOK
  BY InvBacked DEF Inv, Best, Backed, TypeOK
<1> QED
  BY <1>1, InvAlways, PTL

\* An answer is never less certain than the passages it cites, for any passages
\* and any number of them (_fact_confidence).
THEOREM FactsAlwaysOnlyRaise == Spec => []FactsOnlyRaise
<1>1. Inv => FactsOnlyRaise
  BY InvBacked DEF Backed, FactsOnlyRaise
<1> QED
  BY <1>1, InvAlways, PTL

\* What an answer says is in the passages it cites; high confidence has a stated
\* fact or two verified passages of one subject behind it; a refusal cites nothing
\* and is never certain, for any floor up to the middle level (_used_chunks,
\* compute_confidence, _refusal).
THEOREM AnswerIsAlwaysBacked == Spec => []AnswerIsBacked
<1>1. Inv => AnswerIsBacked
  BY InvBacked DEF Backed, AnswerIsBacked
<1> QED
  BY <1>1, InvAlways, PTL

=============================================================================
