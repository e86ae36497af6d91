------------------------------ MODULE HybridRetrieval ------------------------------
(***************************************************************************)
(* One search of RetrievalRunner (app/services/retrieval.py): translation  *)
(* and the search for the original text at once, then the searches for     *)
(* the other candidate texts, each a dense and a sparse query that end in  *)
(* any order or fail; fusion, merge, reranking and compression.            *)
(*                                                                         *)
(* Scores keep their order only: a similarity and an overlap are small     *)
(* numbers, a rank is worth the reciprocal of k + rank.                    *)
(***************************************************************************)
EXTENDS Integers, SequencesExt

CONSTANTS
  Chunks,
  Texts,         \* of queries, in the form the index matches
  Original,      \* the text that was asked
  Similarities,  \* of a dense match; 0 is none
  Overlap,       \* of a chunk's words with the better of the two queries
  Passage,       \* book, topic and beginning of a chunk's text
  Floor,         \* retrieval_evidence_floor
  DefaultTopN,   \* retrieval_top_n
  TopNs,         \* the top_n of requests; 0 stands for none
  Limit,         \* retrieval_candidates
  MaxVariants,   \* retrieval_max_variants
  K,             \* vector_rrf_k
  Unit,          \* of a score, a multiple of every k + rank
  MaxRanking     \* bound: length of a ranking

ASSUME CorpusAssumption == IsFiniteSet(Chunks) /\ Original \in Texts
ASSUME ScoresAssumption ==
  /\ Similarities \subseteq Nat /\ Overlap \in [Chunks -> Nat]
  /\ Floor \in Nat \ {0} /\ K \in Nat \ {0}
  /\ Unit \in Nat \ {0} /\ \A rank \in 1 .. Limit : Unit % (K + rank) = 0
ASSUME BoundsAssumption ==
  /\ Limit \in Nat \ {0} /\ MaxVariants \in Nat \ {0} /\ DefaultTopN \in Nat \ {0}
  /\ TopNs \subseteq Nat /\ MaxRanking \in 1 .. Limit

VARIABLES
  phase,     \* of the search
  topN,      \* of the request
  reranking, \* retrieval_reranking_enabled
  searches,  \* the hybrid searches, that for the original text first
  evidence   \* the chunks of the result

request == <<topN, reranking>>
vars == <<phase, request, searches, evidence>>

Phases == {"new", "translating", "searching", "done", "outage", "raised"}

\* A side of a hybrid search runs, has failed, or has returned its ranking.
Ranking(matches) ==
  {r \in BoundedSeq(matches, MaxRanking) : \A i, j \in DOMAIN r : r[i].chunk = r[j].chunk => i = j}
DenseRankings ==
  {r \in Ranking([chunk : Chunks, similarity : Similarities]) :
     \A i, j \in DOMAIN r : i < j => r[i].similarity >= r[j].similarity}
SparseRankings == Ranking([chunk : Chunks])

Pending == [state |-> "pending", ranking |-> <<>>]
Failed == [state |-> "failed", ranking |-> <<>>]
Returned(ranking) == [state |-> "returned", ranking |-> ranking]
Started(text) == [text |-> text, dense |-> Pending, sparse |-> Pending]

Sides(rankings) == {Pending, Failed} \union {Returned(r) : r \in rankings}
Searches == [text : Texts, dense : Sides(DenseRankings), sparse : Sides(SparseRankings)]

TypeOK ==
  /\ phase \in Phases /\ topN \in TopNs /\ reranking \in BOOLEAN
  /\ searches \in Seq(Searches)
  /\ evidence \in Seq([chunk : Chunks, score : Nat])

Init ==
  /\ phase = "new"
  /\ topN \in TopNs /\ reranking \in BOOLEAN
  /\ searches = <<>>
  /\ evidence = <<>>

-----------------------------------------------------------------------------
(* Pure parts.                                                             *)

Take(seq, n) == SubSeq(seq, 1, IF n < Len(seq) THEN n ELSE Len(seq))

\* A finite set in order: before[p] are those that come no later than p.
InOrder(before) ==
  [n \in 1 .. Cardinality(DOMAIN before) |->
     CHOOSE p \in DOMAIN before : Cardinality(before[p]) = n]

\* The elements of a sequence at some of its places.
Those(seq, places) ==
  LET order == InOrder([i \in places |-> {j \in places : j <= i}])
  IN  [n \in DOMAIN order |-> seq[order[n]]]

\* sorted(..., reverse=True) is stable.
Descending(hits) ==
  LET before == [i \in DOMAIN hits |-> {j \in DOMAIN hits :
                   \/ hits[j].score > hits[i].score
                   \/ hits[j].score = hits[i].score /\ j <= i}]
      order == InOrder(before)
  IN  [n \in DOMAIN order |-> hits[order[n]]]

\* The elements of the sequences of a sequence.
Flat(lists) ==
  LET places == UNION {{k} \X DOMAIN lists[k] : k \in DOMAIN lists}
      before == [p \in places |-> {q \in places : \/ q[1] < p[1]
                                                  \/ q[1] = p[1] /\ q[2] <= p[2]}]
      order == InOrder(before)
  IN  [n \in DOMAIN order |-> lists[order[n][1]][order[n][2]]]

ChunkIds(seq) == [i \in 1 .. Len(seq) |-> seq[i].chunk]

\* The elements of a sequence without repetition, each at its first place.
Distinct(seq) == Those(seq, {i \in DOMAIN seq : \A j \in 1 .. i - 1 : seq[j] # seq[i]})

\* 1 / (k + rank).
Reciprocal(rank) == Unit \div (K + rank)

\* The one place of a chunk in a ranking, if any.
Places(ranking, chunk) == {i \in DOMAIN ranking : ranking[i].chunk = chunk}
RankScore(ranking, chunk) ==
  LET at == Places(ranking, chunk) IN IF at = {} THEN 0 ELSE Reciprocal(CHOOSE i \in at : TRUE)
Similarity(ranking, chunk) ==
  LET at == Places(ranking, chunk) IN IF at = {} THEN 0 ELSE ranking[CHOOSE i \in at : TRUE].similarity

\* rrf_fuse: the sum of the two ranks; "dense" is 0 when only the words match.
Fuse(dense, sparse) ==
  LET ids == Distinct(ChunkIds(dense) \o ChunkIds(sparse))
      hits == [n \in 1 .. Len(ids) |->
                 [chunk |-> ids[n],
                  score |-> RankScore(dense, ids[n]) + RankScore(sparse, ids[n]),
                  dense |-> Similarity(dense, ids[n])]]
  IN  Take(Descending(hits), Limit)

\* Of the hits of a chunk the first with the best score.
Best(hits, chunk) ==
  CHOOSE j \in Places(hits, chunk) : \A i \in Places(hits, chunk) :
    \/ hits[j].score > hits[i].score
    \/ hits[j].score = hits[i].score /\ j <= i

\* _merge_hits: of the hits of a chunk the best is kept, as a whole.
Merge(hitLists) ==
  LET all == Flat(hitLists)
      ids == Distinct(ChunkIds(all))
  IN  Take(Descending([n \in 1 .. Len(ids) |-> all[Best(all, ids[n])]]), Limit)

\* _rerank scores a hit by the best of the two overlaps and the dense similarity.
Strength(hit) == IF Overlap[hit.chunk] > hit.dense THEN Overlap[hit.chunk] ELSE hit.dense
Scored(hits) ==
  [i \in 1 .. Len(hits) |->
     [chunk |-> hits[i].chunk, score |-> IF reranking THEN Strength(hits[i]) ELSE hits[i].score]]

\* Mutant: the hits keep their order.
RankUnsorted(hits) == Scored(hits)

Rank(hits) == IF reranking THEN Descending(Scored(hits)) ELSE Scored(hits)

\* _compress: down to the floor, each passage at its first place.
Kept(ranked) ==
  {i \in DOMAIN ranked :
     /\ reranking => \A j \in 1 .. i : ranked[j].score >= Floor
     /\ \A j \in 1 .. i - 1 : Passage[ranked[j].chunk] # Passage[ranked[i].chunk]}

\* Mutant: repeated passages count against top_n.
CompressEarly(ranked, top) == Those(ranked, Kept(Take(ranked, top)))

Compress(ranked, top) == Take(Those(ranked, Kept(ranked)), top)

\* ExpansionRunner.expand and _remaining_candidates: no text twice, at most
\* MaxVariants in all, and the original, which is the first, is searched already.
Remaining(canonical, variants) ==
  Tail(Take(Distinct(<<Original>> \o canonical \o variants), MaxVariants))

-----------------------------------------------------------------------------
(* The search.                                                             *)

\* The query is rejected by the preprocessor or has no language ...
Reject ==
  /\ phase = "new"
  /\ phase' = "raised"
  /\ UNCHANGED <<request, searches, evidence>>

\* ... or its translation and its own search begin together.
Begin ==
  /\ phase = "new"
  /\ phase' = "translating"
  /\ searches' = <<Started(Original)>>
  /\ UNCHANGED <<request, evidence>>

\* The translation has ended; the failed one, like that of an Arabic query, is
\* the original text. Its canonical copy may be empty; the variants are those
\* of the lexicon and of the term relations.
Translated ==
  /\ phase = "translating"
  /\ \E canonical \in {<<>>} \union {<<t>> : t \in Texts} :
     \E variants \in BoundedSeq(Texts, IF canonical = <<>> THEN 0 ELSE MaxVariants) :
       LET remaining == Remaining(canonical, variants)
       IN  searches' = searches \o [k \in 1 .. Len(remaining) |-> Started(remaining[k])]
  /\ phase' = "searching"
  /\ UNCHANGED <<request, evidence>>

\* The database fails under the term relations: the search for the original is
\* abandoned.
ExpansionFails ==
  /\ phase = "translating"
  /\ phase' = "raised"
  /\ UNCHANGED <<request, searches, evidence>>

\* A query of the store ends; an embedder that fails is both sides failing.
SideEnds(k, side) ==
  /\ phase \in {"translating", "searching"}
  /\ searches[k][side] = Pending
  /\ \E outcome \in {Failed} \union {Returned(r) : r \in IF side = "dense" THEN DenseRankings
                                                          ELSE SparseRankings} :
       searches' = [searches EXCEPT ![k][side] = outcome]
  /\ UNCHANGED <<phase, request, evidence>>

Ended(search) == search.dense # Pending /\ search.sparse # Pending
\* Mutant: a search fails with either of its sides.
LostHalf(search) == search.dense = Failed \/ search.sparse = Failed
Lost(search) == search.dense = Failed /\ search.sparse = Failed

\* The hits of the searches that are not lost, in their order.
Answered == {k \in DOMAIN searches : ~Lost(searches[k])}
HitLists ==
  LET answered == Those(searches, Answered)
  IN  [k \in DOMAIN answered |-> Fuse(answered[k].dense.ranking, answered[k].sparse.ranking)]

EffectiveTopN == IF topN = 0 THEN DefaultTopN ELSE topN

\* Mutant: searches that failed found nothing.
CollectSwallowing ==
  /\ phase = "searching"
  /\ \A k \in DOMAIN searches : Ended(searches[k])
  /\ phase' = "done" /\ evidence' = Compress(Rank(Merge(HitLists)), EffectiveTopN)
  /\ UNCHANGED <<request, searches>>

\* All searches have ended: some of them answered, or there is an outage.
Collect ==
  /\ phase = "searching"
  /\ \A k \in DOMAIN searches : Ended(searches[k])
  /\ IF Answered = {}
       THEN phase' = "outage" /\ UNCHANGED evidence
       ELSE phase' = "done" /\ evidence' = Compress(Rank(Merge(HitLists)), EffectiveTopN)
  /\ UNCHANGED <<request, searches>>

Next ==
  \/ Reject \/ Begin \/ Translated \/ ExpansionFails \/ Collect
  \/ \E k \in DOMAIN searches, side \in {"dense", "sparse"} : SideEnds(k, side)

Spec == Init /\ [][Next]_vars

-----------------------------------------------------------------------------
(* Properties.                                                             *)

\* The chunks that any side of any search found.
Found == {c \in Chunks : \E k \in DOMAIN searches, side \in {"dense", "sparse"} :
                           Places(searches[k][side].ranking, c) # {}}

\* Evidence is never made up, and an outage is never taken for an absence of
\* evidence: there is a result if and only if one side of one search returned,
\* whatever becomes of the others.
OutageIsRaised ==
  phase \in {"done", "outage"} =>
    (phase = "done" <=> \E k \in DOMAIN searches, side \in {"dense", "sparse"} :
                          searches[k][side].state = "returned")

\* However the hits were merged: the evidence descends, is above the floor when
\* it is reranked, has no passage twice and at most top_n, all of it found.
EvidenceIsSound ==
  /\ Len(evidence) <= EffectiveTopN
  /\ \A i \in DOMAIN evidence :
       evidence[i].chunk \in Found /\ (reranking => evidence[i].score >= Floor)
  /\ \A i, j \in DOMAIN evidence : i < j =>
       /\ evidence[i].score >= evidence[j].score
       /\ Passage[evidence[i].chunk] # Passage[evidence[j].chunk]

\* Nothing better is left out: a chunk that any side of any search found, whose
\* words overlap with the query up to the floor, is in the evidence, or its
\* passage is, or the evidence is full of chunks that are as good. (The chunks
\* found must not exceed the limit of the merge.)
NothingBetterIsLost ==
  phase = "done" /\ reranking /\ Cardinality(Found) <= Limit =>
    \A c \in Found : Overlap[c] >= Floor =>
      \/ \E i \in DOMAIN evidence : /\ Passage[evidence[i].chunk] = Passage[c]
                                    /\ evidence[i].score >= Overlap[c]
      \/ /\ Len(evidence) = EffectiveTopN
         /\ \A i \in DOMAIN evidence : evidence[i].score >= Overlap[c]

=============================================================================
