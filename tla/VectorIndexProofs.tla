----------------------------- MODULE VectorIndexProofs -----------------------------
(***************************************************************************)
(* Proofs about VectorIndex, for any number of uploads, workers, books and *)
(* faults: what its rows, its points, its cached vectors and the report of *)
(* the reconciliation are whatever runs beside it.                         *)
(***************************************************************************)
EXTENDS VectorIndex, FiniteSetTheorems, SequenceTheorems, TLAPS

-----------------------------------------------------------------------------
(* The invariants.                                                         *)

\* What a worker's task holds at each of its steps.
TaskShape(t) ==
  /\ t.pc \in {"delete", "insert"} => t.upload \in Uploads /\ t.book \in Books
  /\ t.pc \in {"load", "embed", "clear", "upsert"} => t.upload \in Uploads /\ t.book = <<>>
  /\ t.pc \in {"idle", "delete", "insert", "load"} => t.chunks = <<>> /\ t.built = <<>>
  /\ t.pc = "embed" => Len(t.built) < Len(t.chunks)
  /\ t.pc \in {"clear", "upsert"} => Len(t.built) = Len(t.chunks)
  /\ t.pc # "upsert" => t.done = 0
  /\ t.done <= Len(t.chunks)

TypeInv ==
  /\ TypeOK
  /\ IsFiniteSet(DOMAIN rows) /\ IsFiniteSet(DOMAIN points) /\ IsFiniteSet(health.seen)
  /\ \A w \in Workers : TaskShape(task[w])

\* The vectors that an indexing has put together are those of its chunks.
OwnTask(t) == \A i \in 1 .. Len(t.built) : t.built[i] = t.chunks[i][2]

OwnInv ==
  /\ VectorsAreTheirOwn
  /\ \A w \in Workers : OwnTask(task[w])

\* Between its deletion and its insertion a chunking that is alone finds no row
\* of its upload.
WholeInv ==
  \A u \in Uploads \ mixed :
    /\ \A v, w \in Workers : Chunking(v, u) /\ Chunking(w, u) => v = w
    /\ \A w \in Workers : task[w].upload = u /\ task[w].pc = "insert" => RowsOf(u) = {}
    /\ RowsOf(u) = {} \/ \E book \in Books : RowsOf(u) = IdsOf(book)

\* The chunks of an indexing, and those it has upserted.
ChunksOf(t) == {t.chunks[i] : i \in 1 .. Len(t.chunks)}
DoneOf(t) == {t.chunks[i] : i \in 1 .. t.done}

Upserting(w, u) == task[w].upload = u /\ task[w].pc = "upsert"

\* Until two tasks race, an indexing holds the present rows of its upload, is
\* alone when it upserts them and has put there what the upload has in the
\* index; and what was indexed whole is not being upserted again.
IndexInv ==
  ~raced =>
    /\ \A w \in Workers, u \in Uploads : Holding(w, u) => ChunksOf(task[w]) = RowsOf(u)
    /\ \A v, w \in Workers, u \in Uploads : Upserting(v, u) /\ Upserting(w, u) => v = w
    /\ \A w \in Workers, u \in Uploads : Upserting(w, u) => PointsOf(u) = DoneOf(task[w])
    /\ \A u \in fresh : PointsOf(u) = RowsOf(u) /\ \A w \in Workers : ~Upserting(w, u)

\* While nothing changes the scroll has seen every id up to its offset.
ReportInv ==
  health.quiet /\ ~health.blind =>
    /\ health.pc = "scroll" => health.seen = {c \in DOMAIN points : Place(c) <= health.after}
    /\ health.pc = "compare" => health.seen = DOMAIN points
    /\ health.pc = "reported" =>
         /\ Reported(health.orphans, health.orphanCount, DOMAIN points \ DOMAIN rows)
         /\ Reported(health.never, health.neverCount, DOMAIN rows \ DOMAIN points)

-----------------------------------------------------------------------------
(* The operators.                                                          *)

\* Two elements of a finite set of numbers with as many elements up to them are
\* one.
LEMMA SameRank ==
  ASSUME NEW S \in SUBSET Int, IsFiniteSet(S), NEW i \in S, NEW j \in S,
         Cardinality({k \in S : k <= i}) = Cardinality({k \in S : k <= j})
  PROVE  i = j
<1> DEFINE below(m) == {k \in S : k <= m}
<1>1. ASSUME NEW a \in S, NEW b \in S, a < b, Cardinality(below(a)) = Cardinality(below(b)) PROVE FALSE
  <2>1. below(a) \in SUBSET below(b) /\ b \in below(b) \ below(a)
    <3>1. a \in Int /\ b \in Int
      OBVIOUS
    <3>2. \A k \in Int : k <= a => k <= b
      BY <1>1, <3>1
    <3>3. ASSUME NEW k \in below(a) PROVE k \in below(b)
      BY <3>2
    <3>4. b \in below(b) /\ b \notin below(a)
      BY <1>1, <3>1
    <3> QED
      BY <3>3, <3>4
  <2>2. IsFiniteSet(below(b))
    <3>1. below(b) \in SUBSET S
      OBVIOUS
    <3> QED
      BY <3>1, FS_Subset
  <2>3. below(b) = below(a)
    <3> HIDE DEF below
    <3> QED
      BY <1>1, <2>1, <2>2, FS_Subset
  <2> QED
    BY <2>1, <2>3
<1>2. ~(i < j) /\ ~(j < i)
  BY <1>1
<1> QED
  BY <1>2

\* Of the ids of chunks no two have one place.
LEMMA PlaceApart ==
  ASSUME NEW c \in ChunkIds, NEW d \in ChunkIds, Place(c) = Place(d)
  PROVE  c = d
<1> DEFINE n == NumTexts + 1
<1>1. n \in Nat /\ c[1] \in Nat /\ d[1] \in Nat /\ c[2] \in 1 .. n - 1 /\ d[2] \in 1 .. n - 1
  BY SizesAssumption DEF ChunkIds, Texts
<1>2. ASSUME NEW a \in Nat, NEW b \in Nat, a < b PROVE a * n + n <= b * n
  <2>1. (a + 1) * n <= b * n
    BY <1>1, <1>2
  <2>2. (a + 1) * n = a * n + n
    BY <1>1, <1>2
  <2> QED
    BY <2>1, <2>2
<1>3. c[1] * n + c[2] = d[1] * n + d[2]
  BY DEF Place
<1>4. c[1] * n \in Nat /\ d[1] * n \in Nat
  BY <1>1
<1>5. c[1] = d[1]
  <2>1. CASE c[1] < d[1]
    <3>1. c[1] * n + n <= d[1] * n
      BY <1>1, <1>2, <2>1
    <3> HIDE DEF n
    <3> QED
      BY <1>1, <1>3, <1>4, <3>1
  <2>2. CASE d[1] < c[1]
    <3>1. d[1] * n + n <= c[1] * n
      BY <1>1, <1>2, <2>2
    <3> HIDE DEF n
    <3> QED
      BY <1>1, <1>3, <1>4, <3>1
  <2> QED
    BY <1>1, <2>1, <2>2
<1>6. c[2] = d[2]
  <2> HIDE DEF n
  <2> QED
    BY <1>1, <1>3, <1>4, <1>5
<1> QED
  BY <1>5, <1>6 DEF ChunkIds

LEMMA PlaceType == \A c \in ChunkIds : Place(c) \in Nat \ {0}
<1> SUFFICES ASSUME NEW c \in ChunkIds PROVE Place(c) \in Nat \ {0}
  OBVIOUS
<1>1. c[1] \in Nat /\ c[2] \in Nat \ {0} /\ NumTexts + 1 \in Nat
  BY SizesAssumption DEF ChunkIds, Texts
<1>2. c[1] * (NumTexts + 1) \in Nat
  BY <1>1
<1> QED
  BY <1>1, <1>2 DEF Place

\* Where an id comes in a set by its place.
Rank(found, c) == Cardinality({d \in found : Place(d) <= Place(c)})

\* The places of a finite set of ids number them from one on.
LEMMA RanksAreOnto ==
  ASSUME NEW found \in SUBSET ChunkIds, IsFiniteSet(found)
  PROVE  /\ Cardinality(found) \in Nat
         /\ \A c \in found : Rank(found, c) \in 1 .. Cardinality(found)
         /\ \A c, d \in found : Rank(found, c) = Rank(found, d) => c = d
         /\ \A i \in 1 .. Cardinality(found) : \E c \in found : Rank(found, c) = i
<1> DEFINE n == Cardinality(found)
           upTo(c) == {d \in found : Place(d) <= Place(c)}
           rank == [c \in found |-> Cardinality(upTo(c))]
<1>1. n \in Nat
  BY FS_CardinalityType
<1>2. ASSUME NEW c \in found
      PROVE  /\ upTo(c) \in SUBSET found /\ c \in upTo(c)
             /\ IsFiniteSet(upTo(c)) /\ Cardinality(upTo(c)) \in 1 .. n
  <2>1. upTo(c) \in SUBSET found /\ c \in upTo(c)
    BY PlaceType
  <2>2. IsFiniteSet(upTo(c)) /\ Cardinality(upTo(c)) <= n
    <3> HIDE DEF upTo
    <3> QED
      BY <2>1, FS_Subset
  <2>3. Cardinality(upTo(c)) \in Nat /\ Cardinality(upTo(c)) # 0
    <3> HIDE DEF upTo
    <3> QED
      BY <2>1, <2>2, FS_CardinalityType, FS_EmptySet
  <2> QED
    BY <1>1, <2>1, <2>2, <2>3
<1>3. ASSUME NEW c \in found, NEW d \in found, rank[c] = rank[d] PROVE c = d
  <2>1. ASSUME NEW a \in found, NEW b \in found, Place(a) <= Place(b),
               Cardinality(upTo(a)) = Cardinality(upTo(b))
        PROVE  a = b
    <3>1. upTo(a) \in SUBSET upTo(b)
      BY <2>1, PlaceType
    <3>2. upTo(a) = upTo(b)
      <4> HIDE DEF upTo
      <4> QED
        BY <1>2, <2>1, <3>1, FS_Subset
    <3>3. b \in upTo(a)
      BY <1>2, <3>2
    <3>4. Place(b) <= Place(a)
      BY <3>3
    <3> QED
      BY <2>1, <3>4, PlaceType, PlaceApart
  <2>2. Cardinality(upTo(c)) = Cardinality(upTo(d))
    BY <1>3
  <2>3. Place(c) <= Place(d) \/ Place(d) <= Place(c)
    BY PlaceType
  <2> QED
    BY <2>1, <2>2, <2>3
<1>4. rank \in Injection(found, 1 .. n)
  BY <1>2, <1>3 DEF Injection, IsInjective
<1>5. rank \in Surjection(found, 1 .. n)
  <2>1. IsFiniteSet(1 .. n) /\ Cardinality(1 .. n) = n
    BY <1>1, FS_Interval
  <2> HIDE DEF rank
  <2> QED
    BY <1>4, <2>1, FS_Injection
<1>6. \A c \in found : rank[c] = Rank(found, c) /\ Rank(found, c) \in 1 .. n
  BY <1>2 DEF Rank
<1>7. ASSUME NEW i \in 1 .. n PROVE \E c \in found : Rank(found, c) = i
  <2> HIDE DEF rank
  <2> QED
    BY <1>5, <1>6 DEF Surjection
<1>8. \A c, d \in found : Rank(found, c) = Rank(found, d) => c = d
  <2> HIDE DEF rank
  <2> QED
    BY <1>3, <1>6
<1> QED
  BY <1>1, <1>6, <1>7, <1>8

\* The entries that a report names are as many as it has room for.
LEMMA ListedIsReported ==
  ASSUME NEW found \in SUBSET ChunkIds, IsFiniteSet(found)
  PROVE  /\ Listed(found) \in SUBSET ChunkIds /\ Cardinality(found) \in Nat
         /\ Reported(Listed(found), Cardinality(found), found)
<1> DEFINE n == Cardinality(found)
           m == IF n <= ReportLimit THEN n ELSE ReportLimit
           rank == [c \in Listed(found) |-> Rank(found, c)]
<1>1. /\ n \in Nat
      /\ \A c \in found : Rank(found, c) \in 1 .. n
      /\ \A c, d \in found : Rank(found, c) = Rank(found, d) => c = d
      /\ \A i \in 1 .. n : \E c \in found : Rank(found, c) = i
  BY RanksAreOnto
<1>2. m \in Nat /\ \A i \in 1 .. n : i \in 1 .. m <=> i <= ReportLimit
  BY <1>1, SizesAssumption
<1>3. Listed(found) = {c \in found : Rank(found, c) <= ReportLimit}
  BY DEF Listed, Rank
<1>4. IsFiniteSet(Listed(found))
  BY <1>3, FS_Subset
<1>5. rank \in Injection(Listed(found), 1 .. m)
  <2>1. rank \in [Listed(found) -> 1 .. m]
    <3> SUFFICES ASSUME NEW c \in Listed(found) PROVE Rank(found, c) \in 1 .. m
      OBVIOUS
    <3> HIDE DEF m, n
    <3> QED
      BY <1>1, <1>2, <1>3
  <2> QED
    BY <1>1, <1>3, <2>1 DEF Injection, IsInjective
<1>6. rank \in Surjection(Listed(found), 1 .. m)
  <2>1. ASSUME NEW i \in 1 .. m PROVE \E c \in Listed(found) : rank[c] = i
    <3>1. i \in 1 .. n /\ i <= ReportLimit
      BY <1>1, SizesAssumption
    <3>2. PICK c \in found : Rank(found, c) = i
      BY <1>1, <3>1
    <3> QED
      BY <1>3, <3>1, <3>2
  <2> QED
    BY <1>5, <2>1 DEF Injection, Surjection
<1>7. Cardinality(Listed(found)) = m
  <2>1. IsFiniteSet(1 .. m) /\ Cardinality(1 .. m) = m
    BY <1>2, FS_Interval
  <2> HIDE DEF rank, m
  <2> QED
    BY <1>5, <1>6, <2>1, FS_Injection
<1> QED
  BY <1>1, <1>3, <1>7 DEF Reported

\* A listing has every row of the upload and nothing else.
LEMMA ListingIsWhole ==
  ASSUME TypeInv, NEW u \in Uploads
  PROVE  /\ Listing(u) \in Seq(ChunkIds)
         /\ Len(Listing(u)) = Cardinality(RowsOf(u))
         /\ {Listing(u)[i] : i \in 1 .. Len(Listing(u))} = RowsOf(u)
         /\ Listing(u) = <<>> <=> RowsOf(u) = {}
<1> DEFINE found == RowsOf(u)
           n == Cardinality(found)
<1>1. found \subseteq ChunkIds /\ IsFiniteSet(found)
  BY FS_Subset DEF RowsOf, TypeInv, TypeOK
<1>2. \A c : Cardinality(UpTo(u, c)) = Rank(found, c)
  BY DEF UpTo, Rank
<1>3. n \in Nat /\ \A c \in found : Cardinality(UpTo(u, c)) \in 1 .. n
  <2> HIDE DEF found
  <2> QED
    BY <1>1, <1>2, RanksAreOnto
<1>4. \A c, d \in found : Cardinality(UpTo(u, c)) = Cardinality(UpTo(u, d)) => c = d
  <2> HIDE DEF found
  <2> QED
    BY <1>1, <1>2, RanksAreOnto
<1>5. \A i \in 1 .. n : \E c \in found : Cardinality(UpTo(u, c)) = i
  <2> HIDE DEF found
  <2> QED
    BY <1>1, <1>2, RanksAreOnto
<1>6. n \in Nat
  BY <1>3
<1>7. ASSUME NEW i \in 1 .. n PROVE Listing(u)[i] \in found /\ Cardinality(UpTo(u, Listing(u)[i])) = i
  <2>1. \E c \in found : Cardinality(UpTo(u, c)) = i
    BY <1>5
  <2> QED
    BY <2>1 DEF Listing
<1>8. Listing(u) \in [1 .. n -> found]
  BY <1>7 DEF Listing
<1>9. Listing(u) \in Seq(ChunkIds) /\ Len(Listing(u)) = n
  <2> HIDE DEF found, n
  <2> QED
    BY <1>1, <1>6, <1>8
<1>10. ASSUME NEW c \in found PROVE \E i \in 1 .. n : Listing(u)[i] = c
  <2> DEFINE i == Cardinality(UpTo(u, c))
  <2>1. i \in 1 .. n
    BY <1>3
  <2>2. Cardinality(UpTo(u, Listing(u)[i])) = i /\ Listing(u)[i] \in found
    BY <1>7, <2>1
  <2>3. Listing(u)[i] = c
    BY <1>4, <2>2
  <2> QED
    BY <2>1, <2>3
<1>11. Listing(u) = <<>> <=> found = {}
  <2>1. n = 0 <=> found = {}
    BY <1>1, FS_EmptySet
  <2>2. Listing(u) = <<>> <=> Len(Listing(u)) = 0
    <3> HIDE DEF n
    <3> QED
      BY <1>9
  <2> QED
    BY <1>9, <2>1, <2>2
<1> QED
  BY <1>7, <1>9, <1>10, <1>11

\* Whatever the cache holds of a batch, its vectors are those of its texts, in
\* their order.
LEMMA EmbeddedInOrder ==
  ASSUME NEW texts \in Seq(Texts), NEW hits \in SUBSET DOMAIN cached,
         \A t \in DOMAIN cached : cached[t] = t
  PROVE  /\ Embedded(texts, hits) \in Seq(Texts)
         /\ Len(Embedded(texts, hits)) = Len(texts)
         /\ \A i \in 1 .. Len(texts) : Embedded(texts, hits)[i] = texts[i]
<1> DEFINE missed == {i \in 1 .. Len(texts) : texts[i] \notin hits}
           place(i) == Cardinality({j \in missed : j <= i})
           computed == [k \in 1 .. Cardinality(missed) |-> texts[CHOOSE i \in missed : place(i) = k]]
<1>1. missed \in SUBSET Int /\ IsFiniteSet(missed)
  <2>1. IsFiniteSet(1 .. Len(texts))
    BY FS_Interval
  <2> QED
    BY <2>1, FS_Subset
<1>2. ASSUME NEW i \in missed PROVE computed[place(i)] = texts[i]
  <2>1. place(i) \in 1 .. Cardinality(missed)
    <3> DEFINE before == {j \in missed : j <= i}
    <3>1. before \in SUBSET missed /\ i \in before
      BY <1>2
    <3> HIDE DEF before, missed
    <3>2. IsFiniteSet(before) /\ Cardinality(before) <= Cardinality(missed)
      BY <1>1, <3>1, FS_Subset
    <3>3. Cardinality(before) \in Nat /\ Cardinality(before) # 0 /\ Cardinality(missed) \in Nat
      BY <1>1, <3>1, <3>2, FS_CardinalityType, FS_EmptySet
    <3> QED
      BY <3>2, <3>3 DEF before
  <2> DEFINE k == place(i)
             chosen == CHOOSE j \in missed : place(j) = k
  <2>2. chosen \in missed /\ place(chosen) = k
    <3> HIDE DEF place, missed
    <3> QED
      BY <1>2
  <2>3. chosen = i
    <3> HIDE DEF missed, chosen
    <3> QED
      BY <1>1, <1>2, <2>2, SameRank
  <2>4. computed[k] = texts[chosen]
    <3> HIDE DEF place, missed
    <3> QED
      BY <2>1
  <2> QED
    BY <2>3, <2>4
<1>3. \A i \in 1 .. Len(texts) : Embedded(texts, hits)[i] = texts[i]
  <2> SUFFICES ASSUME NEW i \in 1 .. Len(texts) PROVE Embedded(texts, hits)[i] = texts[i]
    OBVIOUS
  <2>1. CASE texts[i] \in hits
    BY <2>1 DEF Embedded
  <2>2. CASE texts[i] \notin hits
    <3>1. Embedded(texts, hits)[i] = computed[place(i)]
      BY <2>2 DEF Embedded
    <3> HIDE DEF computed, place
    <3> QED
      BY <1>2, <2>2, <3>1
  <2> QED
    BY <2>1, <2>2
<1>4. DOMAIN Embedded(texts, hits) = 1 .. Len(texts) /\ Embedded(texts, hits) = [i \in 1 .. Len(texts) |-> Embedded(texts, hits)[i]]
  BY DEF Embedded
<1>5. Embedded(texts, hits) \in [1 .. Len(texts) -> Texts]
  <2> HIDE DEF missed, place, computed
  <2> QED
    BY <1>3, <1>4
<1> QED
  BY <1>3, <1>5

-----------------------------------------------------------------------------
(* Types.                                                                  *)

\* What a step does to the task of one worker.
Puts(w, t) == t \in Tasks /\ TaskShape(t) /\ task' = [task EXCEPT ![w] = t]

LEMMA IdleShape == Idle \in Tasks /\ TaskShape(Idle)
<1>1. <<>> \in Seq(ChunkIds) /\ <<>> \in Seq(Texts) /\ Len(<<>>) = 0
  OBVIOUS
<1> QED
  BY <1>1 DEF Begun, Idle, Tasks, TaskPcs, TaskShape

LEMMA BegunShape ==
  ASSUME NEW u \in Uploads
  PROVE  /\ Begun("load", u, <<>>) \in Tasks /\ TaskShape(Begun("load", u, <<>>))
         /\ \A book \in Books : Begun("delete", u, book) \in Tasks /\ TaskShape(Begun("delete", u, book))
<1>1. <<>> \in Seq(ChunkIds) /\ <<>> \in Seq(Texts) /\ Len(<<>>) = 0
  OBVIOUS
<1>2. Begun("load", u, <<>>) \in Tasks /\ TaskShape(Begun("load", u, <<>>))
  BY <1>1 DEF Begun, Tasks, TaskPcs, TaskShape
<1>3. ASSUME NEW book \in Books
      PROVE  Begun("delete", u, book) \in Tasks /\ TaskShape(Begun("delete", u, book))
  BY <1>1 DEF Begun, Tasks, TaskPcs, TaskShape
<1> QED
  BY <1>2, <1>3

LEMMA PutsType ==
  ASSUME TypeInv, NEW w \in Workers, NEW t, Puts(w, t)
  PROVE  task' \in [Workers -> Tasks] /\ \A v \in Workers : TaskShape(task'[v])
BY DEF Puts, TypeInv, TypeOK

\* The passages of a book are finitely many rows.
LEMMA IdsType ==
  ASSUME NEW book \in Books
  PROVE  IdsOf(book) \in SUBSET ChunkIds /\ IsFiniteSet(IdsOf(book)) /\ IdsOf(book) # {}
<1>1. book \in Seq(Texts) /\ Len(book) \in Nat \ {0}
  BY SizesAssumption
<1>2. IdsOf(book) \in SUBSET ChunkIds
  BY <1>1 DEF IdsOf, ChunkIds
<1>3. IsFiniteSet(IdsOf(book))
  <2> DEFINE f == [i \in 1 .. Len(book) |-> <<i, book[i]>>]
  <2>1. f \in Surjection(1 .. Len(book), IdsOf(book))
    BY DEF Surjection, IdsOf
  <2>2. IsFiniteSet(1 .. Len(book))
    BY <1>1, FS_Interval
  <2> HIDE DEF f
  <2> QED
    BY <2>1, <2>2, FS_Surjection
<1>4. <<1, book[1]>> \in IdsOf(book)
  BY <1>1 DEF IdsOf
<1> QED
  BY <1>2, <1>3, <1>4

LEMMA InsertedType ==
  ASSUME DOMAIN rows \in SUBSET ChunkIds, rows \in [DOMAIN rows -> Uploads], IsFiniteSet(DOMAIN rows),
         NEW u \in Uploads, NEW ids \in SUBSET ChunkIds, IsFiniteSet(ids)
  PROVE  /\ DOMAIN Inserted(u, ids) \in SUBSET ChunkIds
         /\ Inserted(u, ids) \in [DOMAIN Inserted(u, ids) -> Uploads]
         /\ IsFiniteSet(DOMAIN Inserted(u, ids))
<1>1. IsFiniteSet(DOMAIN rows \union ids)
  BY FS_Union
<1> QED
  BY <1>1 DEF Inserted

\* The chunks that one batch upserts, with their vectors.
LEMMA BatchOfTask ==
  ASSUME NEW t \in Tasks, TaskShape(t), t.pc = "upsert"
  PROVE  /\ BatchEnd(t) \in t.done .. Len(t.chunks)
         /\ Len(t.chunks) \in Nat /\ t.done \in Nat
         /\ \A i \in (t.done + 1) .. BatchEnd(t) :
              i \in 1 .. Len(t.chunks) /\ t.chunks[i] \in ChunkIds /\ t.built[i] \in Texts
         /\ t.done + BatchSize >= Len(t.chunks) => BatchEnd(t) = Len(t.chunks)
<1>1. /\ t.chunks \in Seq(ChunkIds) /\ t.built \in Seq(Texts) /\ t.done \in Nat
      /\ Len(t.chunks) \in Nat /\ Len(t.built) = Len(t.chunks) /\ t.done <= Len(t.chunks)
  BY DEF Tasks, TaskShape
<1>2. BatchEnd(t) \in t.done .. Len(t.chunks)
  BY <1>1, SizesAssumption DEF BatchEnd
<1>3. ASSUME NEW i \in (t.done + 1) .. BatchEnd(t)
      PROVE  i \in 1 .. Len(t.chunks) /\ t.chunks[i] \in ChunkIds /\ t.built[i] \in Texts
  <2>1. i \in 1 .. Len(t.chunks) /\ i \in 1 .. Len(t.built)
    BY <1>1, <1>2
  <2> QED
    BY <1>1, <2>1
<1>4. t.done + BatchSize >= Len(t.chunks) => BatchEnd(t) = Len(t.chunks)
  BY <1>1, SizesAssumption DEF BatchEnd
<1> QED
  BY <1>1, <1>2, <1>3, <1>4

LEMMA TypeInit == Init => TypeInv
<1> SUFFICES ASSUME Init PROVE TypeInv
  OBVIOUS
<1>1. IsFiniteSet({})
  BY FS_EmptySet
<1>2. task \in [Workers -> Tasks] /\ \A w \in Workers : TaskShape(task[w])
  BY IdleShape DEF Init
<1>3. health \in Reports
  BY DEF Init, NoReport, Reports
<1>4. DOMAIN rows = {} /\ DOMAIN points = {} /\ DOMAIN cached = {}
  BY DEF Init
<1>5. /\ rows \in [DOMAIN rows -> Uploads]
      /\ points \in [DOMAIN points -> [upload : Uploads, vector : Texts]]
      /\ cached \in [DOMAIN cached -> Texts]
  BY <1>4 DEF Init
<1>6. fresh \subseteq Uploads /\ mixed \subseteq Uploads /\ raced \in BOOLEAN
  BY DEF Init
<1>7. started \in 0 .. MaxTasks /\ faults \in 0 .. MaxFaults
  <2>1. started = 0 /\ faults = 0
    BY DEF Init
  <2> QED
    BY <2>1, SizesAssumption
<1>8. health.seen = {}
  BY DEF Init, NoReport
<1> QED
  BY <1>1, <1>2, <1>3, <1>4, <1>5, <1>6, <1>7, <1>8 DEF TypeInv, TypeOK

LEMMA ChunkingType ==
  ASSUME TypeInv, NEW w \in Workers, NEW u \in Uploads,
         StartChunking(w, u) \/ DeleteRows(w) \/ InsertRows(w)
  PROVE  TypeInv'
<1> USE DEF TypeInv, TypeOK
<1>1. CASE StartChunking(w, u)
  <2>1. PICK book \in Books : task' = [task EXCEPT ![w] = Begun("delete", u, book)]
    BY <1>1 DEF StartChunking
  <2>2. Puts(w, Begun("delete", u, book))
    BY <2>1, BegunShape DEF Puts
  <2>3. mixed' \subseteq Uploads /\ started' \in 0 .. MaxTasks
    BY <1>1, SizesAssumption DEF StartChunking
  <2>4. UNCHANGED <<rows, points, cached, fresh, raced, health, faults>>
    BY <1>1 DEF StartChunking
  <2> QED
    BY <2>2, <2>3, <2>4, PutsType
<1>2. CASE DeleteRows(w)
  <2> DEFINE v == task[w].upload
             t == [task[w] EXCEPT !.pc = "insert"]
  <2>1. task[w] \in Tasks /\ TaskShape(task[w]) /\ task[w].pc = "delete"
    BY <1>2 DEF DeleteRows
  <2>2. Puts(w, t)
    BY <1>2, <2>1 DEF DeleteRows, Puts, Tasks, TaskPcs, TaskShape
  <2>3. /\ DOMAIN rows' \subseteq DOMAIN rows
        /\ rows' \in [DOMAIN rows' -> Uploads]
    BY <1>2 DEF DeleteRows
  <2>4. IsFiniteSet(DOMAIN rows')
    BY <2>3, FS_Subset
  <2>5. /\ health' \in Reports /\ health'.seen = health.seen
        /\ fresh' \subseteq Uploads /\ raced' \in BOOLEAN
    BY <1>2 DEF DeleteRows, RowsChange, Disturb, Reports
  <2>6. UNCHANGED <<points, cached, mixed, started, faults>>
    BY <1>2 DEF DeleteRows
  <2> HIDE DEF t
  <2> QED
    BY <2>2, <2>3, <2>4, <2>5, <2>6, PutsType
<1>3. CASE InsertRows(w)
  <2> DEFINE v == task[w].upload
             ids == IdsOf(task[w].book)
  <2>1. v \in Uploads /\ task[w].book \in Books
    BY <1>3 DEF InsertRows, TaskShape
  <2>2. ids \in SUBSET ChunkIds /\ IsFiniteSet(ids)
    BY <2>1, IdsType
  <2>3. rows' = Inserted(v, ids)
    BY <1>3 DEF InsertRows
  <2>4. DOMAIN rows' \subseteq ChunkIds /\ rows' \in [DOMAIN rows' -> Uploads] /\ IsFiniteSet(DOMAIN rows')
    <3> HIDE DEF v, ids
    <3> QED
      BY <2>1, <2>2, <2>3, InsertedType DEF v
  <2>5. Puts(w, Idle)
    BY <1>3, IdleShape DEF InsertRows, Puts
  <2>6. /\ health' \in Reports /\ health'.seen = health.seen
        /\ fresh' \subseteq Uploads /\ raced' \in BOOLEAN
    BY <1>3 DEF InsertRows, RowsChange, Disturb, Reports
  <2>7. UNCHANGED <<points, cached, mixed, started, faults>>
    BY <1>3 DEF InsertRows
  <2> QED
    BY <2>4, <2>5, <2>6, <2>7, PutsType
<1> QED
  BY <1>1, <1>2, <1>3

LEMMA SliceOfSeq ==
  ASSUME NEW S, NEW s \in Seq(S), NEW m \in 1 .. Len(s), NEW n \in m .. Len(s)
  PROVE  /\ SubSeq(s, m, n) \in Seq(S)
         /\ Len(SubSeq(s, m, n)) = n - m + 1
         /\ \A i \in 1 .. Len(SubSeq(s, m, n)) : SubSeq(s, m, n)[i] = s[m + i - 1]
<1>1. m \in Int /\ n \in Int /\ m <= n
  OBVIOUS
<1>2. \A i \in m .. n : s[i] \in S
  OBVIOUS
<1> QED
  BY <1>1, <1>2, SubSeqProperties

\* One turn of _build_points, with the vectors it makes.
LEMMA BatchOfTexts ==
  ASSUME NEW t \in Tasks, TaskShape(t), t.pc = "embed"
  PROVE  LET upTo == IF Len(t.built) + EmbeddingBatch < Len(t.chunks)
                     THEN Len(t.built) + EmbeddingBatch ELSE Len(t.chunks)
             batch == SubSeq(t.chunks, Len(t.built) + 1, upTo)
             texts == [i \in 1 .. Len(batch) |-> batch[i][2]]
         IN  /\ texts \in Seq(Texts)
             /\ Len(texts) = upTo - Len(t.built)
             /\ upTo \in Len(t.built) + 1 .. Len(t.chunks)
             /\ \A i \in 1 .. Len(texts) : texts[i] = t.chunks[Len(t.built) + i][2]
<1> DEFINE upTo == IF Len(t.built) + EmbeddingBatch < Len(t.chunks)
                   THEN Len(t.built) + EmbeddingBatch ELSE Len(t.chunks)
           batch == SubSeq(t.chunks, Len(t.built) + 1, upTo)
           texts == [i \in 1 .. Len(batch) |-> batch[i][2]]
<1>1. /\ t.chunks \in Seq(ChunkIds) /\ t.built \in Seq(Texts)
      /\ Len(t.chunks) \in Nat /\ Len(t.built) \in Nat /\ Len(t.built) < Len(t.chunks)
  BY DEF Tasks, TaskShape
<1>2. upTo \in Len(t.built) + 1 .. Len(t.chunks)
  BY <1>1, SizesAssumption
<1>3. /\ batch \in Seq(ChunkIds)
      /\ Len(batch) = upTo - Len(t.built)
      /\ \A i \in 1 .. Len(batch) : batch[i] = t.chunks[Len(t.built) + i]
  <2>1. Len(t.built) + 1 \in 1 .. Len(t.chunks) /\ upTo \in Len(t.built) + 1 .. Len(t.chunks)
    BY <1>1, <1>2
  <2> HIDE DEF upTo
  <2>2. /\ batch \in Seq(ChunkIds)
        /\ Len(batch) = upTo - (Len(t.built) + 1) + 1
        /\ \A i \in 1 .. Len(batch) : batch[i] = t.chunks[(Len(t.built) + 1) + i - 1]
    BY <1>1, <2>1, SliceOfSeq
  <2>3. Len(batch) = upTo - Len(t.built)
    BY <1>1, <1>2, <2>2
  <2>4. ASSUME NEW i \in 1 .. Len(batch) PROVE (Len(t.built) + 1) + i - 1 = Len(t.built) + i
    BY <1>1, <1>2, <2>3
  <2> QED
    BY <2>2, <2>3, <2>4
<1>4. ASSUME NEW i \in 1 .. Len(batch) PROVE batch[i][2] \in Texts
  <2> HIDE DEF batch
  <2>1. batch[i] \in ChunkIds
    BY <1>3
  <2> QED
    BY <2>1 DEF ChunkIds
<1>5. texts \in Seq(Texts) /\ Len(texts) = Len(batch)
  <2>1. Len(batch) \in Nat
    BY <1>1, <1>2, <1>3
  <2> HIDE DEF batch
  <2> QED
    BY <1>4, <2>1
<1>6. ASSUME NEW i \in 1 .. Len(texts) PROVE texts[i] = t.chunks[Len(t.built) + i][2]
  <2> HIDE DEF batch
  <2> QED
    BY <1>3, <1>5
<1> HIDE DEF batch, texts, upTo
<1> QED
  BY <1>2, <1>3, <1>5, <1>6 DEF batch, texts, upTo

\* What EmbedBatch leaves behind: vectors of the chunks' own texts, in order.
LEMMA EmbedBatchMakes ==
  ASSUME TypeInv, OwnInv, NEW w \in Workers, EmbedBatch(w)
  PROVE  \E built \in Seq(Texts), pc \in {"embed", "clear"} :
           /\ task' = [task EXCEPT ![w].built = built, ![w].pc = pc]
           /\ Len(task[w].built) < Len(built) /\ Len(built) <= Len(task[w].chunks)
           /\ pc = "clear" <=> Len(built) = Len(task[w].chunks)
           /\ \A i \in 1 .. Len(built) : built[i] = task[w].chunks[i][2]
           /\ DOMAIN cached' \in SUBSET Texts
           /\ cached' = [t \in DOMAIN cached' |-> t]
           /\ faults' \in 0 .. MaxFaults
<1> DEFINE t == task[w]
           upTo == IF Len(t.built) + EmbeddingBatch < Len(t.chunks)
                   THEN Len(t.built) + EmbeddingBatch ELSE Len(t.chunks)
           batch == SubSeq(t.chunks, Len(t.built) + 1, upTo)
           texts == [i \in 1 .. Len(batch) |-> batch[i][2]]
<1>1. t \in Tasks /\ TaskShape(t) /\ t.pc = "embed"
  BY DEF EmbedBatch, TypeInv, TypeOK
<1>2. /\ t.chunks \in Seq(ChunkIds) /\ t.built \in Seq(Texts)
      /\ Len(t.chunks) \in Nat /\ Len(t.built) \in Nat
  BY <1>1 DEF Tasks
<1>3. /\ texts \in Seq(Texts)
      /\ Len(texts) = upTo - Len(t.built)
      /\ upTo \in Len(t.built) + 1 .. Len(t.chunks)
      /\ \A i \in 1 .. Len(texts) : texts[i] = t.chunks[Len(t.built) + i][2]
  BY <1>1, BatchOfTexts
<1>4. PICK up \in BOOLEAN :
        LET vectors == Embedded(texts, IF up THEN DOMAIN cached ELSE {})
            built == t.built \o vectors
        IN  /\ (up \/ faults < MaxFaults)
            /\ faults' = IF up THEN faults ELSE faults + 1
            /\ cached' = IF up THEN Stored(texts, vectors) ELSE cached
            /\ task' = [task EXCEPT ![w].built = built,
                          ![w].pc = IF Len(built) = Len(t.chunks) THEN "clear" ELSE "embed"]
  BY DEF EmbedBatch
<1> HIDE DEF batch, texts, upTo, t
<1> DEFINE vectors == Embedded(texts, IF up THEN DOMAIN cached ELSE {})
           built == t.built \o vectors
           pc == IF Len(built) = Len(t.chunks) THEN "clear" ELSE "embed"
<1>5. /\ vectors \in Seq(Texts) /\ Len(vectors) = Len(texts)
      /\ \A i \in 1 .. Len(texts) : vectors[i] = texts[i]
  <2>1. \A x \in DOMAIN cached : cached[x] = x
    BY DEF OwnInv, VectorsAreTheirOwn
  <2>2. (IF up THEN DOMAIN cached ELSE {}) \in SUBSET DOMAIN cached
    OBVIOUS
  <2> QED
    BY <1>3, <2>1, <2>2, EmbeddedInOrder
<1> HIDE DEF vectors
<1>6. built \in Seq(Texts) /\ Len(built) = upTo
  BY <1>2, <1>3, <1>5
<1>7. ASSUME NEW i \in 1 .. Len(built) PROVE built[i] = t.chunks[i][2]
  <2>1. CASE i <= Len(t.built)
    <3>1. built[i] = t.built[i]
      BY <1>2, <1>5, <2>1
    <3> QED
      BY <1>2, <2>1, <3>1 DEF OwnInv, OwnTask, t
  <2>2. CASE i > Len(t.built)
    <3>1. i - Len(t.built) \in 1 .. Len(texts)
      BY <1>2, <1>3, <1>6, <2>2
    <3>2. built[i] = vectors[i - Len(t.built)]
      BY <1>2, <1>3, <1>5, <1>6, <2>2
    <3>3. built[i] = t.chunks[Len(t.built) + (i - Len(t.built))][2]
      BY <1>3, <1>5, <3>1, <3>2
    <3> QED
      BY <1>2, <3>3
  <2> QED
    BY <1>2, <1>6, <2>1, <2>2
<1>8. DOMAIN cached' \in SUBSET Texts /\ cached' = [x \in DOMAIN cached' |-> x]
  <2>1. DOMAIN cached \in SUBSET Texts /\ cached = [x \in DOMAIN cached |-> x]
    BY DEF OwnInv, VectorsAreTheirOwn, TypeInv, TypeOK
  <2>2. CASE ~up
    BY <1>4, <2>1, <2>2
  <2>3. CASE up
    <3>1. cached' = Stored(texts, vectors)
      BY <1>4, <2>3 DEF vectors
    <3>2. ToSet(texts) = {texts[i] : i \in 1 .. Len(texts)}
      BY <1>3 DEF ToSet
    <3>3. ToSet(texts) \in SUBSET Texts
      BY <1>3, <3>2
    <3>4. ASSUME NEW x \in ToSet(texts) PROVE vectors[CHOOSE i \in 1 .. Len(texts) : texts[i] = x] = x
      BY <1>5, <3>2
    <3> QED
      BY <2>1, <3>1, <3>3, <3>4 DEF Stored
  <2> QED
    BY <2>2, <2>3
<1>9. faults' \in 0 .. MaxFaults
  BY <1>4, SizesAssumption DEF TypeInv, TypeOK
<1>10. task' = [task EXCEPT ![w].built = built, ![w].pc = pc]
  BY <1>4 DEF vectors
<1>11. /\ Len(t.built) < Len(built) /\ Len(built) <= Len(t.chunks)
       /\ pc = "clear" <=> Len(built) = Len(t.chunks)
       /\ pc \in {"embed", "clear"}
  <2> HIDE DEF built
  <2> QED
    BY <1>2, <1>3, <1>6
<1> HIDE DEF built, pc
<1> QED
  BY <1>6, <1>7, <1>8, <1>9, <1>10, <1>11 DEF t

\* One batch of points with their vectors.
LEMMA UpsertMakes ==
  ASSUME TypeInv, NEW w \in Workers, Upsert(w)
  PROVE  LET t == task[w]
             ids == {t.chunks[i] : i \in (t.done + 1) .. BatchEnd(t)}
             last == t.done + BatchSize >= Len(t.chunks)
         IN  /\ ids \in SUBSET ChunkIds /\ IsFiniteSet(ids)
             /\ DOMAIN points' = DOMAIN points \union ids
             /\ \A c \in DOMAIN points \ ids : points'[c] = points[c]
             /\ \A c \in ids : \E i \in (t.done + 1) .. BatchEnd(t) :
                  t.chunks[i] = c /\ points'[c] = [upload |-> t.upload, vector |-> t.built[i]]
             /\ points' = [c \in DOMAIN points' |-> points'[c]]
             /\ Puts(w, IF last THEN Idle ELSE [t EXCEPT !.done = BatchEnd(t)])
             /\ fresh' = IF last THEN fresh \union {t.upload} ELSE fresh
             /\ t.upload \in Uploads
<1> DEFINE t == task[w]
           batch == (t.done + 1) .. BatchEnd(t)
           ids == {t.chunks[i] : i \in batch}
           last == t.done + BatchSize >= Len(t.chunks)
<1>1. t \in Tasks /\ TaskShape(t) /\ t.pc = "upsert" /\ t.upload \in Uploads
  BY DEF Upsert, TypeInv, TypeOK, TaskShape
<1>2. /\ BatchEnd(t) \in t.done .. Len(t.chunks)
      /\ Len(t.chunks) \in Nat /\ t.done \in Nat
      /\ \A i \in batch : i \in 1 .. Len(t.chunks) /\ t.chunks[i] \in ChunkIds /\ t.built[i] \in Texts
  BY <1>1, BatchOfTask
<1>3. ids \in SUBSET ChunkIds
  BY <1>2
<1>4. IsFiniteSet(ids)
  <2> DEFINE f == [i \in batch |-> t.chunks[i]]
  <2>1. f \in Surjection(batch, ids)
    BY DEF Surjection
  <2>2. IsFiniteSet(batch)
    BY <1>2, FS_Interval
  <2> HIDE DEF f, ids, batch
  <2> QED
    BY <2>1, <2>2, FS_Surjection
<1>5. points' = [c \in DOMAIN points \union ids |->
                   IF c \in ids
                     THEN [upload |-> t.upload, vector |-> t.built[CHOOSE i \in batch : t.chunks[i] = c]]
                     ELSE points[c]]
  BY DEF Upsert
<1>6. ASSUME NEW c \in ids
      PROVE  \E i \in batch : t.chunks[i] = c /\ points'[c] = [upload |-> t.upload, vector |-> t.built[i]]
  <2> DEFINE i == CHOOSE i \in batch : t.chunks[i] = c
  <2>1. i \in batch /\ t.chunks[i] = c
    OBVIOUS
  <2>2. points'[c] = [upload |-> t.upload, vector |-> t.built[i]]
    BY <1>5
  <2> HIDE DEF i, batch, t
  <2> QED
    BY <2>1, <2>2
<1>7. /\ DOMAIN points' = DOMAIN points \union ids
      /\ \A c \in DOMAIN points \ ids : points'[c] = points[c]
      /\ points' = [c \in DOMAIN points' |-> points'[c]]
  <2> HIDE DEF ids, batch
  <2> QED
    BY <1>5
<1>8. task' = [task EXCEPT ![w] = IF last THEN Idle ELSE [t EXCEPT !.done = BatchEnd(t)]]
  BY DEF Upsert
<1>9. /\ [t EXCEPT !.done = BatchEnd(t)] \in Tasks
      /\ TaskShape([t EXCEPT !.done = BatchEnd(t)])
  <2>1. BatchEnd(t) \in Nat /\ BatchEnd(t) <= Len(t.chunks)
    BY <1>2
  <2> QED
    BY <1>1, <2>1 DEF Tasks, TaskShape
<1>10. Puts(w, IF last THEN Idle ELSE [t EXCEPT !.done = BatchEnd(t)])
  <2> HIDE DEF last
  <2> QED
    BY <1>8, <1>9, IdleShape DEF Puts
<1>11. fresh' = IF last THEN fresh \union {t.upload} ELSE fresh
  BY DEF Upsert
<1> HIDE DEF t, batch, ids, last
<1> QED
  BY <1>1, <1>3, <1>4, <1>6, <1>7, <1>10, <1>11 DEF t, batch, ids, last

\* The two steps that fill a task, field by field.
LEMMA LoadedFields ==
  ASSUME NEW t \in Tasks, NEW chunks \in Seq(ChunkIds)
  PROVE  LET s == [t EXCEPT !.pc = "embed", !.chunks = chunks]
         IN  /\ s \in Tasks
             /\ s.pc = "embed" /\ s.upload = t.upload /\ s.book = t.book
             /\ s.chunks = chunks /\ s.built = t.built /\ s.done = t.done
BY DEF Tasks, TaskPcs

LEMMA IndexingType ==
  ASSUME TypeInv, OwnInv, NEW w \in Workers, NEW u \in Uploads,
         StartIndexing(w, u) \/ Load(w) \/ EmbedBatch(w) \/ Clear(w) \/ Upsert(w)
  PROVE  TypeInv'
<1> USE DEF TypeInv, TypeOK
<1>1. CASE StartIndexing(w, u)
  <2>1. Puts(w, Begun("load", u, <<>>))
    BY <1>1, BegunShape DEF StartIndexing, Puts
  <2>2. started' \in 0 .. MaxTasks
    BY <1>1, SizesAssumption DEF StartIndexing
  <2>3. UNCHANGED <<rows, points, cached, fresh, mixed, raced, health, faults>>
    BY <1>1 DEF StartIndexing
  <2> QED
    BY <2>1, <2>2, <2>3, PutsType
<1>2. CASE Load(w)
  <2> DEFINE t == task[w]
             chunks == Listing(t.upload)
             loaded == [t EXCEPT !.pc = "embed", !.chunks = chunks]
  <2>1. /\ t \in Tasks /\ TaskShape(t) /\ t.pc = "load" /\ t.upload \in Uploads
    BY <1>2 DEF Load, TaskShape
  <2>2. t.built = <<>> /\ t.chunks = <<>> /\ t.done = 0
    BY <2>1 DEF TaskShape
  <2>3. chunks \in Seq(ChunkIds) /\ Len(chunks) \in Nat /\ (chunks # <<>> => 0 < Len(chunks))
    <3>1. chunks \in Seq(ChunkIds)
      BY <2>1, ListingIsWhole
    <3> HIDE DEF chunks
    <3> QED
      BY <3>1
  <2>4. Puts(w, IF chunks = <<>> THEN Idle ELSE loaded)
    <3>1. task' = [task EXCEPT ![w] = IF chunks = <<>> THEN Idle ELSE loaded]
      BY <1>2 DEF Load
    <3>2. chunks # <<>> => loaded \in Tasks /\ TaskShape(loaded)
      <4>1. /\ loaded \in Tasks
            /\ loaded.pc = "embed" /\ loaded.upload = t.upload /\ loaded.book = t.book
            /\ loaded.chunks = chunks /\ loaded.built = t.built /\ loaded.done = t.done
        BY <2>1, <2>3, LoadedFields
      <4>2. t.book = <<>> /\ Len(<<>>) = 0
        BY <2>1 DEF TaskShape
      <4> HIDE DEF chunks, loaded, t
      <4>3. chunks # <<>> => TaskShape(loaded)
        BY <2>1, <2>2, <2>3, <4>1, <4>2 DEF TaskShape
      <4> QED
        BY <4>1, <4>3
    <3> HIDE DEF loaded, chunks
    <3> QED
      BY <3>1, <3>2, IdleShape DEF Puts
  <2>5. UNCHANGED <<rows, points, cached, fresh, mixed, raced, health, started, faults>>
    BY <1>2 DEF Load
  <2> HIDE DEF t, chunks, loaded
  <2> QED
    BY <2>4, <2>5, PutsType
<1>3. CASE EmbedBatch(w)
  <2>1. PICK built \in Seq(Texts), pc \in {"embed", "clear"} :
          /\ task' = [task EXCEPT ![w].built = built, ![w].pc = pc]
          /\ Len(task[w].built) < Len(built) /\ Len(built) <= Len(task[w].chunks)
          /\ pc = "clear" <=> Len(built) = Len(task[w].chunks)
          /\ DOMAIN cached' \in SUBSET Texts
          /\ cached' = [t \in DOMAIN cached' |-> t]
          /\ faults' \in 0 .. MaxFaults
    BY <1>3, EmbedBatchMakes
  <2> DEFINE t == [task[w] EXCEPT !.built = built, !.pc = pc]
  <2>2. task[w] \in Tasks /\ TaskShape(task[w]) /\ task[w].pc = "embed"
    BY <1>3 DEF EmbedBatch
  <2>3. t \in Tasks /\ TaskShape(t)
    <3>1. /\ Len(built) \in Nat /\ Len(task[w].chunks) \in Nat
          /\ pc \in TaskPcs /\ pc # "upsert" /\ pc # "idle"
      BY <2>2 DEF Tasks, TaskPcs
    <3>2. /\ t \in Tasks
          /\ t.pc = pc /\ t.upload = task[w].upload /\ t.book = task[w].book
          /\ t.chunks = task[w].chunks /\ t.built = built /\ t.done = task[w].done
      <4>1. task[w] \in Tasks /\ pc \in TaskPcs /\ built \in Seq(Texts)
        BY <2>2, <3>1
      <4>2. t = [task[w] EXCEPT !.built = built, !.pc = pc]
        OBVIOUS
      <4> HIDE DEF t
      <4> QED
        BY ONLY <4>1, <4>2 DEF Tasks
    <3>3. task[w].upload \in Uploads /\ task[w].book = <<>> /\ task[w].done = 0
      BY <2>2 DEF TaskShape
    <3> HIDE DEF t
    <3>4. TaskShape(t)
      BY <2>1, <3>1, <3>2, <3>3 DEF TaskShape
    <3> QED
      BY <3>2, <3>4
  <2>4. Puts(w, t)
    BY <2>1, <2>3 DEF Puts
  <2>5. cached' \in [DOMAIN cached' -> Texts]
    BY <2>1
  <2>6. UNCHANGED <<rows, points, fresh, mixed, raced, health, started>>
    BY <1>3 DEF EmbedBatch
  <2> HIDE DEF t
  <2> QED
    BY <2>1, <2>4, <2>5, <2>6, PutsType
<1>4. CASE Clear(w)
  <2>1. task[w] \in Tasks /\ TaskShape(task[w]) /\ task[w].pc = "clear"
    BY <1>4 DEF Clear
  <2>2. Puts(w, [task[w] EXCEPT !.pc = "upsert"])
    BY <1>4, <2>1 DEF Clear, Puts, Tasks, TaskPcs, TaskShape
  <2>3. /\ DOMAIN points' \subseteq DOMAIN points
        /\ points' \in [DOMAIN points' -> [upload : Uploads, vector : Texts]]
    BY <1>4 DEF Clear
  <2>4. IsFiniteSet(DOMAIN points')
    BY <2>3, FS_Subset
  <2>5. /\ health' \in Reports /\ health'.seen = health.seen
        /\ fresh' \subseteq Uploads /\ raced' \in BOOLEAN
    BY <1>4 DEF Clear, Disturb, Reports
  <2>6. UNCHANGED <<rows, cached, mixed, started, faults>>
    BY <1>4 DEF Clear
  <2> QED
    BY <2>2, <2>3, <2>4, <2>5, <2>6, PutsType
<1>5. CASE Upsert(w)
  <2> DEFINE t == task[w]
             ids == {t.chunks[i] : i \in (t.done + 1) .. BatchEnd(t)}
             last == t.done + BatchSize >= Len(t.chunks)
             next == IF last THEN Idle ELSE [t EXCEPT !.done = BatchEnd(t)]
  <2>1. /\ ids \in SUBSET ChunkIds /\ IsFiniteSet(ids)
        /\ DOMAIN points' = DOMAIN points \union ids
        /\ \A c \in DOMAIN points \ ids : points'[c] = points[c]
        /\ \A c \in ids : \E i \in (t.done + 1) .. BatchEnd(t) :
             t.chunks[i] = c /\ points'[c] = [upload |-> t.upload, vector |-> t.built[i]]
        /\ points' = [c \in DOMAIN points' |-> points'[c]]
        /\ Puts(w, next)
        /\ fresh' = IF last THEN fresh \union {t.upload} ELSE fresh
        /\ t.upload \in Uploads
    BY <1>5, UpsertMakes
  <2>2. \A i \in (t.done + 1) .. BatchEnd(t) : t.built[i] \in Texts
    BY <1>5, BatchOfTask DEF Upsert
  <2>3. IsFiniteSet(DOMAIN points')
    <3>1. IsFiniteSet(DOMAIN points) /\ IsFiniteSet(ids) /\ DOMAIN points' = DOMAIN points \union ids
      BY <2>1
    <3> HIDE DEF ids, TypeInv
    <3> QED
      BY <3>1, FS_Union
  <2>4. points' \in [DOMAIN points' -> [upload : Uploads, vector : Texts]]
    <3>1. ASSUME NEW c \in DOMAIN points' PROVE points'[c] \in [upload : Uploads, vector : Texts]
      <4>1. CASE c \in ids
        <5>1. PICK i \in (t.done + 1) .. BatchEnd(t) :
                points'[c] = [upload |-> t.upload, vector |-> t.built[i]]
          BY <2>1, <4>1
        <5>2. t.built[i] \in Texts /\ t.upload \in Uploads
          BY <2>1, <2>2
        <5> HIDE DEF t
        <5> QED
          BY <5>1, <5>2
      <4>2. CASE c \notin ids
        <5>1. c \in DOMAIN points \ ids
          BY <2>1, <4>2
        <5>2. points[c] \in [upload : Uploads, vector : Texts]
          BY <5>1
        <5> HIDE DEF ids
        <5> QED
          BY <2>1, <5>1, <5>2
      <4> QED
        BY <4>1, <4>2
    <3> HIDE DEF ids
    <3> QED
      BY <2>1, <3>1
  <2>5. health' \in Reports /\ health'.seen = health.seen
    BY <1>5 DEF Upsert, Disturb, Reports
  <2>6. UNCHANGED <<rows, cached, mixed, raced, started, faults>>
    BY <1>5 DEF Upsert
  <2> HIDE DEF t, ids, last, next
  <2> QED
    BY <2>1, <2>3, <2>4, <2>5, <2>6, PutsType
<1> QED
  BY <1>1, <1>2, <1>3, <1>4, <1>5

LEMMA FaultType ==
  ASSUME TypeInv, NEW w \in Workers, Crash(w) \/ Fail(w)
  PROVE  TypeInv'
<1> USE DEF TypeInv, TypeOK
<1>1. CASE Crash(w)
  <2> DEFINE t == task[w]
  <2>1. t.upload \in Uploads /\ (t.book # <<>> => t.book \in Books)
    BY <1>1 DEF Crash, TaskShape, Tasks, TaskPcs
  <2>2. PICK s : Puts(w, s)
    <3>1. CASE t.book = <<>>
      BY <1>1, <2>1, <3>1, BegunShape DEF Crash, Puts
    <3>2. CASE t.book # <<>>
      BY <1>1, <2>1, <3>2, BegunShape DEF Crash, Puts
    <3> QED
      BY <3>1, <3>2
  <2>3. faults' \in 0 .. MaxFaults
    BY <1>1, SizesAssumption DEF Crash
  <2>4. UNCHANGED <<rows, points, cached, fresh, mixed, raced, health, started>>
    BY <1>1 DEF Crash
  <2> HIDE DEF t
  <2> QED
    BY <2>2, <2>3, <2>4, PutsType
<1>2. CASE Fail(w)
  <2>1. Puts(w, Idle)
    BY <1>2, IdleShape DEF Fail, Puts
  <2>2. faults' \in 0 .. MaxFaults /\ fresh' \subseteq Uploads
    BY <1>2, SizesAssumption DEF Fail
  <2>3. UNCHANGED <<rows, points, cached, mixed, raced, health, started>>
    BY <1>2 DEF Fail
  <2> QED
    BY <2>1, <2>2, <2>3, PutsType
<1> QED
  BY <1>1, <1>2

LEMMA ExpireType == TypeInv /\ Expire => TypeInv'
<1> SUFFICES ASSUME TypeInv, Expire PROVE TypeInv'
  OBVIOUS
<1> USE DEF TypeInv, TypeOK
<1>1. faults' \in 0 .. MaxFaults
  BY SizesAssumption DEF Expire
<1>2. DOMAIN cached' \subseteq Texts /\ cached' \in [DOMAIN cached' -> Texts]
  BY DEF Expire
<1>3. UNCHANGED <<rows, points, task, fresh, mixed, raced, health, started>>
  BY DEF Expire
<1> QED
  BY <1>1, <1>2, <1>3

LEMMA HealthType ==
  ASSUME TypeInv, StartHealthCheck \/ Scroll \/ ScrollFails \/ Compare
  PROVE  TypeInv'
<1> USE DEF TypeInv, TypeOK
<1>1. CASE StartHealthCheck
  <2>1. health'.seen = {} /\ health' \in Reports
    BY <1>1 DEF StartHealthCheck, NoReport, Reports
  <2>2. UNCHANGED <<rows, points, cached, task, fresh, mixed, raced, started, faults>>
    BY <1>1 DEF StartHealthCheck
  <2> QED
    BY <2>1, <2>2, FS_EmptySet
<1>2. CASE Scroll
  <2>1. Page(health.after) \in SUBSET ChunkIds
    BY DEF Page
  <2>2. health' \in Reports
    <3>1. CASE health' = [health EXCEPT !.pc = "compare", !.seen = @ \union Page(health.after)]
      BY <2>1, <3>1 DEF Reports
    <3>2. ASSUME NEW last \in Page(health.after),
                 health' = [health EXCEPT !.seen = @ \union Page(health.after), !.after = Place(last)]
          PROVE  health' \in Reports
      <4>1. Place(last) \in Nat
        BY <2>1, PlaceType
      <4> QED
        BY <2>1, <3>2, <4>1 DEF Reports
    <3> QED
      BY <1>2, <3>1, <3>2 DEF Scroll
  <2>3. UNCHANGED <<rows, points, cached, task, fresh, mixed, raced, started, faults>>
    BY <1>2 DEF Scroll
  <2>4. health'.seen = health.seen \union Page(health.after)
    BY <1>2 DEF Scroll, Reports
  <2>5. IsFiniteSet(Page(health.after))
    <3>1. Page(health.after) \in SUBSET DOMAIN points
      BY DEF Page
    <3> QED
      BY <3>1, FS_Subset
  <2> DEFINE page == Page(health.after)
             seen == health.seen
  <2>6. IsFiniteSet(health'.seen)
    <3>1. IsFiniteSet(seen) /\ IsFiniteSet(page)
      BY <2>5
    <3> HIDE DEF page, seen
    <3>2. IsFiniteSet(seen \union page)
      BY <3>1, FS_Union
    <3> QED
      BY <2>4, <3>2 DEF page, seen
  <2> QED
    BY <2>2, <2>3, <2>6
<1>3. CASE ScrollFails
  <2>1. faults' \in 0 .. MaxFaults
    BY <1>3, SizesAssumption DEF ScrollFails
  <2>2. health' \in Reports /\ IsFiniteSet(health'.seen)
    <3>1. health' \in Reports /\ health'.seen = {}
      BY <1>3 DEF ScrollFails, Reports
    <3> QED
      BY <3>1, FS_EmptySet
  <2>3. UNCHANGED <<rows, points, cached, task, fresh, mixed, raced, started>>
    BY <1>3 DEF ScrollFails
  <2> QED
    BY <2>1, <2>2, <2>3
<1>4. CASE Compare
  <2>1. health' \in Reports
    <3> DEFINE orphans == health.seen \ DOMAIN rows
               never == DOMAIN rows \ health.seen
    <3>1. /\ orphans \in SUBSET ChunkIds /\ never \in SUBSET ChunkIds
          /\ IsFiniteSet(orphans) /\ IsFiniteSet(never)
      BY FS_Subset DEF Reports
    <3>2. /\ Listed(orphans) \in SUBSET ChunkIds /\ Cardinality(orphans) \in Nat
          /\ Listed(never) \in SUBSET ChunkIds /\ Cardinality(never) \in Nat
      BY <3>1, ListedIsReported
    <3> QED
      BY <1>4, <3>2 DEF Compare, Reports
  <2>2. UNCHANGED <<rows, points, cached, task, fresh, mixed, raced, started, faults>>
    BY <1>4 DEF Compare
  <2>3. health'.seen = health.seen
    BY <1>4 DEF Compare, Reports
  <2> QED
    BY <2>1, <2>2, <2>3
<1> QED
  BY <1>1, <1>2, <1>3, <1>4

LEMMA TypeStep == TypeInv /\ OwnInv /\ [Next]_vars => TypeInv'
<1> SUFFICES ASSUME TypeInv, OwnInv, [Next]_vars PROVE TypeInv'
  OBVIOUS
<1>1. CASE UNCHANGED vars
  BY <1>1 DEF vars, TypeInv, TypeOK
<1>2. ASSUME NEW w \in Workers, NEW u \in Uploads, StartChunking(w, u) \/ StartIndexing(w, u)
      PROVE  TypeInv'
  BY <1>2, ChunkingType, IndexingType
<1>3. ASSUME NEW w \in Workers,
             \/ DeleteRows(w) \/ InsertRows(w)
             \/ Load(w) \/ EmbedBatch(w) \/ Clear(w) \/ Upsert(w)
      PROVE  TypeInv'
  <2>1. task[w].upload \in Uploads
    BY <1>3 DEF TypeInv, TypeOK, TaskShape, DeleteRows, InsertRows, Load, EmbedBatch, Clear, Upsert
  <2> QED
    BY <1>3, <2>1, ChunkingType, IndexingType
<1>4. ASSUME NEW w \in Workers, Crash(w) \/ Fail(w) PROVE TypeInv'
  BY <1>4, FaultType
<1>5. CASE Expire \/ StartHealthCheck \/ Scroll \/ ScrollFails \/ Compare
  BY <1>5, ExpireType, HealthType
<1> QED
  BY <1>1, <1>2, <1>3, <1>4, <1>5 DEF Next

-----------------------------------------------------------------------------
(* A vector is its own text's.                                             *)

\* A step that puts a task without vectors, or one whose vectors are its
\* chunks', in the place of another.
LEMMA OwnPut ==
  ASSUME TypeInv, OwnInv, NEW w \in Workers, NEW t, OwnTask(t),
         task' = [task EXCEPT ![w] = t]
  PROVE  \A v \in Workers : OwnTask(task'[v])
BY DEF TypeInv, TypeOK, OwnInv

LEMMA OwnEmpty == /\ \A t : t.built = <<>> => OwnTask(t)
                  /\ \A pc, u, book : OwnTask(Begun(pc, u, book))
<1>1. Len(<<>>) = 0 /\ 1 .. 0 = {}
  OBVIOUS
<1> QED
  BY <1>1 DEF OwnTask, Begun

LEMMA OwnTasksStep ==
  ASSUME TypeInv, OwnInv, NEW w \in Workers, NEW u \in Uploads,
         \/ StartChunking(w, u) \/ DeleteRows(w) \/ InsertRows(w)
         \/ StartIndexing(w, u) \/ Load(w) \/ Crash(w) \/ Fail(w)
  PROVE  OwnInv'
<1>1. UNCHANGED <<points, cached>>
  BY DEF StartChunking, DeleteRows, InsertRows, StartIndexing, Load, Crash, Fail
<1>2. VectorsAreTheirOwn'
  BY <1>1 DEF OwnInv, VectorsAreTheirOwn
<1>3. task[w] \in Tasks /\ TaskShape(task[w])
  BY DEF TypeInv, TypeOK
<1>4. PICK t : OwnTask(t) /\ task' = [task EXCEPT ![w] = t]
  <2>1. CASE StartChunking(w, u)
    BY <2>1, OwnEmpty DEF StartChunking
  <2>2. CASE DeleteRows(w)
    <3>1. task' = [task EXCEPT ![w] = [task[w] EXCEPT !.pc = "insert"]]
      BY <2>2 DEF DeleteRows
    <3>2. task[w].built = <<>>
      BY <1>3, <2>2 DEF DeleteRows, TaskShape
    <3>3. [task[w] EXCEPT !.pc = "insert"].built = <<>>
      BY <1>3, <3>2 DEF Tasks
    <3> QED
      BY <3>1, <3>3, OwnEmpty
  <2>3. CASE InsertRows(w)
    BY <2>3, OwnEmpty DEF InsertRows, Idle
  <2>4. CASE StartIndexing(w, u)
    BY <2>4, OwnEmpty DEF StartIndexing
  <2>5. CASE Load(w)
    <3> DEFINE chunks == Listing(task[w].upload)
               loaded == [task[w] EXCEPT !.pc = "embed", !.chunks = chunks]
    <3>1. task' = [task EXCEPT ![w] = IF chunks = <<>> THEN Idle ELSE loaded]
      BY <2>5 DEF Load
    <3>2. loaded.built = <<>>
      BY <1>3, <2>5 DEF Load, TaskShape, Tasks
    <3> HIDE DEF loaded, chunks
    <3> QED
      BY <3>1, <3>2, OwnEmpty DEF Idle
  <2>6. CASE Crash(w)
    BY <2>6, OwnEmpty DEF Crash
  <2>7. CASE Fail(w)
    BY <2>7, OwnEmpty DEF Fail, Idle
  <2> QED
    BY <2>1, <2>2, <2>3, <2>4, <2>5, <2>6, <2>7
<1> QED
  BY <1>2, <1>4, OwnPut DEF OwnInv

LEMMA OwnEmbed == ASSUME TypeInv, OwnInv, NEW w \in Workers, EmbedBatch(w) PROVE OwnInv'
<1>1. PICK built \in Seq(Texts), pc \in {"embed", "clear"} :
        /\ task' = [task EXCEPT ![w].built = built, ![w].pc = pc]
        /\ \A i \in 1 .. Len(built) : built[i] = task[w].chunks[i][2]
        /\ cached' = [t \in DOMAIN cached' |-> t]
  BY EmbedBatchMakes
<1>2. OwnTask([task[w] EXCEPT !.built = built, !.pc = pc])
  <2>1. task[w] \in Tasks
    BY DEF TypeInv, TypeOK
  <2> QED
    BY <1>1, <2>1 DEF OwnTask, Tasks
<1>3. points' = points
  BY DEF EmbedBatch
<1>4. VectorsAreTheirOwn'
  BY <1>1, <1>3 DEF OwnInv, VectorsAreTheirOwn
<1>5. task' = [task EXCEPT ![w] = [task[w] EXCEPT !.built = built, !.pc = pc]]
  BY <1>1 DEF TypeInv, TypeOK
<1> QED
  BY <1>2, <1>4, <1>5, OwnPut DEF OwnInv

LEMMA OwnClear == ASSUME TypeInv, OwnInv, NEW w \in Workers, Clear(w) PROVE OwnInv'
<1>1. VectorsAreTheirOwn'
  BY DEF OwnInv, VectorsAreTheirOwn, Clear
<1>2. OwnTask([task[w] EXCEPT !.pc = "upsert"])
  BY DEF OwnInv, OwnTask, TypeInv, TypeOK, Tasks
<1>3. task' = [task EXCEPT ![w] = [task[w] EXCEPT !.pc = "upsert"]]
  BY DEF Clear
<1> QED
  BY <1>1, <1>2, <1>3, OwnPut DEF OwnInv

LEMMA OwnUpsert == ASSUME TypeInv, OwnInv, NEW w \in Workers, Upsert(w) PROVE OwnInv'
<1> DEFINE t == task[w]
           batch == (t.done + 1) .. BatchEnd(t)
           ids == {t.chunks[i] : i \in batch}
           last == t.done + BatchSize >= Len(t.chunks)
           next == IF last THEN Idle ELSE [t EXCEPT !.done = BatchEnd(t)]
<1>1. /\ DOMAIN points' = DOMAIN points \union ids
      /\ \A c \in DOMAIN points \ ids : points'[c] = points[c]
      /\ \A c \in ids : \E i \in batch :
           t.chunks[i] = c /\ points'[c] = [upload |-> t.upload, vector |-> t.built[i]]
      /\ Puts(w, next)
  BY UpsertMakes
<1>2. t \in Tasks /\ TaskShape(t) /\ t.pc = "upsert"
  BY DEF Upsert, TypeInv, TypeOK
<1>3. ASSUME NEW i \in batch PROVE t.built[i] = t.chunks[i][2]
  <2>1. i \in 1 .. Len(t.chunks)
    BY <1>2, BatchOfTask
  <2>2. i \in 1 .. Len(t.built)
    BY <1>2, <2>1 DEF TaskShape
  <2> QED
    BY <2>2 DEF OwnInv, OwnTask
<1>4. ASSUME NEW c \in DOMAIN points' PROVE points'[c].vector = c[2]
  <2>1. CASE c \in ids
    <3>1. PICK i \in batch :
            t.chunks[i] = c /\ points'[c] = [upload |-> t.upload, vector |-> t.built[i]]
      BY <1>1, <2>1
    <3> QED
      BY <1>3, <3>1
  <2>2. CASE c \notin ids
    <3>1. c \in DOMAIN points \ ids
      BY <1>1, <2>2
    <3>2. points[c].vector = c[2]
      BY <3>1 DEF OwnInv, VectorsAreTheirOwn
    <3> HIDE DEF ids
    <3> QED
      BY <1>1, <3>1, <3>2
  <2> QED
    BY <2>1, <2>2
<1>5. cached' = cached
  BY DEF Upsert
<1>6. VectorsAreTheirOwn'
  BY <1>4, <1>5 DEF OwnInv, VectorsAreTheirOwn
<1>7. OwnTask(next)
  <2>1. OwnTask(Idle)
    BY OwnEmpty DEF Idle
  <2>2. OwnTask([t EXCEPT !.done = BatchEnd(t)])
    BY <1>2 DEF OwnInv, OwnTask, Tasks
  <2> QED
    BY <2>1, <2>2
<1> HIDE DEF next
<1> QED
  BY <1>1, <1>6, <1>7, OwnPut DEF OwnInv, Puts

LEMMA OwnStep == TypeInv /\ OwnInv /\ [Next]_vars => OwnInv'
<1> SUFFICES ASSUME TypeInv, OwnInv, [Next]_vars PROVE OwnInv'
  OBVIOUS
<1>1. CASE UNCHANGED <<points, cached, task>>
  BY <1>1 DEF OwnInv, OwnTask, VectorsAreTheirOwn
<1>2. ASSUME NEW w \in Workers, NEW u \in Uploads, StartChunking(w, u) \/ StartIndexing(w, u)
      PROVE  OwnInv'
  BY <1>2, OwnTasksStep
<1>3. ASSUME NEW w \in Workers,
             DeleteRows(w) \/ InsertRows(w) \/ Load(w) \/ Crash(w) \/ Fail(w)
      PROVE  OwnInv'
  <2>1. task[w].upload \in Uploads
    BY <1>3 DEF TypeInv, TypeOK, TaskShape, Tasks, TaskPcs, DeleteRows, InsertRows, Load, Crash, Fail
  <2> QED
    BY <1>3, <2>1, OwnTasksStep
<1>4. ASSUME NEW w \in Workers, EmbedBatch(w) \/ Clear(w) \/ Upsert(w) PROVE OwnInv'
  BY <1>4, OwnEmbed, OwnClear, OwnUpsert
<1>5. CASE Expire
  <2>1. \A t \in DOMAIN cached' : cached'[t] = t
    BY <1>5 DEF Expire, OwnInv, VectorsAreTheirOwn
  <2> QED
    BY <1>5, <2>1 DEF Expire, OwnInv, OwnTask, VectorsAreTheirOwn
<1>6. CASE StartHealthCheck \/ Scroll \/ ScrollFails \/ Compare
  BY <1>1, <1>6 DEF StartHealthCheck, Scroll, ScrollFails, Compare
<1>7. CASE UNCHANGED vars
  BY <1>1, <1>7 DEF vars
<1> QED
  BY <1>2, <1>3, <1>4, <1>5, <1>6, <1>7 DEF Next

LEMMA OwnInit == Init => OwnInv
<1> SUFFICES ASSUME Init PROVE OwnInv
  OBVIOUS
<1>1. DOMAIN points = {} /\ DOMAIN cached = {}
  BY DEF Init
<1>2. \A w \in Workers : OwnTask(task[w])
  BY OwnEmpty DEF Init, Idle
<1> QED
  BY <1>1, <1>2 DEF OwnInv, VectorsAreTheirOwn

\* Every variable is in its type, and a worker's task holds what its step needs.
THEOREM TypeCorrect == Spec => [](TypeInv /\ OwnInv)
<1>1. Init => TypeInv /\ OwnInv
  BY TypeInit, OwnInit
<1>2. TypeInv /\ OwnInv /\ [Next]_vars => (TypeInv /\ OwnInv)'
  BY TypeStep, OwnStep
<1> QED
  BY <1>1, <1>2, PTL DEF Spec

\* The vector of a point and of a cached text is that of its own text, whatever
\* part of a batch the cache held, whoever filled it meanwhile and wherever a
\* task crashed or failed (CachingEmbedder.embed_batch, _build_points).
THEOREM VectorsAreAlwaysTheirOwn == Spec => []VectorsAreTheirOwn
<1>1. TypeInv /\ OwnInv => VectorsAreTheirOwn
  BY DEF OwnInv
<1> QED
  BY <1>1, TypeCorrect, PTL

-----------------------------------------------------------------------------
(* An upload's rows are one whole book.                                    *)

\* A step that leaves the rows alone and begins no chunking.
LEMMA WholeKept ==
  ASSUME WholeInv, UNCHANGED <<rows, mixed>>,
         \A v \in Workers, u \in Uploads : Chunking(v, u)' => Chunking(v, u),
         \A v \in Workers : task'[v].pc = "insert" =>
           task[v].pc = "insert" /\ task'[v].upload = task[v].upload
  PROVE  WholeInv'
<1> SUFFICES ASSUME NEW u \in Uploads \ mixed
             PROVE  /\ \A v, w \in Workers : Chunking(v, u)' /\ Chunking(w, u)' => v = w
                    /\ \A w \in Workers : task'[w].upload = u /\ task'[w].pc = "insert" => RowsOf(u) = {}
                    /\ RowsOf(u) = {} \/ \E book \in Books : RowsOf(u) = IdsOf(book)
  BY DEF WholeInv, RowsOf
<1> QED
  BY DEF WholeInv

LEMMA WholeStarts ==
  ASSUME TypeInv, WholeInv, NEW w \in Workers, NEW x \in Uploads, StartChunking(w, x)
  PROVE  WholeInv'
<1>1. PICK book \in Books : task' = [task EXCEPT ![w] = Begun("delete", x, book)]
  BY DEF StartChunking
<1>2. /\ task'[w] = Begun("delete", x, book)
      /\ \A v \in Workers \ {w} : task'[v] = task[v]
  BY <1>1 DEF TypeInv, TypeOK
<1>3. task'[w].pc = "delete" /\ task'[w].upload = x
  BY <1>2 DEF Begun
<1>4. mixed' = IF \E v \in Workers \ {w} : Chunking(v, x) THEN mixed \union {x} ELSE mixed
  BY DEF StartChunking
<1>5. rows' = rows
  BY DEF StartChunking
<1> SUFFICES ASSUME NEW u \in Uploads \ mixed'
             PROVE  /\ \A v, s \in Workers : Chunking(v, u)' /\ Chunking(s, u)' => v = s
                    /\ \A v \in Workers : task'[v].upload = u /\ task'[v].pc = "insert" => RowsOf(u) = {}
                    /\ RowsOf(u) = {} \/ \E b \in Books : RowsOf(u) = IdsOf(b)
  BY <1>5 DEF WholeInv, RowsOf
<1>6. u \in Uploads \ mixed
  BY <1>4
<1>7. ASSUME NEW v \in Workers, NEW s \in Workers, Chunking(v, u)', Chunking(s, u)' PROVE v = s
  <2>1. CASE u = x
    <3>1. \A r \in Workers \ {w} : ~Chunking(r, x)
      BY <1>4, <2>1
    <3>2. \A r \in Workers \ {w} : ~Chunking(r, x)'
      BY <1>2, <3>1 DEF Chunking
    <3> QED
      BY <1>7, <2>1, <3>2
  <2>2. CASE u # x
    <3>1. v # w /\ s # w
      BY <1>3, <1>7, <2>2 DEF Chunking
    <3>2. Chunking(v, u) /\ Chunking(s, u)
      BY <1>2, <1>7, <3>1 DEF Chunking
    <3> QED
      BY <1>6, <3>2 DEF WholeInv
  <2> QED
    BY <2>1, <2>2
<1>8. ASSUME NEW v \in Workers, task'[v].upload = u, task'[v].pc = "insert" PROVE RowsOf(u) = {}
  <2>1. v # w
    BY <1>3, <1>8
  <2> QED
    BY <1>2, <1>6, <1>8, <2>1 DEF WholeInv
<1>9. RowsOf(u) = {} \/ \E b \in Books : RowsOf(u) = IdsOf(b)
  BY <1>6 DEF WholeInv
<1> QED
  BY <1>7, <1>8, <1>9

LEMMA RowsDeleted ==
  ASSUME TypeInv, NEW w \in Workers, DeleteRows(w), NEW u \in Uploads
  PROVE  RowsOf(u)' = IF u = task[w].upload THEN {} ELSE RowsOf(u)
BY DEF DeleteRows, RowsOf, TypeInv, TypeOK

LEMMA RowsInserted ==
  ASSUME TypeInv, NEW w \in Workers, InsertRows(w), NEW u \in Uploads
  PROVE  \/ RowsOf(u)' = RowsOf(u)
         \/ u = task[w].upload /\ RowsOf(u)' = RowsOf(u) \union IdsOf(task[w].book)
<1> DEFINE ids == IdsOf(task[w].book)
<1>1. rows' = Inserted(task[w].upload, ids)
  BY DEF InsertRows
<1> HIDE DEF ids
<1>2. CASE ids \intersect DOMAIN rows # {}
  BY <1>1, <1>2 DEF Inserted, RowsOf
<1>3. CASE ids \intersect DOMAIN rows = {}
  <2>1. rows' = [c \in DOMAIN rows \union ids |-> IF c \in ids THEN task[w].upload ELSE rows[c]]
    BY <1>1, <1>3 DEF Inserted
  <2>2. \A c \in DOMAIN rows : rows'[c] = rows[c]
    BY <1>3, <2>1
  <2>3. CASE u = task[w].upload
    <3>1. RowsOf(u)' = RowsOf(u) \union ids
      BY <2>1, <2>2, <2>3 DEF RowsOf
    <3> QED
      BY <2>3, <3>1 DEF ids
  <2>4. CASE u # task[w].upload
    BY <2>1, <2>2, <2>4 DEF RowsOf
  <2> QED
    BY <2>3, <2>4
<1> QED
  BY <1>2, <1>3

LEMMA WholeDeletes ==
  ASSUME TypeInv, WholeInv, NEW w \in Workers, DeleteRows(w)
  PROVE  WholeInv'
<1> DEFINE x == task[w].upload
<1>1. /\ task[w].pc = "delete"
      /\ task'[w].pc = "insert" /\ task'[w].upload = x
      /\ \A v \in Workers \ {w} : task'[v] = task[v]
      /\ mixed' = mixed
  BY DEF DeleteRows, TypeInv, TypeOK, Tasks
<1>2. \A u \in Uploads : RowsOf(u)' = IF u = x THEN {} ELSE RowsOf(u)
  BY RowsDeleted
<1> SUFFICES ASSUME NEW u \in Uploads \ mixed
             PROVE  /\ \A v, s \in Workers : Chunking(v, u)' /\ Chunking(s, u)' => v = s
                    /\ \A v \in Workers : task'[v].upload = u /\ task'[v].pc = "insert" => RowsOf(u)' = {}
                    /\ RowsOf(u)' = {} \/ \E b \in Books : RowsOf(u)' = IdsOf(b)
  BY <1>1 DEF WholeInv
<1>3. \A v \in Workers : Chunking(v, u)' => Chunking(v, u)
  BY <1>1 DEF Chunking, x
<1>4. \A v, s \in Workers : Chunking(v, u) /\ Chunking(s, u) => v = s
  BY DEF WholeInv
<1>5. \A v, s \in Workers : Chunking(v, u)' /\ Chunking(s, u)' => v = s
  BY <1>3, <1>4
<1>6. CASE u = x
  <2>1. RowsOf(u)' = {}
    BY <1>2, <1>6
  <2> QED
    BY <1>5, <2>1
<1>7. CASE u # x
  <2>1. RowsOf(u)' = RowsOf(u)
    BY <1>2, <1>7
  <2>2. ASSUME NEW v \in Workers, task'[v].upload = u, task'[v].pc = "insert" PROVE RowsOf(u)' = {}
    <3>1. v # w
      BY <1>1, <1>7, <2>2
    <3> QED
      BY <1>1, <2>1, <2>2, <3>1 DEF WholeInv
  <2> QED
    BY <1>5, <2>1, <2>2 DEF WholeInv
<1> QED
  BY <1>6, <1>7

LEMMA WholeInserts ==
  ASSUME TypeInv, WholeInv, NEW w \in Workers, InsertRows(w)
  PROVE  WholeInv'
<1> DEFINE x == task[w].upload
           book == task[w].book
<1>1. /\ task[w].pc = "insert" /\ book \in Books
      /\ task'[w].pc = "idle"
      /\ \A v \in Workers \ {w} : task'[v] = task[v]
      /\ mixed' = mixed
  BY DEF InsertRows, TypeInv, TypeOK, Idle, Begun, TaskShape
<1>2. \A u \in Uploads : \/ RowsOf(u)' = RowsOf(u)
                         \/ u = x /\ RowsOf(u)' = RowsOf(u) \union IdsOf(book)
  BY RowsInserted
<1> SUFFICES ASSUME NEW u \in Uploads \ mixed
             PROVE  /\ \A v, s \in Workers : Chunking(v, u)' /\ Chunking(s, u)' => v = s
                    /\ \A v \in Workers : task'[v].upload = u /\ task'[v].pc = "insert" => RowsOf(u)' = {}
                    /\ RowsOf(u)' = {} \/ \E b \in Books : RowsOf(u)' = IdsOf(b)
  BY <1>1 DEF WholeInv
<1>3. \A v \in Workers : Chunking(v, u)' => Chunking(v, u)
  BY <1>1 DEF Chunking
<1>4. \A v, s \in Workers : Chunking(v, u) /\ Chunking(s, u) => v = s
  BY DEF WholeInv
<1>5. \A v, s \in Workers : Chunking(v, u)' /\ Chunking(s, u)' => v = s
  BY <1>3, <1>4
<1>6. CASE u = x
  <2>1. RowsOf(u) = {}
    BY <1>1, <1>6 DEF WholeInv
  <2>2. RowsOf(u)' = {} \/ \E b \in Books : RowsOf(u)' = IdsOf(b)
    <3>1. RowsOf(u)' = {} \/ RowsOf(u)' = IdsOf(book)
      BY <1>2, <1>6, <2>1
    <3> QED
      BY <1>1, <3>1
  <2>3. ASSUME NEW v \in Workers, task'[v].upload = u, task'[v].pc = "insert" PROVE FALSE
    <3>1. v # w
      BY <1>1, <2>3
    <3>2. Chunking(v, u) /\ Chunking(w, u)
      BY <1>1, <1>6, <2>3, <3>1 DEF Chunking
    <3> QED
      BY <1>4, <3>1, <3>2
  <2> QED
    BY <1>5, <2>2, <2>3
<1>7. CASE u # x
  <2>1. RowsOf(u)' = RowsOf(u)
    BY <1>2, <1>7
  <2>2. ASSUME NEW v \in Workers, task'[v].upload = u, task'[v].pc = "insert" PROVE RowsOf(u)' = {}
    <3>1. v # w
      BY <1>1, <2>2
    <3> QED
      BY <1>1, <2>1, <2>2, <3>1 DEF WholeInv
  <2> QED
    BY <1>5, <2>1, <2>2 DEF WholeInv
<1> QED
  BY <1>6, <1>7

\* What a step of an indexing, of a crash or of a failure puts is no chunking
\* that was not there.
LEMMA WholeOther ==
  ASSUME TypeInv, OwnInv, WholeInv, NEW w \in Workers, NEW x \in Uploads,
         \/ StartIndexing(w, x) \/ Load(w) \/ EmbedBatch(w) \/ Clear(w) \/ Upsert(w)
         \/ Crash(w) \/ Fail(w)
  PROVE  WholeInv'
<1>1. UNCHANGED <<rows, mixed>>
  BY DEF StartIndexing, Load, EmbedBatch, Clear, Upsert, Crash, Fail
<1>2. task[w] \in Tasks /\ TaskShape(task[w]) /\ task \in [Workers -> Tasks]
  BY DEF TypeInv, TypeOK
<1>3. /\ \A v \in Workers \ {w} : task'[v] = task[v]
      /\ \/ task'[w].pc \notin {"delete", "insert"}
         \/ /\ task'[w].pc = "delete" /\ task[w].pc \in {"delete", "insert"}
            /\ task'[w].upload = task[w].upload
  <2>1. CASE StartIndexing(w, x)
    BY <1>2, <2>1 DEF StartIndexing, Begun
  <2>2. CASE Load(w)
    <3>1. PICK chunks : task' = [task EXCEPT ![w] = IF chunks = <<>> THEN Idle
                                   ELSE [task[w] EXCEPT !.pc = "embed", !.chunks = chunks]]
      BY <2>2 DEF Load
    <3>2. [task[w] EXCEPT !.pc = "embed", !.chunks = chunks].pc = "embed" /\ Idle.pc = "idle"
      BY <1>2 DEF Idle, Begun, Tasks
    <3> QED
      BY <1>2, <3>1, <3>2
  <2>3. CASE EmbedBatch(w)
    <3>1. PICK built \in Seq(Texts), pc \in {"embed", "clear"} :
            task' = [task EXCEPT ![w].built = built, ![w].pc = pc]
      BY <2>3, EmbedBatchMakes
    <3> QED
      BY <1>2, <3>1 DEF Tasks
  <2>4. CASE Clear(w)
    BY <1>2, <2>4 DEF Clear, Tasks
  <2>5. CASE Upsert(w)
    <3>1. PICK n, b : task' = [task EXCEPT ![w] = IF b THEN Idle ELSE [task[w] EXCEPT !.done = n]]
      BY <2>5 DEF Upsert
    <3>2. [task[w] EXCEPT !.done = n].pc = "upsert" /\ Idle.pc = "idle"
      BY <1>2, <2>5 DEF Upsert, Idle, Begun, Tasks
    <3> QED
      BY <1>2, <3>1, <3>2
  <2>6. CASE Crash(w)
    <3>1. task' = [task EXCEPT ![w] = Begun(IF task[w].book = <<>> THEN "load" ELSE "delete",
                                            task[w].upload, task[w].book)]
      BY <2>6 DEF Crash
    <3>2. task[w].book # <<>> => task[w].pc \in {"delete", "insert"}
      BY <1>2, <2>6 DEF Crash, TaskShape, Tasks, TaskPcs
    <3> QED
      BY <1>2, <3>1, <3>2 DEF Begun
  <2>7. CASE Fail(w)
    BY <1>2, <2>7 DEF Fail, Idle, Begun
  <2> QED
    BY <2>1, <2>2, <2>3, <2>4, <2>5, <2>6, <2>7
<1>4. \A v \in Workers, u \in Uploads : Chunking(v, u)' => Chunking(v, u)
  BY <1>3 DEF Chunking
<1>5. \A v \in Workers : task'[v].pc = "insert" => task[v].pc = "insert" /\ task'[v].upload = task[v].upload
  BY <1>3
<1> QED
  BY <1>1, <1>4, <1>5, WholeKept

LEMMA WholeStep == TypeInv /\ OwnInv /\ WholeInv /\ [Next]_vars => WholeInv'
<1> SUFFICES ASSUME TypeInv, OwnInv, WholeInv, [Next]_vars PROVE WholeInv'
  OBVIOUS
<1>1. CASE UNCHANGED <<rows, mixed, task>>
  BY <1>1 DEF WholeInv, Chunking, RowsOf
<1>2. ASSUME NEW w \in Workers, NEW u \in Uploads, StartChunking(w, u) \/ StartIndexing(w, u)
      PROVE  WholeInv'
  BY <1>2, WholeStarts, WholeOther
<1>3. ASSUME NEW w \in Workers, DeleteRows(w) \/ InsertRows(w) PROVE WholeInv'
  BY <1>3, WholeDeletes, WholeInserts
<1>4. ASSUME NEW w \in Workers,
             Load(w) \/ EmbedBatch(w) \/ Clear(w) \/ Upsert(w) \/ Crash(w) \/ Fail(w)
      PROVE  WholeInv'
  <2>1. task[w].upload \in Uploads
    BY <1>4 DEF TypeInv, TypeOK, TaskShape, Tasks, TaskPcs, Load, EmbedBatch, Clear, Upsert, Crash, Fail
  <2> QED
    BY <1>4, <2>1, WholeOther
<1>5. CASE Expire \/ StartHealthCheck \/ Scroll \/ ScrollFails \/ Compare
  BY <1>1, <1>5 DEF Expire, StartHealthCheck, Scroll, ScrollFails, Compare
<1>6. CASE UNCHANGED vars
  BY <1>1, <1>6 DEF vars
<1> QED
  BY <1>2, <1>3, <1>4, <1>5, <1>6 DEF Next

LEMMA WholeInit == Init => WholeInv
<1> SUFFICES ASSUME Init PROVE WholeInv
  OBVIOUS
<1>1. \A w \in Workers : task[w].pc = "idle"
  BY DEF Init, Idle, Begun
<1>2. \A u \in Uploads : RowsOf(u) = {}
  BY DEF Init, RowsOf
<1> QED
  BY <1>1, <1>2 DEF WholeInv, Chunking

\* An upload's rows are those of one whole book or none, whatever rows of other
\* uploads an insertion runs into and wherever a chunking stops, as long as two
\* chunkings of the upload have not overlapped (save_for_job, chunk_id).
THEOREM RowsAreAlwaysWhole == Spec => []RowsAreWhole
<1>1. Init => TypeInv /\ WholeInv
  BY TypeInit, WholeInit
<1>2. TypeInv /\ OwnInv /\ WholeInv /\ [Next]_vars => WholeInv'
  BY WholeStep
<1>3. WholeInv => RowsAreWhole
  BY DEF WholeInv, RowsAreWhole
<1> QED
  BY <1>1, <1>2, <1>3, TypeCorrect, PTL DEF Spec

-----------------------------------------------------------------------------
(* What was indexed whole is found by exactly its rows.                    *)

\* A step that leaves rows and points alone, after which a worker that holds
\* chunks holds those it held or the present rows, and one that upserts is
\* where it was.
LEMMA IndexKept ==
  ASSUME TypeInv, IndexInv, UNCHANGED <<rows, points, raced>>, fresh' \subseteq fresh,
         \A v \in Workers, u \in Uploads : Holding(v, u)' =>
           \/ Holding(v, u) /\ ChunksOf(task'[v]) = ChunksOf(task[v])
           \/ ChunksOf(task'[v]) = RowsOf(u),
         \A v \in Workers, u \in Uploads : Upserting(v, u)' => task'[v] = task[v]
  PROVE  IndexInv'
<1> SUFFICES ASSUME ~raced PROVE IndexInv'
  BY DEF IndexInv
<1>1. \A u \in Uploads : RowsOf(u)' = RowsOf(u) /\ PointsOf(u)' = PointsOf(u)
  BY DEF RowsOf, PointsOf
<1>2. \A v \in Workers, u \in Uploads : Upserting(v, u)' => Upserting(v, u) /\ task'[v] = task[v]
  BY DEF Upserting
<1>3. \A v \in Workers, u \in Uploads : Holding(v, u)' => ChunksOf(task'[v]) = RowsOf(u)
  BY DEF IndexInv
<1>4. \A v, w \in Workers, u \in Uploads : Upserting(v, u)' /\ Upserting(w, u)' => v = w
  BY <1>2 DEF IndexInv
<1>5. \A v \in Workers, u \in Uploads : Upserting(v, u)' => PointsOf(u) = DoneOf(task'[v])
  BY <1>2 DEF IndexInv
<1>6. \A u \in fresh' : PointsOf(u)' = RowsOf(u)' /\ \A v \in Workers : ~Upserting(v, u)'
  <2> SUFFICES ASSUME NEW u \in fresh'
               PROVE  PointsOf(u)' = RowsOf(u)' /\ \A v \in Workers : ~Upserting(v, u)'
    OBVIOUS
  <2>1. PointsOf(u)' = RowsOf(u)'
    BY DEF IndexInv, PointsOf, RowsOf
  <2>2. u \in Uploads /\ \A v \in Workers : ~Upserting(v, u)
    BY DEF IndexInv, TypeInv, TypeOK
  <2>3. \A v \in Workers : Upserting(v, u)' => Upserting(v, u)
    BY <1>2, <2>2
  <2> QED
    BY <2>1, <2>2, <2>3
<1> QED
  BY <1>1, <1>3, <1>4, <1>5, <1>6 DEF IndexInv

\* A change of one upload's rows under no indexing of it.
LEMMA IndexRows ==
  ASSUME TypeInv, IndexInv, NEW w \in Workers, DeleteRows(w) \/ InsertRows(w)
  PROVE  IndexInv'
<1> DEFINE x == task[w].upload
<1>1. /\ points' = points
      /\ fresh' = fresh \ {x}
      /\ raced' = (raced \/ \E v \in Workers : Holding(v, x))
      /\ task'[w].pc \in {"insert", "idle"}
      /\ \A v \in Workers \ {w} : task'[v] = task[v]
  BY DEF DeleteRows, InsertRows, RowsChange, TypeInv, TypeOK, Tasks, Idle, Begun
<1>2. \A u \in Uploads : u # x => RowsOf(u)' = RowsOf(u)
  BY RowsDeleted, RowsInserted
<1> SUFFICES ASSUME ~raced' PROVE IndexInv'
  BY DEF IndexInv
<1>3. ~raced /\ \A v \in Workers : ~Holding(v, x)
  BY <1>1
<1> HIDE DEF x
<1>4. \A v \in Workers, u \in Uploads : Holding(v, u)' => u # x /\ Holding(v, u) /\ task'[v] = task[v]
  BY <1>1, <1>3 DEF Holding
<1>5. \A v \in Workers, u \in Uploads : Upserting(v, u)' => u # x /\ Upserting(v, u) /\ task'[v] = task[v]
  BY <1>1, <1>3 DEF Holding, Upserting
<1>6. \A u : PointsOf(u)' = PointsOf(u)
  BY <1>1 DEF PointsOf
<1>7. \A v \in Workers, u \in Uploads : Holding(v, u)' => ChunksOf(task'[v]) = RowsOf(u)'
  BY <1>2, <1>3, <1>4 DEF IndexInv
<1>8. \A v, s \in Workers, u \in Uploads : Upserting(v, u)' /\ Upserting(s, u)' => v = s
  BY <1>3, <1>5 DEF IndexInv
<1>9. \A v \in Workers, u \in Uploads : Upserting(v, u)' => PointsOf(u)' = DoneOf(task'[v])
  BY <1>3, <1>5, <1>6 DEF IndexInv
<1>10. \A u \in fresh' : PointsOf(u)' = RowsOf(u)' /\ \A v \in Workers : ~Upserting(v, u)'
  <2> SUFFICES ASSUME NEW u \in fresh'
               PROVE  PointsOf(u)' = RowsOf(u)' /\ \A v \in Workers : ~Upserting(v, u)'
    OBVIOUS
  <2>1. u \in fresh /\ u # x /\ u \in Uploads
    BY <1>1 DEF TypeInv, TypeOK
  <2> QED
    BY <1>2, <1>3, <1>5, <1>6, <2>1 DEF IndexInv
<1> QED
  BY <1>7, <1>8, <1>9, <1>10 DEF IndexInv

LEMMA IndexTasks ==
  ASSUME TypeInv, OwnInv, IndexInv, NEW w \in Workers, NEW x \in Uploads,
         \/ StartChunking(w, x) \/ StartIndexing(w, x) \/ Load(w) \/ EmbedBatch(w)
         \/ Crash(w) \/ Fail(w)
  PROVE  IndexInv'
<1>1. UNCHANGED <<rows, points, raced>> /\ fresh' \subseteq fresh
  BY DEF StartChunking, StartIndexing, Load, EmbedBatch, Crash, Fail
<1>2. task[w] \in Tasks /\ TaskShape(task[w]) /\ task \in [Workers -> Tasks]
  BY DEF TypeInv, TypeOK
<1>3. /\ \A v \in Workers \ {w} : task'[v] = task[v]
      /\ \/ task'[w].pc \in {"idle", "delete", "load"}
         \/ /\ task'[w].pc \in {"embed", "clear"}
            /\ task'[w].upload = task[w].upload
            /\ \/ task[w].pc = "embed" /\ task'[w].chunks = task[w].chunks
               \/ task[w].upload \in Uploads /\ ChunksOf(task'[w]) = RowsOf(task[w].upload)
  <2>1. CASE StartChunking(w, x)
    BY <1>2, <2>1 DEF StartChunking, Begun
  <2>2. CASE StartIndexing(w, x)
    BY <1>2, <2>2 DEF StartIndexing, Begun
  <2>3. CASE Load(w)
    <3> DEFINE t == task[w]
               chunks == Listing(t.upload)
               loaded == [t EXCEPT !.pc = "embed", !.chunks = chunks]
    <3>1. t.upload \in Uploads
      BY <1>2, <2>3 DEF Load, TaskShape
    <3>2. /\ chunks \in Seq(ChunkIds)
          /\ {chunks[i] : i \in 1 .. Len(chunks)} = RowsOf(t.upload)
      BY <3>1, ListingIsWhole
    <3>3. task' = [task EXCEPT ![w] = IF chunks = <<>> THEN Idle ELSE loaded]
      BY <2>3 DEF Load
    <3>4. loaded.pc = "embed" /\ loaded.upload = t.upload /\ loaded.chunks = chunks
      BY <1>2, <3>2, LoadedFields
    <3>5. ChunksOf(loaded) = RowsOf(t.upload)
      BY <3>2, <3>4 DEF ChunksOf
    <3>6. Idle.pc = "idle"
      BY DEF Idle, Begun
    <3> HIDE DEF chunks, loaded
    <3> QED
      BY <1>2, <3>1, <3>3, <3>4, <3>5, <3>6
  <2>4. CASE EmbedBatch(w)
    <3>1. PICK built \in Seq(Texts), pc \in {"embed", "clear"} :
            task' = [task EXCEPT ![w].built = built, ![w].pc = pc]
      BY <2>4, EmbedBatchMakes
    <3>2. task[w].pc = "embed"
      BY <2>4 DEF EmbedBatch
    <3> QED
      BY <1>2, <3>1, <3>2 DEF Tasks
  <2>5. CASE Crash(w)
    BY <1>2, <2>5 DEF Crash, Begun
  <2>6. CASE Fail(w)
    BY <1>2, <2>6 DEF Fail, Idle, Begun
  <2> QED
    BY <2>1, <2>2, <2>3, <2>4, <2>5, <2>6
<1>4. ASSUME NEW v \in Workers, NEW u \in Uploads, Holding(v, u)'
      PROVE  \/ Holding(v, u) /\ ChunksOf(task'[v]) = ChunksOf(task[v])
             \/ ChunksOf(task'[v]) = RowsOf(u)
  BY <1>3, <1>4 DEF Holding, ChunksOf
<1>5. ASSUME NEW v \in Workers, NEW u \in Uploads, Upserting(v, u)' PROVE task'[v] = task[v]
  BY <1>3, <1>5 DEF Upserting
<1> QED
  BY <1>1, <1>4, <1>5, IndexKept

LEMMA IndexClear ==
  ASSUME TypeInv, IndexInv, NEW w \in Workers, Clear(w)
  PROVE  IndexInv'
<1> DEFINE x == task[w].upload
<1>1. /\ task[w] \in Tasks /\ TaskShape(task[w]) /\ task[w].pc = "clear"
      /\ task[w].done = 0 /\ x \in Uploads
  BY DEF Clear, TypeInv, TypeOK, TaskShape
<1>2. /\ points' = [c \in DOMAIN points \ PointsOf(x) |-> points[c]]
      /\ rows' = rows
      /\ fresh' = fresh \ {x}
      /\ raced' = (raced \/ \E v \in Workers : task[v].upload = x /\ task[v].pc = "upsert")
      /\ \A v \in Workers \ {w} : task'[v] = task[v]
  BY DEF Clear, TypeInv, TypeOK
<1>3. /\ task'[w].pc = "upsert" /\ task'[w].upload = x /\ task'[w].done = 0
      /\ task'[w].chunks = task[w].chunks
  BY <1>1 DEF Clear, TypeInv, TypeOK, Tasks
<1>4. \A u \in Uploads : /\ RowsOf(u)' = RowsOf(u)
                         /\ PointsOf(u)' = IF u = x THEN {} ELSE PointsOf(u)
  BY <1>2 DEF RowsOf, PointsOf
<1> HIDE DEF x
<1> SUFFICES ASSUME ~raced' PROVE IndexInv'
  BY DEF IndexInv
<1>5. ~raced /\ \A v \in Workers : ~Upserting(v, x)
  BY <1>2 DEF Upserting
<1>6. \A v \in Workers, u \in Uploads :
        Holding(v, u)' => Holding(v, u) /\ ChunksOf(task'[v]) = ChunksOf(task[v])
  BY <1>1, <1>2, <1>3 DEF Holding, ChunksOf, x
<1>7. \A v \in Workers, u \in Uploads :
        Upserting(v, u)' => \/ v = w /\ u = x
                            \/ v # w /\ u # x /\ Upserting(v, u) /\ task'[v] = task[v]
  BY <1>2, <1>3, <1>5 DEF Upserting
<1>8. \A v \in Workers, u \in Uploads : Holding(v, u)' => ChunksOf(task'[v]) = RowsOf(u)'
  BY <1>4, <1>5, <1>6 DEF IndexInv
<1>9. \A v, s \in Workers, u \in Uploads : Upserting(v, u)' /\ Upserting(s, u)' => v = s
  BY <1>5, <1>7 DEF IndexInv
<1>10. \A v \in Workers, u \in Uploads : Upserting(v, u)' => PointsOf(u)' = DoneOf(task'[v])
  <2>1. DoneOf(task'[w]) = {}
    BY <1>3 DEF DoneOf
  <2> QED
    BY <1>4, <1>5, <1>7, <2>1 DEF IndexInv
<1>11. \A u \in fresh' : PointsOf(u)' = RowsOf(u)' /\ \A v \in Workers : ~Upserting(v, u)'
  <2> SUFFICES ASSUME NEW u \in fresh'
               PROVE  PointsOf(u)' = RowsOf(u)' /\ \A v \in Workers : ~Upserting(v, u)'
    OBVIOUS
  <2>1. u \in fresh /\ u # x /\ u \in Uploads
    BY <1>2 DEF TypeInv, TypeOK
  <2> QED
    BY <1>4, <1>5, <1>7, <2>1 DEF IndexInv
<1> QED
  BY <1>8, <1>9, <1>10, <1>11 DEF IndexInv

LEMMA IndexUpsert ==
  ASSUME TypeInv, IndexInv, NEW w \in Workers, Upsert(w)
  PROVE  IndexInv'
<1> DEFINE t == task[w]
           x == t.upload
           ids == {t.chunks[i] : i \in (t.done + 1) .. BatchEnd(t)}
           last == t.done + BatchSize >= Len(t.chunks)
           next == IF last THEN Idle ELSE [t EXCEPT !.done = BatchEnd(t)]
<1>1. /\ t \in Tasks /\ TaskShape(t) /\ t.pc = "upsert"
      /\ rows' = rows /\ raced' = raced
  BY DEF Upsert, TypeInv, TypeOK
<1>2. /\ DOMAIN points' = DOMAIN points \union ids
      /\ \A c \in DOMAIN points \ ids : points'[c] = points[c]
      /\ \A c \in ids : \E i \in (t.done + 1) .. BatchEnd(t) :
           t.chunks[i] = c /\ points'[c] = [upload |-> x, vector |-> t.built[i]]
      /\ Puts(w, next)
      /\ fresh' = IF last THEN fresh \union {x} ELSE fresh
      /\ x \in Uploads
  BY UpsertMakes
<1>3. /\ BatchEnd(t) \in t.done .. Len(t.chunks)
      /\ Len(t.chunks) \in Nat /\ t.done \in Nat
      /\ last => BatchEnd(t) = Len(t.chunks)
  BY <1>1, BatchOfTask
<1>4. /\ last => task'[w].pc = "idle"
      /\ ~last => /\ task'[w].pc = "upsert" /\ task'[w].upload = x
                  /\ task'[w].chunks = t.chunks /\ task'[w].done = BatchEnd(t)
      /\ \A v \in Workers \ {w} : task'[v] = task[v]
  <2>1. /\ [t EXCEPT !.done = BatchEnd(t)].pc = "upsert" /\ [t EXCEPT !.done = BatchEnd(t)].upload = x
        /\ [t EXCEPT !.done = BatchEnd(t)].chunks = t.chunks
        /\ [t EXCEPT !.done = BatchEnd(t)].done = BatchEnd(t)
    BY <1>1 DEF Tasks
  <2>2. task' = [task EXCEPT ![w] = next] /\ Idle.pc = "idle"
    BY <1>2 DEF Puts, Idle, Begun
  <2>3. task \in [Workers -> Tasks]
    BY DEF TypeInv, TypeOK
  <2> HIDE DEF last, x
  <2> QED
    BY <2>1, <2>2, <2>3
<1> SUFFICES ASSUME ~raced PROVE IndexInv'
  BY <1>1 DEF IndexInv
<1>5. Upserting(w, x) /\ Holding(w, x)
  BY <1>1 DEF Upserting, Holding
<1>6. ChunksOf(t) = RowsOf(x) /\ PointsOf(x) = DoneOf(t) /\ x \notin fresh
  BY <1>2, <1>5 DEF IndexInv
<1>7. /\ DoneOf(t) \union ids = {t.chunks[i] : i \in 1 .. BatchEnd(t)}
      /\ ids \subseteq RowsOf(x)
      /\ last => DoneOf(t) \union ids = RowsOf(x)
  <2>1. \A i : i \in 1 .. BatchEnd(t) <=> i \in 1 .. t.done \/ i \in (t.done + 1) .. BatchEnd(t)
    BY <1>3
  <2>2. \A i \in (t.done + 1) .. BatchEnd(t) : i \in 1 .. Len(t.chunks)
    BY <1>3
  <2>3. DoneOf(t) \union ids = {t.chunks[i] : i \in 1 .. BatchEnd(t)}
    <3> HIDE DEF t
    <3> QED
      BY <2>1 DEF DoneOf
  <2>4. ids \subseteq ChunksOf(t)
    <3> HIDE DEF t
    <3> QED
      BY <2>2 DEF ChunksOf
  <2>5. last => {t.chunks[i] : i \in 1 .. BatchEnd(t)} = ChunksOf(t)
    BY <1>3 DEF ChunksOf
  <2> QED
    BY <1>6, <2>3, <2>4, <2>5
<1> HIDE DEF ids, next
<1>8. \A c \in ids : points'[c].upload = x
  BY <1>2
<1>9. ASSUME NEW u \in Uploads
      PROVE  RowsOf(u)' = RowsOf(u) /\ (u = x => PointsOf(u)' = DoneOf(t) \union ids)
  <2>1. RowsOf(u)' = RowsOf(u)
    BY <1>1 DEF RowsOf
  <2>2. CASE u = x
    <3>1. PointsOf(u) = DoneOf(t)
      BY <1>6, <2>2
    <3>2. \A c : c \in DOMAIN points' /\ points'[c].upload = u <=> c \in PointsOf(u) \union ids
      BY <1>2, <1>8, <2>2 DEF PointsOf
    <3>3. PointsOf(u)' = {c \in DOMAIN points' : points'[c].upload = u}
      BY DEF PointsOf
    <3> HIDE DEF t
    <3>4. PointsOf(u)' = PointsOf(u) \union ids
      BY <3>2, <3>3
    <3> QED
      BY <2>1, <3>1, <3>4
  <2> QED
    BY <2>1, <2>2
<1>10. ASSUME NEW u \in Uploads, u # x, PointsOf(u) \subseteq RowsOf(u)
       PROVE  PointsOf(u)' = PointsOf(u)
  <2>1. ids \intersect PointsOf(u) = {}
    BY <1>7, <1>10 DEF RowsOf
  <2>2. PointsOf(u)' = {c \in DOMAIN points' : points'[c].upload = u}
    BY DEF PointsOf
  <2>3. \A c : c \in DOMAIN points' /\ points'[c].upload = u <=> c \in PointsOf(u)
    BY <1>2, <1>8, <1>10, <2>1 DEF PointsOf
  <2> QED
    BY <2>2, <2>3
<1>11. ASSUME NEW v \in Workers, NEW u \in Uploads, Upserting(v, u)'
       PROVE  \/ v = w /\ u = x /\ ~last
              \/ v # w /\ u # x /\ Upserting(v, u) /\ task'[v] = task[v]
  <2>1. CASE v = w
    BY <1>4, <1>11, <2>1 DEF Upserting
  <2>2. CASE v # w
    <3>1. task'[v] = task[v] /\ Upserting(v, u)
      BY <1>4, <1>11, <2>2 DEF Upserting
    <3>2. u # x
      BY <1>2, <1>5, <2>2, <3>1 DEF IndexInv
    <3> QED
      BY <2>2, <3>1, <3>2
  <2> QED
    BY <2>1, <2>2
<1>12. ASSUME NEW v \in Workers, NEW u \in Uploads, Holding(v, u)'
       PROVE  ChunksOf(task'[v]) = RowsOf(u)'
  <2>1. Holding(v, u) /\ task'[v].chunks = task[v].chunks
    BY <1>1, <1>4, <1>12 DEF Holding
  <2>2. ChunksOf(task'[v]) = ChunksOf(task[v])
    BY <2>1 DEF ChunksOf
  <2> QED
    BY <1>9, <2>1, <2>2 DEF IndexInv
<1>13. ASSUME NEW v \in Workers, NEW s \in Workers, NEW u \in Uploads, Upserting(v, u)', Upserting(s, u)'
       PROVE  v = s
  <2>1. CASE u = x
    BY <1>11, <1>13, <2>1
  <2>2. CASE u # x
    <3>1. Upserting(v, u) /\ Upserting(s, u)
      BY <1>11, <1>13, <2>2
    <3> QED
      BY <3>1 DEF IndexInv
  <2> QED
    BY <2>1, <2>2
<1>14. ASSUME NEW v \in Workers, NEW u \in Uploads, Upserting(v, u)'
       PROVE  PointsOf(u)' = DoneOf(task'[v])
  <2>1. CASE v = w
    <3>1. u = x /\ ~last
      BY <1>11, <1>14, <2>1
    <3>2. DoneOf(task'[v]) = {t.chunks[i] : i \in 1 .. BatchEnd(t)}
      BY <1>4, <2>1, <3>1 DEF DoneOf
    <3> QED
      BY <1>7, <1>9, <3>1, <3>2
  <2>2. CASE v # w
    <3>1. u # x /\ Upserting(v, u) /\ task'[v] = task[v]
      BY <1>11, <1>14, <2>2
    <3>2. PointsOf(u) = DoneOf(task[v]) /\ ChunksOf(task[v]) = RowsOf(u)
      BY <3>1 DEF IndexInv, Upserting, Holding
    <3>3. DoneOf(task[v]) \subseteq ChunksOf(task[v])
      <4>1. /\ task[v].done \in Nat /\ Len(task[v].chunks) \in Nat
            /\ task[v].done <= Len(task[v].chunks)
        BY DEF TypeInv, TypeOK, TaskShape, Tasks
      <4> QED
        BY <4>1 DEF DoneOf, ChunksOf
    <3> QED
      BY <1>10, <3>1, <3>2, <3>3
  <2> QED
    BY <2>1, <2>2
<1>15. \A u \in fresh' : PointsOf(u)' = RowsOf(u)' /\ \A v \in Workers : ~Upserting(v, u)'
  <2> SUFFICES ASSUME NEW u \in fresh'
               PROVE  PointsOf(u)' = RowsOf(u)' /\ \A v \in Workers : ~Upserting(v, u)'
    OBVIOUS
  <2>1. u \in Uploads
    BY <1>2 DEF TypeInv, TypeOK
  <2>2. CASE u = x
    <3>1. last
      BY <1>2, <1>6, <2>2
    <3> QED
      BY <1>7, <1>9, <1>11, <2>1, <2>2, <3>1
  <2>3. CASE u # x
    <3>1. u \in fresh
      BY <1>2, <2>3
    <3>2. PointsOf(u) = RowsOf(u) /\ \A v \in Workers : ~Upserting(v, u)
      BY <3>1 DEF IndexInv
    <3> QED
      BY <1>9, <1>10, <1>11, <2>1, <2>3, <3>2
  <2> QED
    BY <2>2, <2>3
<1> QED
  BY <1>12, <1>13, <1>14, <1>15 DEF IndexInv

LEMMA IndexStep == TypeInv /\ OwnInv /\ IndexInv /\ [Next]_vars => IndexInv'
<1> SUFFICES ASSUME TypeInv, OwnInv, IndexInv, [Next]_vars PROVE IndexInv'
  OBVIOUS
<1>1. CASE UNCHANGED <<rows, points, task, fresh, raced>>
  BY <1>1 DEF IndexInv, Holding, Upserting, ChunksOf, DoneOf, RowsOf, PointsOf
<1>2. ASSUME NEW w \in Workers, NEW u \in Uploads, StartChunking(w, u) \/ StartIndexing(w, u)
      PROVE  IndexInv'
  BY <1>2, IndexTasks
<1>3. ASSUME NEW w \in Workers, DeleteRows(w) \/ InsertRows(w) \/ Clear(w) \/ Upsert(w)
      PROVE  IndexInv'
  BY <1>3, IndexRows, IndexClear, IndexUpsert
<1>4. ASSUME NEW w \in Workers, Load(w) \/ EmbedBatch(w) \/ Crash(w) \/ Fail(w)
      PROVE  IndexInv'
  <2>1. task[w].upload \in Uploads
    BY <1>4 DEF TypeInv, TypeOK, TaskShape, Tasks, TaskPcs, Load, EmbedBatch, Crash, Fail
  <2> QED
    BY <1>4, <2>1, IndexTasks
<1>5. CASE Expire \/ StartHealthCheck \/ Scroll \/ ScrollFails \/ Compare
  BY <1>1, <1>5 DEF Expire, StartHealthCheck, Scroll, ScrollFails, Compare
<1>6. CASE UNCHANGED vars
  BY <1>1, <1>6 DEF vars
<1> QED
  BY <1>2, <1>3, <1>4, <1>5, <1>6 DEF Next

LEMMA IndexInit == Init => IndexInv
<1> SUFFICES ASSUME Init PROVE IndexInv
  OBVIOUS
<1>1. \A w \in Workers : task[w].pc = "idle"
  BY DEF Init, Idle, Begun
<1>2. fresh = {}
  BY DEF Init
<1> QED
  BY <1>1, <1>2 DEF IndexInv, Holding, Upserting

\* An upload indexed whole since its rows last changed is found by exactly its
\* rows, while later tasks of it run and after they failed or crashed before
\* they cleared its points; unless rows changed under an indexing that held
\* them or two indexings of the upload wrote at once (IndexingRunner.run).
THEOREM IndexIsAlwaysExact == Spec => []IndexIsExact
<1>1. Init => TypeInv /\ IndexInv
  BY TypeInit, IndexInit
<1>2. TypeInv /\ OwnInv /\ IndexInv /\ [Next]_vars => IndexInv'
  BY IndexStep
<1>3. IndexInv => IndexIsExact
  BY DEF IndexInv, IndexIsExact
<1> QED
  BY <1>1, <1>2, <1>3, TypeCorrect, PTL DEF Spec

-----------------------------------------------------------------------------
(* The reconciliation.                                                     *)

\* A page ends where it says: every id up to its last one that lies beyond the
\* offset is on it, and when nothing lies beyond the page it is all there is.
LEMMA PageIsDense ==
  ASSUME TypeInv, NEW from \in Nat, NEW last \in Page(from), NEW c \in DOMAIN points,
         Place(c) > from, Place(c) <= Place(last)
  PROVE  c \in Page(from)
<1> DEFINE rest == {d \in DOMAIN points : Place(d) > from}
           upTo(e) == {d \in rest : Place(d) <= Place(e)}
<1>1. DOMAIN points \subseteq ChunkIds /\ IsFiniteSet(DOMAIN points)
  BY DEF TypeInv, TypeOK
<1>2. last \in rest /\ Cardinality(upTo(last)) <= ScrollLimit
  BY DEF Page
<1>3. upTo(c) \in SUBSET upTo(last)
  BY <1>1, <1>2, PlaceType
<1>4. IsFiniteSet(upTo(last))
  <2>1. upTo(last) \in SUBSET DOMAIN points
    OBVIOUS
  <2> HIDE DEF upTo
  <2> QED
    BY <1>1, <2>1, FS_Subset
<1>5. Cardinality(upTo(c)) <= Cardinality(upTo(last)) /\ IsFiniteSet(upTo(c))
  <2> HIDE DEF upTo
  <2> QED
    BY <1>3, <1>4, FS_Subset
<1>6. Cardinality(upTo(c)) <= ScrollLimit
  <2>1. Cardinality(upTo(c)) \in Nat /\ Cardinality(upTo(last)) \in Nat /\ ScrollLimit \in Nat
    BY <1>4, <1>5, FS_CardinalityType, SizesAssumption
  <2> HIDE DEF upTo
  <2> QED
    BY <1>2, <1>5, <2>1
<1> QED
  BY <1>6 DEF Page

LEMMA ReportScroll == ASSUME TypeInv, ReportInv, Scroll PROVE ReportInv'
<1> DEFINE from == health.after
           page == Page(from)
<1>1. /\ UNCHANGED <<rows, points>> /\ health.pc = "scroll"
      /\ from \in Nat /\ health \in Reports
      /\ DOMAIN points \subseteq ChunkIds
  BY DEF Scroll, TypeInv, TypeOK, Reports
<1>2. \A c \in page : c \in DOMAIN points /\ Place(c) > from
  BY DEF Page
<1> SUFFICES ASSUME health.quiet, ~health.blind PROVE ReportInv'
  BY <1>1 DEF Scroll, ReportInv, Reports
<1>3. health.seen = {c \in DOMAIN points : Place(c) <= from}
  BY <1>1 DEF ReportInv
<1>4. CASE /\ {c \in DOMAIN points : Place(c) > from} \ page = {}
           /\ health' = [health EXCEPT !.pc = "compare", !.seen = @ \union page]
  <2>1. health'.pc = "compare" /\ health'.seen = health.seen \union page
    BY <1>1, <1>4 DEF Reports
  <2>2. health.seen \union page = DOMAIN points
    <3>1. \A c \in DOMAIN points : Place(c) <= from \/ Place(c) > from
      BY <1>1, PlaceType
    <3> HIDE DEF page, from
    <3> QED
      BY <1>2, <1>3, <1>4, <3>1
  <2> QED
    BY <1>1, <2>1, <2>2 DEF ReportInv
<1>5. ASSUME NEW last \in page, \A c \in page : Place(c) <= Place(last),
             health' = [health EXCEPT !.seen = @ \union page, !.after = Place(last)]
      PROVE  ReportInv'
  <2>1. /\ health'.pc = "scroll" /\ health'.seen = health.seen \union page
        /\ health'.after = Place(last)
    BY <1>1, <1>5 DEF Reports
  <2>2. last \in DOMAIN points /\ Place(last) > from /\ Place(last) \in Nat
    BY <1>1, <1>2, PlaceType
  <2>3. \A c \in DOMAIN points : Place(c) > from /\ Place(c) <= Place(last) => c \in page
    BY <1>1, PageIsDense
  <2>4. \A c \in DOMAIN points : Place(c) \in Nat
    BY <1>1, PlaceType
  <2> HIDE DEF page, from
  <2>5. \A c : c \in health.seen \union page <=> c \in DOMAIN points /\ Place(c) <= Place(last)
    BY <1>1, <1>2, <1>3, <1>5, <2>2, <2>3, <2>4
  <2>6. health.seen \union page = {c \in DOMAIN points : Place(c) <= Place(last)}
    BY <2>5
  <2> QED
    BY <1>1, <2>1, <2>6 DEF ReportInv
<1> QED
  BY <1>4, <1>5 DEF Scroll

LEMMA ReportStep == TypeInv /\ ReportInv /\ [Next]_vars => ReportInv'
<1> SUFFICES ASSUME TypeInv, ReportInv, [Next]_vars PROVE ReportInv'
  OBVIOUS
<1>1. CASE UNCHANGED <<rows, points, health>>
  BY <1>1 DEF ReportInv
<1>2. CASE Disturb
  BY <1>2 DEF Disturb, ReportInv, TypeInv, TypeOK, Reports
<1>3. ASSUME NEW w \in Workers, NEW u \in Uploads, StartChunking(w, u) \/ StartIndexing(w, u)
      PROVE  ReportInv'
  BY <1>1, <1>3 DEF StartChunking, StartIndexing
<1>4. ASSUME NEW w \in Workers, DeleteRows(w) \/ InsertRows(w) \/ Clear(w) \/ Upsert(w)
      PROVE  ReportInv'
  BY <1>2, <1>4 DEF DeleteRows, InsertRows, Clear, Upsert
<1>5. ASSUME NEW w \in Workers, Load(w) \/ EmbedBatch(w) \/ Crash(w) \/ Fail(w)
      PROVE  ReportInv'
  BY <1>1, <1>5 DEF Load, EmbedBatch, Crash, Fail
<1>6. CASE Expire
  BY <1>1, <1>6 DEF Expire
<1>7. CASE StartHealthCheck
  <2>1. health'.pc = "scroll" /\ health'.after = 0 /\ health'.seen = {} /\ points' = points
    BY <1>7 DEF StartHealthCheck, NoReport
  <2>2. {c \in DOMAIN points : Place(c) <= 0} = {}
    BY PlaceType DEF TypeInv, TypeOK
  <2> QED
    BY <2>1, <2>2 DEF ReportInv
<1>8. CASE Scroll
  BY <1>8, ReportScroll
<1>9. CASE ScrollFails
  BY <1>9 DEF ScrollFails, ReportInv, TypeInv, TypeOK, Reports
<1>10. CASE Compare
  <2>1. /\ health'.pc = "reported" /\ health'.quiet = health.quiet /\ health'.blind = health.blind
        /\ health'.orphans = Listed(health.seen \ DOMAIN rows)
        /\ health'.orphanCount = Cardinality(health.seen \ DOMAIN rows)
        /\ health'.never = Listed(DOMAIN rows \ health.seen)
        /\ health'.neverCount = Cardinality(DOMAIN rows \ health.seen)
        /\ UNCHANGED <<rows, points>> /\ health.pc = "compare"
    BY <1>10 DEF Compare, TypeInv, TypeOK, Reports
  <2>2. /\ DOMAIN points \ DOMAIN rows \in SUBSET ChunkIds
        /\ DOMAIN rows \ DOMAIN points \in SUBSET ChunkIds
        /\ IsFiniteSet(DOMAIN points \ DOMAIN rows) /\ IsFiniteSet(DOMAIN rows \ DOMAIN points)
    BY FS_Subset DEF TypeInv, TypeOK
  <2>3. /\ Reported(Listed(DOMAIN points \ DOMAIN rows), Cardinality(DOMAIN points \ DOMAIN rows),
                    DOMAIN points \ DOMAIN rows)
        /\ Reported(Listed(DOMAIN rows \ DOMAIN points), Cardinality(DOMAIN rows \ DOMAIN points),
                    DOMAIN rows \ DOMAIN points)
    BY <2>2, ListedIsReported
  <2> QED
    BY <2>1, <2>3 DEF ReportInv
<1>11. CASE UNCHANGED vars
  BY <1>1, <1>11 DEF vars
<1> QED
  BY <1>3, <1>4, <1>5, <1>6, <1>7, <1>8, <1>9, <1>10, <1>11 DEF Next

\* A reconciliation during which nothing changed and Qdrant answered counts
\* exactly the points without a row and the rows without a point, and names only
\* such ones, as many as its limit has room for, for any number of pages of any
\* size (index_health_check, list_point_ids).
THEOREM ReportIsAlwaysTrue == Spec => []ReportIsTrue
<1>1. Init => TypeInv /\ ReportInv
  <2>1. Init => ReportInv
    BY DEF Init, NoReport, ReportInv
  <2> QED
    BY <2>1, TypeInit
<1>2. TypeInv /\ OwnInv /\ ReportInv /\ [Next]_vars => ReportInv'
  BY ReportStep
<1>3. ReportInv => ReportIsTrue
  BY DEF ReportInv, ReportIsTrue
<1> QED
  BY <1>1, <1>2, <1>3, TypeCorrect, PTL DEF Spec

=============================================================================
