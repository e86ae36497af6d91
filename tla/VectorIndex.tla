----------------------------- MODULE VectorIndex -----------------------------
(***************************************************************************)
(* The passages of the whole corpus, kept twice: as rows of the chunks     *)
(* table (ChunkRunner and ChunkRepository) and as points of the Qdrant     *)
(* collection (IndexingRunner, CachingEmbedder and QdrantStore), and the   *)
(* weekly reconciliation of the two (index_health_check).                  *)
(*                                                                         *)
(* IngestionPipeline follows one upload through its stages; here several   *)
(* uploads share one table, one collection and one cache of vectors.  A    *)
(* worker's task that crashes is delivered again and starts over; one that *)
(* fails is dropped.  A text stands for the vector it embeds to, and the   *)
(* pair of an order and a text for the chunk_id and for its point.         *)
(***************************************************************************)
EXTENDS Integers, FiniteSets, SequencesExt

CONSTANTS
  Uploads,         \* the uploads of the corpus
  Workers,         \* the processes that run chunking and indexing tasks
  NumTexts,        \* the texts of passages are 1 .. NumTexts
  Books,           \* what a chunking may make of an upload: sequences of texts
  EmbeddingBatch,  \* embedding_batch_size
  BatchSize,       \* points upserted together
  ScrollLimit,     \* limit of list_point_ids
  ReportLimit,     \* entries that a report names of each kind: [:100]
  MaxTasks,        \* bound: tasks started
  MaxFaults        \* bound: crashes, failures and cache losses

Texts == 1 .. NumTexts

ASSUME SizesAssumption ==
  /\ NumTexts \in Nat \ {0}
  /\ EmbeddingBatch \in Nat \ {0} /\ BatchSize \in Nat \ {0}
  /\ ScrollLimit \in Nat \ {0} /\ ReportLimit \in Nat \ {0}
  /\ MaxTasks \in Nat /\ MaxFaults \in Nat
  /\ Books \subseteq Seq(Texts) \ {<<>>}

VARIABLES
  rows,     \* chunks rows: the upload of each chunk_id, which is the primary key
  points,   \* Qdrant points: the upload and the vector of each point id
  cached,   \* vectors of the embedding cache, by the text that is their key
  task,     \* what each worker does
  fresh,    \* history: uploads whose last whole indexing is of their present rows
  mixed,    \* history: uploads chunked twice at the same time
  raced,    \* history: rows that an indexing had loaded changed under it, or
            \* another indexing of the upload cleared the points it was writing
  health,   \* the reconciliation in progress, or its last report
  started,  \* tasks started
  faults    \* faults that occurred

vars == <<rows, points, cached, task, fresh, mixed, raced, health, started, faults>>

ChunkIds == (Nat \ {0}) \X Texts
\* Their order: of the rows of a job, and of the ids that Qdrant scrolls.
Place(c) == c[1] * (NumTexts + 1) + c[2]
IdsOf(book) == {<<i, book[i]>> : i \in 1 .. Len(book)}
RowsOf(u) == {c \in DOMAIN rows : rows[c] = u}
PointsOf(u) == {c \in DOMAIN points : points[c].upload = u}

TaskPcs == {"idle", "delete", "insert", "load", "embed", "clear", "upsert"}
Begun(pc, u, book) ==
  [pc |-> pc, upload |-> u, book |-> book, chunks |-> <<>>, built |-> <<>>, done |-> 0]
Idle == Begun("idle", "none", <<>>)
Chunking(w, u) == task[w].upload = u /\ task[w].pc \in {"delete", "insert"}
\* An indexing that holds rows it has loaded.
Holding(w, u) == task[w].upload = u /\ task[w].pc \in {"embed", "clear", "upsert"}

NoReport == [pc |-> "idle", after |-> 0, seen |-> {}, quiet |-> TRUE, blind |-> FALSE,
             orphans |-> {}, orphanCount |-> 0, never |-> {}, neverCount |-> 0]

Tasks == [pc : TaskPcs, upload : Uploads \union {Idle.upload}, book : Books \union {<<>>},
          chunks : Seq(ChunkIds), built : Seq(Texts), done : Nat]
Reports == [pc : {"idle", "scroll", "compare", "reported"}, after : Nat, seen : SUBSET ChunkIds,
            quiet : BOOLEAN, blind : BOOLEAN, orphans : SUBSET ChunkIds, orphanCount : Nat,
            never : SUBSET ChunkIds, neverCount : Nat]

TypeOK ==
  /\ DOMAIN rows \subseteq ChunkIds /\ rows \in [DOMAIN rows -> Uploads]
  /\ DOMAIN points \subseteq ChunkIds
  /\ points \in [DOMAIN points -> [upload : Uploads, vector : Texts]]
  /\ DOMAIN cached \subseteq Texts /\ cached \in [DOMAIN cached -> Texts]
  /\ task \in [Workers -> Tasks]
  /\ fresh \subseteq Uploads /\ mixed \subseteq Uploads /\ raced \in BOOLEAN
  /\ health \in Reports
  /\ started \in 0 .. MaxTasks /\ faults \in 0 .. MaxFaults

Init ==
  /\ rows = [c \in {} |-> 0]
  /\ points = [c \in {} |-> 0]
  /\ cached = [t \in {} |-> 0]
  /\ task = [w \in Workers |-> Idle]
  /\ fresh = {} /\ mixed = {} /\ raced = FALSE
  /\ health = NoReport
  /\ started = 0 /\ faults = 0

\* A history variable and the flag of the reconciliation, when u's rows change.
RowsChange(u) ==
  /\ fresh' = fresh \ {u}
  /\ raced' = (raced \/ \E w \in Workers : Holding(w, u))
Disturb == health' = [health EXCEPT !.quiet = FALSE]

-----------------------------------------------------------------------------
(* Chunking: ChunkRunner.run ends with save_for_job.                       *)

StartChunking(w, u) ==
  /\ task[w].pc = "idle" /\ started < MaxTasks
  /\ \E book \in Books : task' = [task EXCEPT ![w] = Begun("delete", u, book)]
  /\ mixed' = IF \E v \in Workers \ {w} : Chunking(v, u) THEN mixed \union {u} ELSE mixed
  /\ started' = started + 1
  /\ UNCHANGED <<rows, points, cached, fresh, raced, health, faults>>

\* delete_for_job commits on its own.
DeleteRows(w) ==
  LET u == task[w].upload IN
  /\ task[w].pc = "delete"
  /\ rows' = [c \in DOMAIN rows \ RowsOf(u) |-> rows[c]]
  /\ task' = [task EXCEPT ![w].pc = "insert"]
  /\ RowsChange(u)
  /\ Disturb
  /\ UNCHANGED <<points, cached, mixed, started, faults>>

\* Mutant: the rows in conflict are skipped and the others are committed.
InsertedApart(u, ids) == [c \in DOMAIN rows \union ids |-> IF c \in DOMAIN rows THEN rows[c] ELSE u]

\* The rows that the insertion of a book's passages commits: all of them, or
\* none when one of them is already there, whoever it belongs to.
Inserted(u, ids) ==
  IF ids \intersect DOMAIN rows # {} THEN rows
  ELSE [c \in DOMAIN rows \union ids |-> IF c \in ids THEN u ELSE rows[c]]

InsertRows(w) ==
  LET u == task[w].upload IN
  /\ task[w].pc = "insert"
  /\ rows' = Inserted(u, IdsOf(task[w].book))
  /\ task' = [task EXCEPT ![w] = Idle]
  /\ RowsChange(u)
  /\ Disturb
  /\ UNCHANGED <<points, cached, mixed, started, faults>>

-----------------------------------------------------------------------------
(* Indexing: IndexingRunner.run.                                           *)

StartIndexing(w, u) ==
  /\ task[w].pc = "idle" /\ started < MaxTasks
  /\ task' = [task EXCEPT ![w] = Begun("load", u, <<>>)]
  /\ started' = started + 1
  /\ UNCHANGED <<rows, points, cached, fresh, mixed, raced, health, faults>>

\* The rows of an upload that come no later than one of them.
UpTo(u, c) == {d \in RowsOf(u) : Place(d) <= Place(c)}

\* list_all_by_job orders by order_index; of two rows with one order the text
\* decides here.
Listing(u) ==
  [i \in 1 .. Cardinality(RowsOf(u)) |-> CHOOSE c \in RowsOf(u) : Cardinality(UpTo(u, c)) = i]

\* Without chunks the task fails.
Load(w) ==
  LET chunks == Listing(task[w].upload) IN
  /\ task[w].pc = "load"
  /\ task' = [task EXCEPT ![w] =
                IF chunks = <<>> THEN Idle ELSE [@ EXCEPT !.pc = "embed", !.chunks = chunks]]
  /\ UNCHANGED <<rows, points, cached, fresh, mixed, raced, health, started, faults>>

\* Mutant: the hits come first and the misses after them.
EmbeddedHitsFirst(texts, hits) ==
  LET vectors == [i \in 1 .. Len(texts) |-> IF texts[i] \in hits THEN cached[texts[i]] ELSE texts[i]]
      isHit(i) == texts[i] \in hits
      places == [i \in 1 .. Len(texts) |-> i]
      order == SelectSeq(places, isHit) \o SelectSeq(places, LAMBDA i : ~isHit(i))
  IN  [i \in 1 .. Len(texts) |-> vectors[order[i]]]

\* CachingEmbedder.embed_batch: the hits keep their places and the misses,
\* computed together, are put into theirs.
Embedded(texts, hits) ==
  LET missed == {i \in 1 .. Len(texts) : texts[i] \notin hits}
      place(i) == Cardinality({j \in missed : j <= i})
      computed == [k \in 1 .. Cardinality(missed) |-> texts[CHOOSE i \in missed : place(i) = k]]
  IN  [i \in 1 .. Len(texts) |->
         IF texts[i] \in hits THEN cached[texts[i]] ELSE computed[place(i)]]

\* What the cache holds after a batch whose misses were all stored.
Stored(texts, vectors) ==
  [t \in DOMAIN cached \union ToSet(texts) |->
     IF t \in DOMAIN cached THEN cached[t]
     ELSE vectors[CHOOSE i \in 1 .. Len(texts) : texts[i] = t]]

\* One turn of _build_points; a cache that is down misses and stores nothing.
EmbedBatch(w) ==
  LET t == task[w]
      batch == SubSeq(t.chunks, Len(t.built) + 1,
                      IF Len(t.built) + EmbeddingBatch < Len(t.chunks)
                      THEN Len(t.built) + EmbeddingBatch ELSE Len(t.chunks))
      texts == [i \in 1 .. Len(batch) |-> batch[i][2]]
  IN /\ t.pc = "embed"
     /\ \E up \in BOOLEAN :
          LET vectors == Embedded(texts, IF up THEN DOMAIN cached ELSE {})
              built == t.built \o vectors
          IN /\ (up \/ faults < MaxFaults)
             /\ faults' = IF up THEN faults ELSE faults + 1
             /\ cached' = IF up THEN Stored(texts, vectors) ELSE cached
             /\ task' = [task EXCEPT ![w].built = built,
                           ![w].pc = IF Len(built) = Len(t.chunks) THEN "clear" ELSE "embed"]
     /\ UNCHANGED <<rows, points, fresh, mixed, raced, health, started>>

\* Mutant: the old points are deleted before anything is embedded.
ClearEarly(w) ==
  /\ task[w].pc \in {"embed", "clear"}
  /\ points' = [c \in DOMAIN points \ PointsOf(task[w].upload) |-> points[c]]
  /\ task' = IF task[w].pc = "clear" THEN [task EXCEPT ![w].pc = "upsert"] ELSE task
  /\ fresh' = IF task[w].pc = "clear" THEN fresh \ {task[w].upload} ELSE fresh
  /\ Disturb
  /\ UNCHANGED <<rows, cached, mixed, raced, started, faults>>

\* delete_by_filter, once every vector is there.
Clear(w) ==
  LET u == task[w].upload IN
  /\ task[w].pc = "clear"
  /\ points' = [c \in DOMAIN points \ PointsOf(u) |-> points[c]]
  /\ task' = [task EXCEPT ![w].pc = "upsert"]
  /\ fresh' = fresh \ {u}
  /\ raced' = (raced \/ \E v \in Workers : task[v].upload = u /\ task[v].pc = "upsert")
  /\ Disturb
  /\ UNCHANGED <<rows, cached, mixed, started, faults>>

\* The last of the points that the batch after done upserts.
BatchEnd(t) ==
  IF t.done + BatchSize <= Len(t.chunks) THEN t.done + BatchSize ELSE Len(t.chunks)

\* One batch and its commit; the last one ends the task.
Upsert(w) ==
  LET t == task[w]
      batch == (t.done + 1) .. BatchEnd(t)
      ids == {t.chunks[i] : i \in batch}
      vector(c) == t.built[CHOOSE i \in batch : t.chunks[i] = c]
      last == t.done + BatchSize >= Len(t.chunks)
  IN /\ t.pc = "upsert"
     /\ points' = [c \in DOMAIN points \union ids |->
                     IF c \in ids THEN [upload |-> t.upload, vector |-> vector(c)]
                     ELSE points[c]]
     /\ task' = [task EXCEPT ![w] = IF last THEN Idle ELSE [t EXCEPT !.done = BatchEnd(t)]]
     /\ fresh' = IF last THEN fresh \union {t.upload} ELSE fresh
     /\ Disturb
     /\ UNCHANGED <<rows, cached, mixed, raced, started, faults>>

-----------------------------------------------------------------------------
(* Faults.                                                                 *)

\* A worker dies: its message is delivered again and the task starts over.
Crash(w) ==
  LET t == task[w] IN
  /\ t.pc # "idle" /\ faults < MaxFaults
  /\ task' = [task EXCEPT ![w] =
                Begun(IF t.book = <<>> THEN "load" ELSE "delete", t.upload, t.book)]
  /\ faults' = faults + 1
  /\ UNCHANGED <<rows, points, cached, fresh, mixed, raced, health, started>>

\* The embedder or Qdrant raises and the retries are spent.
Fail(w) ==
  /\ task[w].pc \in {"embed", "clear", "upsert"} /\ faults < MaxFaults
  /\ task' = [task EXCEPT ![w] = Idle]
  /\ fresh' = IF task[w].pc = "upsert" THEN fresh \ {task[w].upload} ELSE fresh
  /\ faults' = faults + 1
  /\ UNCHANGED <<rows, points, cached, mixed, raced, health, started>>

\* Vectors expire.
Expire ==
  /\ cached # [t \in {} |-> 0] /\ faults < MaxFaults
  /\ \E t \in DOMAIN cached : cached' = [s \in DOMAIN cached \ {t} |-> cached[s]]
  /\ faults' = faults + 1
  /\ UNCHANGED <<rows, points, task, fresh, mixed, raced, health, started>>

-----------------------------------------------------------------------------
(* index_health_check.                                                     *)

StartHealthCheck ==
  /\ health.pc \in {"idle", "reported"}
  /\ health' = [NoReport EXCEPT !.pc = "scroll"]
  /\ UNCHANGED <<rows, points, cached, task, fresh, mixed, raced, started, faults>>

\* The ids that one page of the scroll returns, from an offset on.
Page(from) ==
  LET rest == {c \in DOMAIN points : Place(c) > from} IN
  {c \in rest : Cardinality({d \in rest : Place(d) <= Place(c)}) <= ScrollLimit}

\* Mutant: the first page is taken for the whole collection.
ScrollOnce ==
  /\ health.pc = "scroll"
  /\ health' = [health EXCEPT !.pc = "compare", !.seen = Page(health.after)]
  /\ UNCHANGED <<rows, points, cached, task, fresh, mixed, raced, started, faults>>

Scroll ==
  LET page == Page(health.after)
      rest == {c \in DOMAIN points : Place(c) > health.after} \ page
  IN /\ health.pc = "scroll"
     /\ \/ /\ rest = {}
           /\ health' = [health EXCEPT !.pc = "compare", !.seen = @ \union page]
        \/ \E last \in page :
             /\ rest # {} /\ \A c \in page : Place(c) <= Place(last)
             /\ health' = [health EXCEPT !.seen = @ \union page, !.after = Place(last)]
     /\ UNCHANGED <<rows, points, cached, task, fresh, mixed, raced, started, faults>>

\* Qdrant is unreachable: the report is made as if the collection were empty.
ScrollFails ==
  /\ health.pc = "scroll" /\ faults < MaxFaults
  /\ health' = [health EXCEPT !.pc = "compare", !.seen = {}, !.blind = TRUE]
  /\ faults' = faults + 1
  /\ UNCHANGED <<rows, points, cached, task, fresh, mixed, raced, started>>

\* The entries of a sorted list that the report names: the first ReportLimit.
\* (The code sorts points by their ids and rows by theirs; the order of the
\* places stands for either.)
Listed(found) == {c \in found : Cardinality({d \in found : Place(d) <= Place(c)}) <= ReportLimit}

Compare ==
  LET orphans == health.seen \ DOMAIN rows
      never == DOMAIN rows \ health.seen
  IN /\ health.pc = "compare"
     /\ health' = [health EXCEPT !.pc = "reported",
                     !.orphans = Listed(orphans), !.orphanCount = Cardinality(orphans),
                     !.never = Listed(never), !.neverCount = Cardinality(never)]
     /\ UNCHANGED <<rows, points, cached, task, fresh, mixed, raced, started, faults>>

Next ==
  \/ \E w \in Workers :
       \/ \E u \in Uploads : StartChunking(w, u) \/ StartIndexing(w, u)
       \/ DeleteRows(w) \/ InsertRows(w)
       \/ Load(w) \/ EmbedBatch(w) \/ Clear(w) \/ Upsert(w)
       \/ Crash(w) \/ Fail(w)
  \/ Expire
  \/ StartHealthCheck \/ Scroll \/ ScrollFails \/ Compare

Spec == Init /\ [][Next]_vars

-----------------------------------------------------------------------------
(* Properties.                                                             *)

\* A vector is searched for its own text and cached under it, however the cache
\* and the batches were mixed and whatever crashed (CachingEmbedder.embed_batch,
\* _build_points).
VectorsAreTheirOwn ==
  /\ \A c \in DOMAIN points : points[c].vector = c[2]
  /\ \A t \in DOMAIN cached : cached[t] = t

\* An upload that was indexed whole since its rows last changed is found by
\* exactly its rows, while later indexings of it load and embed and even after
\* one that failed to embed; unless two tasks of one upload raced
\* (IndexingRunner.run).
IndexIsExact ==
  ~raced => \A u \in fresh : PointsOf(u) = RowsOf(u)

\* Two uploads that share a passage at the same place cannot both have it: the
\* second is refused whole, and no upload is left with a part of a book unless
\* two chunkings of it overlapped (save_for_job, chunk_id).
RowsAreWhole ==
  \A u \in Uploads \ mixed : RowsOf(u) = {} \/ \E book \in Books : RowsOf(u) = IdsOf(book)

\* A report counts what it found and names as many of it as it has room for.
Reported(listed, count, found) ==
  /\ count = Cardinality(found)
  /\ listed \subseteq found
  /\ Cardinality(listed) = IF count <= ReportLimit THEN count ELSE ReportLimit

\* A report made while nothing changed and Qdrant answered counts exactly the
\* points without a row and the rows without a point, however many pages the
\* scroll took, and names only such points and rows: all of them up to the limit
\* of the report, and that many of them beyond it (index_health_check).
ReportIsTrue ==
  health.pc = "reported" /\ health.quiet /\ ~health.blind =>
    /\ Reported(health.orphans, health.orphanCount, DOMAIN points \ DOMAIN rows)
    /\ Reported(health.never, health.neverCount, DOMAIN rows \ DOMAIN points)

=============================================================================
