# FiqhMind backend: TLA+ models, checks and proofs

This directory specifies and verifies the FiqhMind backend (`src/app`): what several workers, web
requests, crashes, retries and lost messages can do to the rows, the files, the vectors, the caches
and the answers the system keeps, and what its pure algorithms (slices, reading order, sections,
passages, fusion, confidence) make of their inputs. The models are translated from the code; docs,
comments and tests are used only as claims to be checked against it.

| module | what it is | checked by | proved in |
|---|---|---|---|
| `IngestionPipeline` | the ingestion of an upload: Celery graph, leaf tasks, runners, errback, stage endpoints | `MCIngestionPipeline`: `book_faults`, `restarts`, `restages`, `layout_noop` | `IngestionPipelineProofs` |
| `PageSlices` | how an extraction shares its pages among threads (used by `IngestionPipeline`) | the same runs | `IngestionPipelineProofs` |
| `UploadService` | how an upload is received, accepted, refused and deleted | `MCUploadService`: `uploads` | `UploadServiceProofs` |
| `PageLayout`, `BookMetadata`, `Chunking`, `BookStructure` | what layout, metadata and chunking make of the pages of a book, each extending the one before | `MCBookStructure`: `structure` | `BookStructureProofs` |
| `VectorIndex` | chunks, points and cached vectors of several uploads, and the health check | `MCVectorIndex`: `corpus` | `VectorIndexProofs` |
| `HybridRetrieval` | one search: concurrent queries, fusion, merge, ranking, compression | `MCHybridRetrieval`: `retrieval` | `HybridRetrievalProofs` |
| `ProviderPort` | what a caller of the LLM providers is promised (abstract) | refined by `ProviderManager` | |
| `ProviderManager` | the fallback chain, with retries and circuit breakers | `MCProviderManager`: `providers` | `ProviderManagerProofs` |
| `ChatTurn` | questions answered at once over two caches: generation, streams, history, eviction | `MCChatTurn`: `turns` | `ChatTurnProofs` |
| `AnswerSynthesis` | the answer that is put together without a model, its facts and its confidence | `MCAnswerSynthesis`: `answers` | `AnswerSynthesisProofs` |
| `RateLimit` | the sliding window that limits a client | `limits` | `ChatTurnProofs` |

Each run is the `.cfg` file of its name. `PROJECT.json` has the components, the runs, a mutant for
every checked property, the map from definitions to source lines, the hazards, the findings and the
theorems. A definition whose comment begins with "Mutant:" is a plausible mistake in the definition
after it; it is used by no specification, and shows that the property it is paired with can fail.

## 1. The system

FiqhMind answers questions about fiqh books. A PDF is uploaded over HTTP, stored, and ingested by
Celery tasks (extraction, metadata, chunking, embedding, indexing) into PostgreSQL and Qdrant; a
chat endpoint retrieves passages and lets an LLM provider write a cited answer.

| component | state it keeps | operations | interacts with |
|---|---|---|---|
| Upload service (`services/uploads.py`) | `uploads` rows, the stored object | `receive`, `_cleanup_upload`, `delete` | storage, database, broker |
| Celery graph (`tasks/book.py`, `worker/celery_app.py`) | messages in the broker | `start_ingestion_pipeline_task`, `process_book_task`, `fail_book_jobs`, `build_book_graph`, `build_stage_graph` | every leaf task |
| Leaf tasks (`tasks/ingestion.py`) | job and upload status, retry counter in the message | `mark_queued`, `extract_pdf_task`, `run_layout_task`, `run_metadata_task`, `run_chunking_task`, `index_book_chunks`, `embed_chunks_task` | runners, broker |
| Runners (`services/extraction.py`, `layout.py`, `metadata.py`, `chunking.py`, `indexing.py`) | `page_extractions`, `metadata_documents`, `chunks`, Qdrant points | `run`, `_begin`, persistence per window or batch; the analysis of pages | database, storage, Qdrant |
| Stage endpoints (`api/v1/endpoints/*`) | none of their own | `start_extraction`, `start_layout`, `start_metadata`, `start_chunking`, `start_indexing`, reads | job and upload rows, broker |
| LLM providers (`services/generation/providers.py`) | usage windows, breaker states, health cache | `complete`, `stream`, `can_use_provider` | remote APIs |
| Answer generation (`services/generation/service.py`, `synthesis.py`, `facts.py`) | one attempt after the other | `generate`, `stream_answer`, `synthesize` | providers, retrieval |
| Chat endpoint (`endpoints/chat.py`) | QA cache entries, history rows | `chat_question`, stream | generation, cache |
| Retrieval (`services/retrieval.py`, `hybrid_search.py`, `vector_store.py`) | result cache | `search`, concurrent candidate searches, fusion | Qdrant, cache |
| Caches (`services/cache.py`, `embedding.py`), rate limiter (`rate_limit.py`) | Redis entries with expiry | get, set, evict; sliding window | chat, retrieval, indexing |
| Maintenance (`tasks/maintenance.py`) | none of its own | daily eviction, weekly index health check | caches, Qdrant |
| Supervisor, evaluation, HTTP shell, schemas, migrations | processes, reports | start and stop; offline runs; wiring | all |

### What is hard

* Celery runs with `task_acks_late`: a worker that dies gives its message back and the whole task
  runs again over what its first attempt has committed; a message that outlives the visibility
  timeout of the broker is delivered while its first delivery is still running.
* Every leaf commits several times, and its job and its upload are written in different commits.
* A leaf whose retries are exhausted fails its job and *returns normally*; its chain goes on. A
  leaf that raises stops its chain, and `fail_book_jobs` runs next to leaves that still run.
* The stage endpoints check a status in one transaction and write it in another.
* The upload service writes a row, an object, a job and two messages, none of them atomically with
  another, while other requests receive the same content or delete the same upload.
* Uploads share one chunks table keyed by the hash of a text, one collection and one vector cache.
* Layout, metadata and chunking read the same pages by rules of their own and must agree.
* Providers fail before, during or after their first token; searches run concurrently and fail one
  by one; caches outlive what they were computed from, and languages share a cache.

### What makes each component correct

* Upload service: no object without a row; one accepted upload per content; a stream is refused as
  a duplicate only of one that is there; a refusal leaves no object behind.
* Pipeline: an ingestion ends, with every job ended; a job that reports success has its whole
  output; the verdict on the upload matches what was indexed; no job is left in flight with nobody
  working on it, since the endpoints refuse to restart it.
* Runners: a resumed run neither skips nor repeats a page; a rerun replaces the last output; the
  index has exactly the chunks of a book, each under its own vector.
* Structure: the reading order follows the page, the sections tile the book, no sentence is lost and
  a passage can be cited by page and section.
* Providers: a caller gets the text of one provider or an exception, never parts of two; every call
  ends; a closed breaker is below its threshold.
* Generation and chat: a client sees one answer, validated before it is sent or cached, citing nothing
  but its own evidence, and recorded once; its confidence has a reason.
* Retrieval: what is found is fused from the searches that succeeded, each passage once, best first;
  an outage is not an absence of evidence.
* Caches and limiter: nothing stale after an eviction; no more requests than the limit in a window.

The hazards behind these, each at the line where it bites, are listed in `PROJECT.json` with the
properties that would catch them.

## 2. IngestionPipeline and PageSlices

One accepted upload, from `UploadService.receive` having committed it to rest.

**State.** `upload`, `uploadError` and `job` are the columns `uploads.status`,
`uploads.error_message` and `ingestion_jobs.status`. `pages`, `doc`, `chunks`, `points` are the
output of the stages, reduced to the pages they stand for: a chunk or a point is named by the page
of its text. `queue` holds the messages of the broker; a message is the leaf or dispatching task,
the flow (whole book, or one stage) it belongs to, and its retry counter. `worker` is what each
worker process runs and how far it is. `abandoned` is a history variable: the leaves whose last run
ended with nobody to end its job. `api` is the stage endpoint call in progress, with the values
its session has loaded. `requests` and `faults` are only bounds.

**Grain.** A step is one database commit, one vector store call or one broker operation, so that a
crash or another worker can fall between any two. Reads that the code uses later (`ChunkRunner`
loads the pages, `IndexingRunner` the chunks) are steps of their own, and what they read is kept in
the worker (`todo`).

| actions | code |
|---|---|
| `Deliver`, `Publish`, `Ack`, `Crash`, `Redeliver` | Celery with `task_acks_late`, prefetch 1, the chains of `build_book_graph` |
| `MarkRead`, `MarkWrite` | `mark_queued`: reads the job, then writes it |
| `StartPipeline`, `DispatchBook`, `ProcessBook` | `start_ingestion_pipeline_task`, `process_book_task` |
| `ExtractBegin`, `ExtractOpen`, `ExtractPersist` | `extract_pdf_task`, `ExtractionRunner.run`: begin, list and slice the missing pages (`PageSlices`), one checkpoint window per commit |
| `LayoutBegin`, `LayoutRead` | `run_layout_task`, `LayoutRunner.run` over the rows of the job it is handed |
| `MetadataBegin` ... `MetadataInsert` | `run_metadata_task`, `MetadataRunner.run`, `save_document` |
| `ChunkBegin` ... `ChunkInsert` | `run_chunking_task`, `ChunkRunner.run`, `save_for_job` |
| `IndexBegin` ... `IndexUpsert`, `EmbedWarm` | `index_book_chunks`, `IndexingRunner.run`, `embed_chunks_task` |
| `FinishJob`, `FinishUpload` | the two commits of a leaf that succeeds |
| `TransientFault`, `Retry`, `RetriesExhausted`, `FailJob`, `FailUpload` | the exception handlers of the leaves, `_record_error_and_fail` |
| `LeafRaises`, `EmbedFails`, `DispatchFails` | a task that raises |
| `ListActive`, `FailActive`, `FailBook`, `ErrbackFails` | `fail_book_jobs`, one commit per job, and a database that fails it between any two |
| `Request`, `ClearPages`, `ResetJob`, `MarkUpload`, `DispatchStage`, `RequestLost` | the five `start_*` endpoints |

**Abstractions.** Text, titles, embeddings and payloads are left out here (`BookStructure` and
`VectorIndex` have them); a page always gives a chunk and a chunk a point. `queue` is a set: two
identical messages of one run are one. The embedding task keeps no state but a cache. Only one
upload is modelled: what uploads share is `VectorIndex`.

**Runs.** All have deadlock checking off: the ingestion is supposed to come to rest.

| run | asks | instance |
|---|---|---|
| `book_faults` | does every ingestion end with all jobs ended, is every success whole, does the verdict match the index? | 1 fair worker, 3 pages committed one by one and parsed by 2 threads, good, malformed and missing file, 1 retry, 4 faults out of transient failures, crashes and redeliveries |
| `restarts` | is no job left in flight? | 2 workers, 2 pages, 1 call of any of the five endpoints, no retry, 2 faults out of leaves, embedders and errbacks that raise |
| `restages` | is every success whole after stages were started again? | 1 worker, 2 calls of the layout, metadata, chunking and indexing endpoints, 2 pages, no retry, 2 faults out of transient failures and lost messages |
| `layout_noop` (violation) | does the layout stage classify the stored pages? | 1 call of the layout endpoint, no fault |

*Bounds.* Two pages with windows of one are the least that put a crash between two windows; three
with two threads give slices of unequal length. One retry is the least that gives a first, a last
and an exhausted attempt; four faults exhaust the retries of one leaf and still crash or redeliver
another. Two endpoint calls race with each other and with the pipeline, and two faults let a stage
fail on a first run and again on the run an endpoint has started. With two workers the instance of
`book_faults` is too large for TLC; that a completed extraction is whole however many workers and
deliveries interleave is what the theorem `ExtractionIsWhole` adds to the run. `SuccessIsWhole`,
`RestartedStagesAreWhole` and `VerdictIsTrue` add every number of pages, retries, faults and calls, and
the leaves that raise next to the endpoints, with which `restages` takes too long for TLC.

*Fairness.* `FairSpec` gives weak fairness to each worker's own steps and to a request that was
accepted, and to nothing else: a worker process with a message in the broker and nothing else to do
fetches it, and a handler that started goes on. Faults and endpoint calls may occur or not, and no
queue is favoured. `docker/entrypoint.py` starts one worker consuming all queues, so that a worker
that rests serves every message.

*What does not hold, and is therefore not claimed.*

* `CompletedExtractionIsWhole` fails with the extraction endpoint: `ClearPages` is a commit of its
  own, and a web process that dies after it leaves a completed job without pages.
* `StagesAreWhole` needs a single worker and no call of the extraction endpoint: two runs of a stage
  at once (a redelivery, a double start) delete and write over each other. It speaks of books whose
  extraction succeeded: after a failed one metadata completes on the pages there are.
* It asks for whole points only where the chunking reports success too. An extraction fails half-way
  and the chain indexes the pages there are; a redelivered extraction then completes, the chunking
  that follows fails in its first statement, so that the chunks of the first pass stay, and the
  indexing reports `indexed` over them (`services/chunking.py`, `tasks/ingestion.py`): a book that is
  extracted whole and indexed in part. The run did not reach this with its faults; the attempt to
  prove the stronger statement did, and TLC showed it on an instance without retries.
* The chunking endpoint then makes even this worse: started once the partial points are there, it
  completes the chunks and leaves the points, and all jobs report success over an index that is half
  the book (TLC finds it with a transient failure, a redelivery or a crash, and one call).
  `StagesAreWhole` is therefore claimed for crashes and redeliveries *or* for the endpoints, not for
  both: that is why `restages` has neither crashes nor redeliveries.
* `VerdictMatchesIndex` excludes leaves and embedders that raise: a leaf that raises between its two
  final commits leaves an indexed book with a failed upload. It also excludes the endpoints, which
  write the upload's status for one stage.
* Jobs do stay in flight for ever, and the endpoints then answer 409 for ever, in two ways that
  `NoLockout` names by `abandoned` and excepts. A leaf raises in a flow without errback, which the
  layout and the metadata endpoint queue (`endpoints/metadata.py:76`, against `tasks/book.py:12`). Or
  the errback fails itself: `fail_book_jobs` commits job by job without a handler
  (`tasks/book.py:129`), so a database that fails it leaves the jobs it has not come to. Of these a
  later task of the book still ends all but the job of the task that raised. `NoLockout` says that
  nothing else locks an endpoint out.

*Finding.* `run_layout_task` hands its own job to `LayoutRunner.run`, whose pages belong to the
extraction job (`services/layout.py:313`): the stage classifies nothing and reports success. The
repository's tests miss it because they hand the runner the extraction job.

## 3. UploadService

Several requests at once, each with its own session, over `uploads`, `ingestion_jobs`, the storage
and the broker.

**State.** `row` and `sha` are `uploads.status` and `uploads.sha256`; `file` the object (absent,
partial, whole); `job` whether the upload has its job, `chunked` whether chunks and documents refer
to it; `sent` the messages given to the broker. `request` and `delete` are the progress of the
request that receives and of one that deletes an upload, `body` the content of the stream.
`request.error` is the exception that `receive` raises; after `"database"` the session waits for a
rollback, which decides what the cleanup can still do.

| actions | code |
|---|---|
| `Create`, `OpenFile`, `ReadStream`, `RefuseStream`, `CheckDuplicate`, `Accept`, `Finish` | `receive`, in the order of its commits and calls |
| `DispatchMark`, `DispatchStart`, `MessageLost` | `_dispatch_job` |
| `CleanFile`, `CleanFileFails`, `CleanRow` | `_cleanup_upload`, whose failures are only logged |
| `DeleteFile`, `DeleteList`, `DeleteRow` | `delete`, `delete_with_artifacts`, with the foreign keys that refuse it |
| `Ingest` | the workers, reduced to their writing rows that refer to the job |
| `DatabaseFault`, `Crash` | a statement that fails, a web process that dies |

The run `uploads` has 3 streams of 2 contents, one upload that may be deleted at any time, and 2
faults out of crash, database, storage and lost message. Three streams with two contents are the
least in which two equal streams meet a third, different one; the identities of the two uploads
that are not deleted and of the contents are interchangeable, hence the symmetry. Two faults let the
cleanup of one failure meet another.

`FileHasRow` and `AcceptedOnce` speak of the uploads that nobody deletes (`Kept`), next to others
that may be: a deletion that calls the storage before `OpenFile` and deletes the row after it leaves
an object without a row, and a deleted content may be received again. `FileHasRow` excludes an
object that the storage refused to remove (`"leaking"`). A deletion can also be half done: `delete`
removes the object first, and a foreign key may then refuse the row. `DuplicateIsStored` excludes
originals that failed after their accepting commit (`services/uploads.py:126`): their object is
removed, their hash stays, and a stream may be refused for their sake.

## 4. PageLayout, BookMetadata, Chunking, BookStructure

The pure core of three stages, as one growing book. `BookStructure.ReadPage` reads a page more, the
way each of the three loops over the pages does; every reachable state is a book that ends there.

**State.** `pages` are the pages read: blocks with a box on a page of 100 by 100, a font size, a
script, a heading word, sentences by their token counts, and the numbers that stand in them.
`reading` are the open and the closed sections of `_detect_structures`, `labels` and `printed` what
the metadata stage keeps for each page, `units` and `chunks` what the chunking stage makes.

| operators | code |
|---|---|
| `Direction`, `Columns`, `Margins`, `Separator`, `Region`, `ColumnOrder`, `ReadingOrder` | `analyze_page` and its helpers (`services/layout.py`) |
| `DominantFont`, `HeadingLevel`, `Headings`, `Opens`, `Sections`, `Label` | the headings and sections of `services/metadata.py` |
| `FromRoman`, `PrintedPage` | `_roman_to_int`, `_parse_footer_number` |
| `PageUnits`, `BoundaryStarts`, `SplitRange`, `ContextAt`, `SentencePacks`, `Chunks` | `extract_chunks` (`services/chunking.py`) |

The run `structure` has books of up to three pages and five blocks out of 37 pages: body text and
headings of every level in one column, and six pages (`Spread`) that the metadata and the chunker read
differently, with a gloss beside the text, a heading in the margin, a heading in the upper band,
footnotes that decide the size of most letters, and headings in two columns. It also has 11375 single
plates: every three blocks out of fourteen boxes (header, footer, full width, two columns, margins,
footnotes, boxes across a band, short lines) in both scripts, with and without a rule, and every Roman
number up to 399. `PagesDiffer` asks TLC whether there are pages of each kind that the properties tell
apart, `PagesAreWellWritten` whether the numerals are what the theorem on them is about.

| property | says |
|---|---|
| `TextIsInOrder` | on every page the reading order is one a reader would follow, and the margins do not take all the text; on a well-drawn page no block standing in the text is dropped as a gloss |
| `SectionsTileTheBook` | the sections of a level cover the pages once, and labels and ranges agree |
| `StagesAgreeOnSections` | metadata and chunking, each from its own blocks, name the same section of a level, if the last page with headings of the level shows both the same ones, in one column |
| `NumeralsAreRead` | the Roman number printed lowest on a page, written out again (`Numeral`), is what stands there; only a numeral with too many letters is given up |
| `NothingIsLost` | every sentence is in a passage, in order, and each passage brings something new |
| `PassagesAreCitable` | a passage is of one section, and of two pages only inside a sentence; it names its sections |
| `OneSentenceTooMany` | a passage over the size brings one new sentence only |

*Where the stages part.* The metadata looks for headings in every block between the bands, from the top
(`Headings`), the chunker in the main text alone, in its reading order (`PageUnits`), and each measures
them by the size of most letters it reads. On a page where they find other headings (one in the margin,
one that footnotes make large) or where the headings stand in several columns the two name different
sections, and a passage carries another name than the metadata gives its page. `StagesAgreeOnSections`
bounds that: whatever earlier pages set apart is mended by the next page whose headings of the level the
two share (`Shared`). `Spread` has such pages before and after others.

*What a short line may lose.* A page is `WellDrawn` if a gloss takes at least half the width of its
column and, of the columns that are not glosses, only the widest lies across one. Elsewhere a short line
of the text that falls into the column of the glosses is dropped with them (`services/layout.py:135`) and
is in no passage. The premise stands in `MarginsAreApart` only; the reading order is claimed of every page.

*Met and not claimed.* The carry from the last passage may be a whole long sentence, so that a
passage exceeds the size by more than the overlap. A new kitab or bab does not reset the finer
levels in `_context_at` (`chunking.py:290`), so a passage may name a fasl of the section before;
`PassagesAreCitable` speaks of the levels that cut the book. Of two headings of one level on one
page the first leaves no trace. A body block that ends in the footer band is read with the footers.
`_parse_footer_number` takes letters inside an ordinary Latin word for a Roman numeral.

## 5. VectorIndex

What several uploads share. A text stands for its vector, and the pair of an order and a text for
the `chunk_id` (`sha256` of `order:raw_text`), the primary key and the point id.

**State.** `rows` and `points` map a `chunk_id` to its upload (and vector), `cached` a text to its
cached vector. `task` is what each worker does: a chunking (`DeleteRows`, `InsertRows`, the two
commits of `save_for_job`) or an indexing (`Load`, `EmbedBatch` over the cache, `Clear`, `Upsert`
batch by batch). `health` is `index_health_check` page by page. `fresh`, `mixed` and `raced` are
history variables that the properties speak of: uploads indexed whole since their rows changed,
uploads chunked twice at once, and whether rows changed under an indexing that had loaded them.
`Crash`, `Fail`, `Expire`, `ScrollFails` are the faults. `Listing` has the rows of an upload in
their order, each at the place that is the number of rows up to it (`UpTo`); `Embedded` puts the k-th
computed vector at the k-th miss, as `embed_batch` does; `Scroll` returns the next ids by `Place`.

The run `corpus` has 2 uploads that may share their first passage, 2 workers, books of one to three
passages with a repeated text, batches of two (so that a book takes two of each kind), a scroll of
two ids, 4 tasks and 2 faults. Uploads and workers are interchangeable.

`VectorsAreTheirOwn` (no vector is stored under another text), `IndexIsExact` (after an undisturbed
indexing the points are exactly the rows), `RowsAreWhole` (a book is in the table whole or not at
all) and `ReportIsTrue` (an undisturbed report counts exactly the orphans and the missing, and names all
of them up to `ReportLimit`, that many beyond) hold. `ReportLimit` is 100 in the code and 1 here, so that
reports are cut.

*What is excluded is real.* An indexing whose rows change under it upserts vectors of chunks that
are gone, and may take over a point another upload has since got; of two overlapping indexings one
can clear what the other has written and then fail, while the other reports `indexed`. A chunking
that meets a `chunk_id` of another upload fails after the old rows were deleted, although
`save_for_job` speaks of "one transaction" (`db/repositories/chunks.py:97`). When Qdrant is out of
reach the health check reports every chunk as never indexed. The texts that occur twice, which the
report also lists, are left out.

## 6. HybridRetrieval

One search. `searches` is the sequence of the hybrid searches, the original text's first, each with the
state of its dense and of its sparse side: pending, failed, or returned with a ranking. `Begin`,
`Translated` and `ExpansionFails` start them, `SideEnds` ends one side in any order, `Collect` gathers.
`Fuse`, `Merge`, `Rank`, `Compress` and `Remaining` are `rrf_fuse`, `_merge_hits`, `_rerank`,
`_compress` and `_remaining_candidates`. Scores keep their order only: a similarity and an overlap are
small numbers, a rank is worth the reciprocal of `k + rank`, in whole parts of `Unit`, a multiple of
every `k + rank`. What the code does with lists, the models do with one operator, `InOrder`: it puts a
finite set in the order that the sets of predecessors give. Sorting by score (`Descending`), keeping
the first of each key (`Those`) and joining rankings (`Flat`) are instances of it.

The run `retrieval` has 3 chunks, two of them of one passage, 2 query texts, rankings of up to two
and every outcome of every side. `OutageIsRaised`: there is a result if and only if some side of some
search returned. `EvidenceIsSound`: the evidence descends, is above the floor, distinct, found.
`NothingBetterIsLost`: a chunk whose words overlap up to the floor is in the evidence, or something
as good is, while the hits found do not exceed the limit of candidates. It is stated for overlaps
only: `_merge_hits` keeps the hit with the best fused score
whole (`retrieval.py:391`), so the better dense match of a dropped hit is lost with it.

*Met and not claimed.* A result that only some of the searches contributed to is cached like a full
one.

## 7. ProviderPort and ProviderManager

One `ProviderManager`, which `get_llm_provider` builds for one question, with the breakers of its own
`ProviderHealthService` and the clients it calls.

**State.** `rung`, `attempt` and `model` are the three loops: over the chain, over the retries of one
provider, over the models of a client that rotates (`OpenRouterProvider`). `pc` is the progress of
the call, `calls` how often the generation service has asked, `mode` whether it asks for a whole
text or a stream. `source` and `chunks` are what the caller has been handed: whose text, and how much
of it. `breaker` is each provider's `CircuitBreakerState`: its state, its failure count, and
(`cooled`) whether the recovery timeout has passed since the last failure.

| actions | code |
|---|---|
| `Call` | `GenerationService` asking once per attempt at a valid answer |
| `StartRung`, `SkipRung`, `ChainFails` | the loop over the chain, `can_use_provider`, `can_attempt` |
| `Chunk`, `Succeed`, `Break` | a client that yields, returns, or raises something unexpected |
| `NextModel` | the rotation inside `OpenRouterProvider` |
| `Died`, `TryAgain`, `NextRung` | the handler of `ProviderUnavailableError`, with `record_failure` |
| `Cool` | the clock passing `recovery_timeout` |

`complete` and `stream` are one set of actions: in `complete` a text has no chunks before it is whole,
so that a failing attempt never has a first token. The usage trackers are left out: only a health
check gives them limits, and the health service of a manager never runs one.

`ProviderPort` is the promise to the caller: chunks of one provider until the text is whole, or an
exception that ends the call. The run `providers` checks that the manager implements it
(`PortKept == Port!Spec`, with every internal step a stutter), that calls end (`CallEnds`), that a
closed breaker is below its threshold (`BreakerCounts`), and the types.

*Bounds.* Two providers, one of them with two models; two retries, one more than the default, so that
a breaker opens, cools down, is probed and closes again within the three calls of one question;
threshold 3 as in `_setup_circuit_breakers`; at most two chunks of a text. *Fairness:* a call that was
made goes on, because each client has a timeout; whether the breakers cool is left open.

*What is not claimed.* A breaker may be open with no failure counted: a retry that succeeds after the
breaker has opened clears the count and leaves it open. When such a breaker is probed and the probe
fails, it stays half open. A rung goes on with its retries after its breaker has opened, since
`can_use_provider` is asked once for a rung. And since each request builds its own manager, neither
breakers nor limits ever reach another request.

## 8. ChatTurn

Several turns at once. What a turn shares with another is only the two Redis caches: `answers`
(`qa:*`) and `results` (`chunk:*`). Evidence is the version of the index it was read from, and the
`cites` of an answer are the versions of the chunks it cites; the provider behaves as `ProviderPort` says.
`Texts` are the kinds of text a provider returns: `grounded` cites its evidence, `bare` cites nothing,
`foreign` cites something else, `declined` refuses. `Validates` is `validate_llm_answer`, which accepts the
bare text too.

**State.** `turn` is the progress of each turn: its question (query and language), evidence, the
attempt and the parts it has collected, and the answer. `tokens` are what the client of a stream has
got, each by its attempt; `history` the `chat_history` rows; `index` the version of the index;
`evictor`, `undisturbed` and `floor` the progress of `evict_caches` and what it promises.

| actions | code |
|---|---|
| `Hit`, `Miss`, `SearchHit`, `Search`, `SearchFails`, `StoreResult` | `chat_question` and `RetrievalRunner.search` over the caches |
| `Insufficient`, `NoProvider`, `Attempt`, `Part`, `Returned`, `Unavailable`, `Broken` | `generate` and `stream_answer` |
| `StoreAnswer`, `Persist`, `DatabaseFails`, `SendEvents`, `Drop` | the end of a turn, whole or streamed |
| `Reindex`, `Expire`, `EvictBegin`, `EvictAnswers`, `EvictResults`, `EvictFails` | the index, the expiry of entries, `app/tasks/maintenance.py` |

The run `turns` has two turns, one of them streamed, one query in two languages, two attempts (the
default of one retry), two parts of a text and one re-indexing: the least in which two turns meet in
each cache, a rejected attempt is followed by another, and an answer outlives its index. Properties:
`DoneIsRecorded`, `CacheIsGrounded`, `NothingUnvalidated`, `TokensEndInAnswer`, `NothingStale`, as
their comments say. The second and the third say that what is cached or sent as an answer was validated and
cites nothing but the evidence beside it; not that it cites any of it.

*Met and not claimed.* A stale answer may be served between re-indexing and eviction; `NothingStale`
speaks of an eviction that no turn disturbed. `stream_answer` turns any exception of a provider but
`ProviderUnavailableError` into a failed stream (`service.py:198`), where `generate` falls back
(`service.py:155`). The tokens of rejected attempts stay in front of the answer's.

## 9. AnswerSynthesis, RateLimit

`AnswerSynthesis` grows the evidence passage by passage and computes the answer of
`DeterministicSynthesizer` for every kind of question: `ExtractFact` (`facts.py`), `BaseLevel`
(`compute_confidence`), `FactLevel` (`_fact_confidence`), `Used` (`_used_chunks`), `Respond`, which refuses
only without any passage (`retrieval.py:223`). The run
`answers` has every evidence of up to four of 36 passages (of low, middling and high score; two
subjects; verified or not; titled or stating facts), one more than an answer reads. A fact (`Facts`)
names the passages it is taken from by their places. `FactsOnlyRaise`:
no answer is less certain than the passages it cites. `AnswerIsBacked`: what it says is in the
passages it cites, and high confidence has a reason. Passages have text: `extract_fact` would pass over a
blank one (`facts.py:143`) that `_used_chunks` still cites, and the chunking makes none. Met and not claimed: the
rationale of a translated query says "confidence reduced" and nothing is reduced (`synthesis.py:72`).

`RateLimit` is the sorted set of one client (`attempts`, each with its time and a member of its own,
with the `expiry` of the whole) beside the history of the attempts that were counted (`tried`). The web
server runs the checks of one client in several threads, and a check is three steps: it reads the clock
(`Ask`), prunes and counts in one transaction (`Count`) and, if it is over the limit, asks for the oldest
attempt (`Reject`). `AskRemaining`, `Prune` and `Renew` are those of `remaining`, `Reset` is `reset`, and
Redis may fail before each call (`FailOpen`), which lets the question through. `calls` is what each thread
is at, with the time it has read. The run `limits` has 2 threads, 2 questions in a window of 2 seconds and
up to 4 counted attempts over 5 seconds: two windows pass, and a clock may be read a whole window before it
is used.

`WindowIsKept`: of the questions that read the clock *and* are counted within one window no more than the
limit is let through, and none is refused unless more than the limit came in its window. `WaitIsTrue`: the
`Retry-After` is no longer than until any attempt still in the window leaves it, and an attempt has just
left at its end. That does not mean that the next question is let through: refused attempts count too.

*Met and not claimed.* A check that is counted a window or more after it read the clock is let through
beyond the limit: what came in the window of its clock may be pruned by then, and its own attempt is
pruned by the next check. When the set is gone between the count and the question for the oldest attempt, a refused
client is told to wait 0 seconds (`rate_limit.py:50`).

## 10. What is proved

TLC checks the instances above. The following hold for every value of the constants.

`IngestionPipelineProofs`

* `TypeCorrect`: `Spec => []TypeOK`, action by action.
* `ExtractionIsWhole`: `Spec => []CompletedExtractionIsWhole`, if the extraction endpoint is not
  called (`"initial" \notin Restarts`). A job becomes `completed` only from a worker at `jobDone`, and
  `ExtractionInv` says what such a worker knows: each page it no longer has in `todo` is persisted.
  That is inductive because pages are never removed, which the premise gives.
* `LockoutFree`: `Spec => []NoLockout`, without a premise: any number of workers, any restarts, any
  faults, failing errbacks among them. `NoLockout` speaks of rest only; the strengthening
  `InFlightPending` says that each job in flight has something that will end it (a message of its leaf in
  the queue, a worker running it, or an errback that has it on its list) or was abandoned by its last
  run. `Serves` is what every step of a worker does for it.
* `SuccessIsWhole`: `Spec => []StagesAreWhole` for one worker (`OneWorker`), without calls of the
  endpoints and leaves that raise, with every other fault. `RunInv` says what the run in hand knows:
  between the deletion and the insertion of a stage its job reports no success, and what it has
  loaded is still there. That leaves the output of a stage that has *been* reported: `ChainInv` says
  that every message is of the book's chain, and `WholeInv` that a reported output is whole, or the
  pages are not, or a task is `Owed` (queued or in hand) that will write it again. A task is only done
  with when it publishes its successor, so that nothing owed is lost (`OwedStays`, `PublishOwes`).
* `RestartedStagesAreWhole`: the same property for one worker with the endpoints of the stages after
  the extraction, any number of calls and any fault but a crash and a redelivery. Here runs of one
  stage follow each other in any order, so that nothing is owed; the argument is that no stage after
  the extraction writes before the pages are final. `Extraction` holds until then: one message leads
  to the extraction, and there is no output and no call, since each endpoint demands a completed
  extraction. Once the extraction has published, `PagesFinal`: no message leads to another one. From
  there each run reads the same pages, and `OutputInv` is what they make of them.
* `VerdictIsTrue`: `Spec => []VerdictMatchesIndex` for one worker, without endpoint calls and
  without a leaf or an embedder that raises. Every task of the chain writes the upload's status, so the
  verdict is wrong most of the time; `VerdictInv` says that it is right or a task of the chain is owed,
  and the last one of a chain is the indexing, which writes both (`VerdictRun`).
* `SlicesCover` and `SlicesDisjoint`: for any finite set of missing pages and any number of threads
  the slices have every page once. The proof maps a page to its position, and the position to the
  multiple of the slice size below it.

`UploadServiceProofs`

* `TypeCorrect`: `Spec => []TypeOK`, with `NewHasNoRow`: a request that has not begun has no row.
* `FilesHaveRows`: `Spec => []FileHasRow`. `ReceiveInv` ties the progress of each request to its row,
  its object and its hash; `FilesInv` adds that a request which reaches `CleanRow` has removed its
  object.
* `RejectedFilesAreGone`: `Spec => []RejectedFileIsGone`, from `GoneInv`: between the removal of an
  object and the end of its request nothing writes it again.
* `ContentAcceptedOnce`: `Spec => []AcceptedOnce`. The property is about requests, the unique index
  about rows: `ReceiveInv` says that an accepted request has its hash in its row and `UniqueHash` that
  no two rows share one.

* `DuplicatesAreStored`: `Spec => []DuplicateIsStored`. A stream is refused for the sake of a row with
  its hash. `HashInv`: the hash in a row is that of its stream. `HeldInv`: an accepted upload has its
  object until its own request fails in a session that is broken, and then it keeps its row; so what a
  refusal has named stays stored (`StoredStays`).

`ProviderManagerProofs`

* `TypeCorrect`: `Spec => []TypeOK`; it is inductive.
* `ClosedIsBelowThreshold`: `Spec => []BreakerCounts`. A step writes at most one breaker
  (`BreakerStep`), and each of the three operations keeps it below (`BreakerStaysBelow`).
* `ImplementsPort`: `Spec => PortKept`, the refinement. `SourceInv` says why no second provider's
  text can follow: while a call runs nothing has been handed out unless the provider that is being
  tried has handed it out, and `Died` is the only way on from there.

`ChatTurnProofs`

* `TypeCorrect`, `DoneIsRecordedAlways`, `CacheIsGroundedAlways`, `NothingUnvalidatedAlways`: from
  `ChatInv`. `TurnGood` says what a turn has at each place: from `cache` on its answer is a refusal or
  was validated and cites nothing but its own evidence, and it has no row before `events` and one there and when it is done.
  `CachesInv` says
  that an entry is such an answer in the language of its key; the two need each other, since a turn
  replays an entry and an entry is what a turn wrote.
* `NothingStaleAlways`: `Spec => []NothingStale`. `StaleInv` adds what an undisturbed eviction knows:
  no turn is in flight, and once it has come to the results no answer is left.
* `TokensEndInAnswerAlways`: `Spec => []TokensEndInAnswer`. `TurnGood` says that the
  parts a turn has collected are of its present attempt, `TokensGood` that they are the end of what its
  client got.
* For `RateLimit`: `LimitInvAlways`, `WindowIsAlwaysKept`, `WaitIsAlwaysTrue`. `LogInv` relates the set to
  the history: what it holds was counted, it holds every counted attempt that has not left the window by
  the clock, and Redis does not drop it before the last of them has. A thread that prunes by an old clock
  prunes less, so this is kept by every interleaving. `SetIsHistory` and `Counted` count the one against
  the other.

`VectorIndexProofs`

* `TypeCorrect`: `Spec => [](TypeInv /\ OwnInv)`; `TypeInv` is the type with what a task at work has in
  hand. The two need each other: the length of `Embedded` is part of the type of a task.
* `VectorsAreAlwaysTheirOwn`: `Spec => []VectorsAreTheirOwn`, from `OwnInv`: what a task has built so far
  are the vectors of its chunks in their order. `EmbeddedInOrder` is the lemma about `embed_batch`: the
  k-th computed vector is that of the k-th miss, whatever hits lie between them.
* `RowsAreAlwaysWhole`: `Spec => []RowsAreWhole`. `WholeInv` adds that an upload has no rows between the
  two commits of its chunking, unless another one is under way.
* `IndexIsAlwaysExact`: `Spec => []IndexIsExact`. `IndexInv` says that an upserting task that was not
  raced has the rows of its upload in hand, and that the points are those it has done. `ListingIsWhole`
  (the listing has every row once) and `BatchOfTask` (the batches leave no chunk out) carry it.
* `ReportIsAlwaysTrue`: `Spec => []ReportIsTrue`. `ReportInv`: while nothing disturbs the scroll it has
  seen exactly the points up to its offset; `PageIsDense` says that a page skips none. `ListedIsReported`
  counts the entries a report names: ranks are onto (`RanksAreOnto`, which `ListingIsWhole` also rests on).

`HybridRetrievalProofs`

* `TypeCorrect`: `Spec => []TypeOK`, over every function of the search.
* `OutageIsAlwaysRaised`, `EvidenceIsAlwaysSound`, `NothingBetterIsEverLost`: the three properties of the
  run, from `TypeOK` and `Unreported` (no evidence before the end). The work is in the lemmas about
  the functions, which all rest on `InOrderIs` (`InOrder` is a bijection that follows the order it is
  given): `DescendingIs`, `DistinctIs`, `FlatIs`, `FuseIs` and `MergeIs` (no chunk
  of a ranking or of a search is lost within the limit), `RankIs`, `CompressIs` (of each passage the
  best is kept).

`AnswerSynthesisProofs`

* `TypeCorrect`, `FactsAlwaysOnlyRaise`, `AnswerIsAlwaysBacked`: from `Inv`, that the evidence descends
  and the answer is what `Respond` makes of it. `FactFits` says which passages a fact is taken from and how
  strong it is, `CitedAre` what an answer cites, `HighLevel` what a high level without a fact rests on.

`BookStructureProofs`

The loops of these stages are recursive functions or the one fold `Loop`. Each is first shown to be
*the* function its equation says (`LoopOf`, `FlattenLoop`, `RangesAre`, `SplitRangeIs`, `SumIs`: a function
on `0 .. n` exists because a least `n` without one would have a predecessor), and what it computes then
follows by `Counting`, up to the length of the data. `SortedByIs` does the same for `Sorted`: a finite set
under an order without ties becomes a sequence that has each element once, in that order.

* `BookTypeInvAlways`: `Spec => []BookTypeInv`, on which the others rest.
* `TextIsAlwaysInOrder`: `Spec => []TextIsInOrder`, for pages of any blocks. `ZonesAre` says where
  every block of any page is read: the headers, the columns of the flow one after the other in the order of
  `FirstColumn` and each from the top, the footers; a block of both bands has the later place. What a reader
  expects follows from that (`PageIsRead`): of two columns that stand apart the one that begins further left
  is the left one. `DominantIs` finds the widest column, which is never its own margin (`PageKeepsText`).
* `SectionsAlwaysTileTheBook`: `Spec => []SectionsTileTheBook`, from `SectionsInv`: the closed sections of
  a level lie one after the other before the open one, without a gap (`Tiled`), and the labels of a page
  name the one it lies in (`Named`). `OpensTiles` is the step: a heading closes the section before it on the
  page before, and leaves no trace of one that would have no page.
* `StagesAlwaysAgree`: `Spec => []StagesAgreeOnSections`, for any pages. `StagesInv` says of each level
  that the name the metadata has open is that of the last unit that has one, once the last page with
  headings of the level is shared (`Mended`). On such a page each stage is left with its last heading in
  its own order (`LastHeadingInMetadata`, `LastHeadingInText`), and among shared headings in one column that
  is the same block (`SharedAreReadAlike`, by `ZonesAre`).
* `NumeralsAreAlwaysRead`: `Spec => []NumeralsAreRead`, if the Roman numbers are `WellWritten`, that is, are
  numerals of a number below a thousand. The sum from the end, with smaller letters taken off, adds a digit's
  value whatever follows it, as long as that is of lower digits (`DigitAdds`, `PartAdds`, `NumeralIsRead`).
  `PrintedInv` says that what is kept of a page is what `PrintedPage` finds there.
* `NothingIsEverLost`, `PassagesAlwaysCitable`, `OneSentenceTooManyAtMost`: from `ChunksInv`, that the
  passages are what `Chunks` makes of the units read so far. `Cuts` says that the ranges lie end to end from
  the first unit to the last and that no boundary is inside one, which `SplitRange` keeps at every level it
  cuts at (`CutsJoin`, `CutAgain`). `Packing` is the invariant of the loop that packs sentences: the packs
  so far are runs that follow without a gap, each ends later than the one before, and what is in hand is the
  next run, over the limit only if it brings a single new sentence. `PassagesJoin` puts the ranges together.

The one premise about the pages of a PDF, which no code makes, is `WellWritten`: anything else made of the
letters of numerals has no number it was written for. `PagesAreWellWritten` has TLC evaluate it on every page
of the run `structure`. That a box does not end before it begins and that a block has its own index is in
`PagesAssumption`, as it is in what PyMuPDF returns.

The assumptions are the named `ASSUME`s of the modules (positive counts and sizes, natural bounds, a
finite set of chunks, scores of a passage, `NoContent` no content, a chain of distinct providers with
a model each) and the premises above. `OneWorker` is what `docker/entrypoint.py` starts; what the
premises about faults and endpoints leave out is in section 2, with what goes wrong there.
Every property was also checked by TLC on the instances above before it was proved.

*Only model-checked.* Liveness (`BookSettles`, `CallEnds`) and anything about `ENABLED` are out of the
prover's reach. `LayoutClassifiesPages` is false by the code. Every other property that a run checks is
stated by a theorem. Induction over data is out of reach as a rule, since no backend can instantiate the
library's theorems on it; where a recursion is unavoidable (`BookStructureProofs`) the proofs go through the
least counterexample instead, which needs no operator as a parameter, and elsewhere ranks and cardinalities
stand where a recursion would.

## 11. Other disagreements met

Read in the code while modelling; no run claims against them, and the properties above are worded so
that they do not depend on them.

* An embedder that raises fails the upload of an indexed book, though a warm miss "costs nothing"
  (`tasks/ingestion.py:319`).
* A leaf still running writes `completed` over the errback's `failed`, though "a dead pipeline never
  reports the upload as completed" (`tasks/book.py:126`).
* Two calls of an endpoint start two runs of a stage, since `queued` is not in flight.
* A stream refused by the unique index keeps its row (`services/uploads.py:180`), though the partial
  row is said to be cleaned up (`services/uploads.py:57`).
* `document.load_page` is outside the `try` of `_extract_page_slice`: a page that cannot be loaded
  aborts the book, though "one broken page never aborts the book" (`services/extraction.py`).
* `chunk_id` is the hash of `order:raw_text` (`services/chunking.py:376`), not of the normalized text
  (`db/repositories/chunks.py:46`).

* `validate_llm_answer` accepts an answer that cites nothing (`services/generation/validation.py:67`); it is
  sent and cached like any other.

## 12. Not modelled

* *Usage trackers and health checks* of the providers: no manager of the program has a tracker with
  limits, and `provider_health_check` logs what a health service of its own has seen.
* *Parsing with PyMuPDF*, the clean-up of text, the language of a query and its normalization, the
  cross-encoder, the lexicon: they map data to data, and the models take their results as inputs.
* *The expressions that find bibliographic fields* in a title page, and payload fields in Qdrant:
  formats without a state.
* *The process supervisor*: what its restarts do to the pipeline is the `Crash` of the models.
* *The evaluation harness*: an offline tool that keeps only its own reports.
* *HTTP shell, schemas, configuration, migrations*: no behaviour of their own.

## 13. What could come next

1. `BookLifecycle`: the abstract life of an upload (received, processing, completed or failed),
   implemented by `IngestionPipeline` and by `UploadService`, with the refinement proved.
2. `StageJobs`: the find-or-create race of the stage jobs under two deliveries of
   `start_ingestion_pipeline_task` (`tasks/book.py:198`).
3. The composition of `HybridRetrieval` with `ChatTurn`: what a partial result in the cache does to
   later turns.
