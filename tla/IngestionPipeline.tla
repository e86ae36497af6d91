---------------------------- MODULE IngestionPipeline ----------------------------
(***************************************************************************)
(* The ingestion of one accepted upload: the rows the pipeline keeps in    *)
(* PostgreSQL, the points it keeps in Qdrant, the Celery messages that     *)
(* drive it, the workers that run them and the stage endpoints that start  *)
(* a stage again (app/tasks/ingestion.py, app/tasks/book.py, the runners   *)
(* of app/services and the start_* handlers of app/api/v1/endpoints).      *)
(*                                                                         *)
(* One step is one database commit, one store call or one broker           *)
(* operation, so that a crash or another worker may fall between any two.  *)
(*                                                                         *)
(* A leaf task is named after the kind of the job it runs: "initial" is    *)
(* extract_pdf_task, "layout" run_layout_task, "metadata"                  *)
(* run_metadata_task, "chunking" run_chunking_task and "indexing"          *)
(* index_book_chunks.                                                      *)
(***************************************************************************)
EXTENDS Integers, FiniteSets, PageSlices

CONSTANTS
  Workers,          \* worker processes; each of them consumes every queue
  PageCount,        \* pages of the uploaded book
  CheckpointPages,  \* pages committed together by the extraction
  BatchSize,        \* points upserted together by the indexing
  MaxRetries,       \* MAX_RETRIES of app/tasks/ingestion.py
  PdfKinds,         \* what the stored file may be
  Restarts,         \* the stages whose endpoint is called
  MaxRequests,      \* bound: calls of the stage endpoints
  FaultKinds,       \* the kinds of fault that occur
  MaxFaults         \* bound: faults in one behaviour

\* The kinds of job. The book graph never runs the layout: only its endpoint
\* creates that job.
ChainKinds == {"initial", "metadata", "chunking", "indexing"}
Kinds == ChainKinds \union {"layout"}
Flows == {"book"} \union Kinds
Tasks == Kinds \union {"embed", "mark_queued", "start_pipeline", "process_book"}
Pdfs == {"good", "malformed", "missing"}
Leaves == Kinds \union {"embed"}
Faults == {"transient", "raise", "embed", "crash", "redeliver", "lost"}

ASSUME PagesAssumption == PageCount \in Nat \ {0}
ASSUME WindowAssumption == CheckpointPages \in Nat \ {0} /\ BatchSize \in Nat \ {0}
ASSUME BoundsAssumption == MaxRetries \in Nat /\ MaxRequests \in Nat /\ MaxFaults \in Nat
ASSUME SetsAssumption ==
  /\ PdfKinds \subseteq Pdfs
  /\ Restarts \subseteq Kinds
  /\ FaultKinds \subseteq Faults

Pages == 1 .. PageCount

ActiveStatuses == {"uploaded", "queued", "extracting", "structuring", "embedding"}
InFlightStatuses == {"extracting", "structuring", "embedding"}
FinalStatuses == {"completed", "indexed", "failed"}
JobStatuses == {"none"} \union ActiveStatuses \union FinalStatuses
UploadStatuses == {"queued", "processing", "completed", "failed"}

\* The status a runner gives its job in _begin, and the one its task ends with.
BeginStatus ==
  [initial |-> "extracting", layout |-> "structuring", metadata |-> "structuring",
   chunking |-> "structuring", indexing |-> "embedding"]
DoneStatus ==
  [initial |-> "completed", layout |-> "completed", metadata |-> "completed",
   chunking |-> "completed", indexing |-> "indexed"]

VARIABLES
  upload,       \* uploads.status
  uploadError,  \* uploads.error_message: none, a leaf's own, or "failed upstream"
  job,          \* ingestion_jobs.status of each kind, "none" without a row
  abandoned,    \* history: the leaf tasks whose last run ended with nobody to end its job
  pdf,          \* the stored file
  pages,        \* page_extractions rows of the initial job
  doc,          \* metadata_documents rows: each is the set of pages it maps
  chunks,       \* chunks rows of the chunking job, by the page of their text
  points,       \* points of the upload in Qdrant, by the page of their text
  queue,        \* messages waiting in the broker
  worker,       \* what each worker is doing
  api,          \* the stage endpoint call in progress
  requests,     \* stage endpoint calls made
  faults        \* faults that occurred

status == <<upload, uploadError, job, abandoned>>
artifacts == <<pages, doc, chunks, points>>
env == <<pdf, api, requests, faults>>
vars == <<status, artifacts, queue, worker, env>>

Messages == [run : 0 .. MaxRequests, flow : Flows, task : Tasks, retries : 0 .. MaxRetries]
Message(run, flow, task) == [run |-> run, flow |-> flow, task |-> task, retries |-> 0]
NoMessage == Message(0, "book", "mark_queued")

WorkerPcs ==
  {"idle", "begin", "open", "persist", "read", "replace", "insert", "upsert",
   "jobDone", "uploadDone", "publish", "ack", "error", "failJob", "failUpload",
   "errback", "failActive", "write", "dispatch"}
\* "loaded" is the upload's status as the session of a layout task has read it;
\* the other tasks have overwritten it in _begin.
WorkerStates == [pc : WorkerPcs, msg : Messages, todo : SUBSET Pages,
                 failing : SUBSET Kinds, loaded : UploadStatuses]
Started(m) ==
  [pc |-> "begin", msg |-> m, todo |-> {}, failing |-> {}, loaded |-> "processing"]
Idle == [Started(NoMessage) EXCEPT !.pc = "idle"]

ApiPcs == {"idle", "clear", "reset", "mark", "dispatch"}
ErrorMessages == {"none", "own", "upstream"}
Calls == [pc : ApiPcs, stage : Kinds, job : JobStatuses,
          upload : UploadStatuses, error : ErrorMessages]
NoRequest == [pc |-> "idle", stage |-> "initial", job |-> "none",
              upload |-> "queued", error |-> "none"]

TypeOK ==
  /\ upload \in UploadStatuses
  /\ uploadError \in ErrorMessages
  /\ job \in [Kinds -> JobStatuses]
  /\ abandoned \subseteq Leaves
  /\ pdf \in Pdfs
  /\ pages \subseteq Pages
  /\ doc \subseteq SUBSET Pages
  /\ chunks \subseteq Pages
  /\ points \subseteq Pages
  /\ queue \subseteq Messages
  /\ worker \in [Workers -> WorkerStates]
  /\ api \in Calls
  /\ requests \in 0 .. MaxRequests
  /\ faults \in 0 .. MaxFaults

\* UploadService.receive has committed the upload and its initial job, and
\* _dispatch_job has queued both messages (either may be lost).
Init ==
  /\ upload = "queued"
  /\ uploadError = "none"
  /\ job = [k \in Kinds |-> IF k = "initial" THEN "uploaded" ELSE "none"]
  /\ abandoned = {}
  /\ pdf \in PdfKinds
  /\ pages = {} /\ doc = {} /\ chunks = {} /\ points = {}
  /\ LET sent == {Message(0, "book", "mark_queued"), Message(0, "book", "start_pipeline")}
     IN  IF "lost" \in FaultKinds THEN queue \in SUBSET sent ELSE queue = sent
  /\ worker = [w \in Workers |-> Idle]
  /\ api = NoRequest
  /\ requests = 0
  /\ faults = 0

-----------------------------------------------------------------------------
(* Helpers.                                                                *)

At(w, task, pc) == worker[w].pc = pc /\ worker[w].msg.task = task
Goto(w, pc) == worker' = [worker EXCEPT ![w].pc = pc]
Become(w, pc, todo, failing) ==
  worker' = [worker EXCEPT ![w] = [@ EXCEPT !.pc = pc, !.todo = todo, !.failing = failing]]
GotoWith(w, pc, todo) == Become(w, pc, todo, {})

\* The first n members of a set of pages.
FirstPages(s, n) == {p \in s : Cardinality({q \in s : q <= p}) <= n}

\* The signatures that start a flow (build_book_graph, build_stage_graph) ...
FirstTasks(flow) ==
  CASE flow = "book" -> {"initial"}
    [] flow = "indexing" -> {"embed", "indexing"}
    [] OTHER -> {flow}

\* ... and the ones that follow a leaf task of it.
NextTasks(msg) ==
  CASE msg.flow = "book" /\ msg.task = "initial" -> {"metadata"}
    [] msg.flow = "book" /\ msg.task = "metadata" -> {"chunking"}
    [] msg.flow = "book" /\ msg.task = "chunking" -> {"embed", "indexing"}
    [] OTHER -> {}

\* Mutant: the errback is wired to the first stages only.
HasErrbackEarly(msg) == msg.task \in {"initial", "metadata"}

\* The leaf tasks of a graph carry link_error; the layout and the metadata
\* endpoint queue their tasks without one.
Unlinked == {"layout", "metadata"}
HasErrback(msg) == msg.flow \notin Unlinked

\* Mutant: one attempt too many.
RetriesLeftOffByOne(msg) == msg.retries <= MaxRetries

RetriesLeft(msg) == msg.retries < MaxRetries

\* Mutant: the resumed run skips the page after the last one persisted.
MissingPagesOffByOne == {p \in Pages : p > Cardinality(pages) + 1}

\* The pages a run of the extraction still has to persist.
MissingPages == Pages \ pages

\* The page rows of a job: every one belongs to the job that extracted it.
PagesOf(kind) == IF kind = "initial" THEN pages ELSE {}

BeginJob(k) ==
  /\ job' = [job EXCEPT ![k] = BeginStatus[k]]
  /\ abandoned' = abandoned \ {k}

\* A runner's _begin: the job and the upload enter processing in one commit.
BeginStage(k) ==
  /\ BeginJob(k)
  /\ upload' = "processing"
  /\ UNCHANGED uploadError

Fault(kind) ==
  /\ kind \in FaultKinds
  /\ faults < MaxFaults
  /\ faults' = faults + 1
  /\ UNCHANGED <<pdf, api, requests>>

-----------------------------------------------------------------------------
(* The broker.                                                             *)

\* A free worker receives a message; task_acks_late leaves it unacknowledged.
Deliver(w) ==
  /\ worker[w].pc = "idle"
  /\ \E m \in queue :
       /\ queue' = queue \ {m}
       /\ worker' = [worker EXCEPT ![w] = Started(m)]
  /\ UNCHANGED <<status, artifacts, env>>

\* A task that returned queues the tasks that follow it in the chain.
Publish(w) ==
  /\ worker[w].pc = "publish"
  /\ LET m == worker[w].msg
     IN  queue' = queue \union {Message(m.run, m.flow, t) : t \in NextTasks(m)}
  /\ Goto(w, "ack")
  /\ UNCHANGED <<status, artifacts, env>>

Ack(w) ==
  /\ worker[w].pc = "ack"
  /\ worker' = [worker EXCEPT ![w] = Idle]
  /\ UNCHANGED <<status, artifacts, queue, env>>

\* The worker dies: its unacknowledged message returns to the queue.
Crash(w) ==
  /\ worker[w].pc # "idle"
  /\ Fault("crash")
  /\ queue' = queue \union {worker[w].msg}
  /\ worker' = [worker EXCEPT ![w] = Idle]
  /\ UNCHANGED <<status, artifacts>>

\* The broker's visibility timeout ends while the task is still running.
Redeliver(w) ==
  /\ worker[w].pc # "idle"
  /\ Fault("redeliver")
  /\ queue' = queue \union {worker[w].msg}
  /\ UNCHANGED <<status, artifacts, worker>>

-----------------------------------------------------------------------------
(* The dispatching tasks.                                                  *)

\* mark_queued reads the job in one statement ...
MarkRead(w) ==
  /\ At(w, "mark_queued", "begin")
  /\ Goto(w, IF job["initial"] = "uploaded" THEN "write" ELSE "ack")
  /\ UNCHANGED <<status, artifacts, queue, env>>

\* ... and writes it in another.
MarkWrite(w) ==
  /\ At(w, "mark_queued", "write")
  /\ job' = [job EXCEPT !["initial"] = "queued"]
  /\ Goto(w, "ack")
  /\ UNCHANGED <<upload, uploadError, abandoned, artifacts, queue, env>>

\* start_ingestion_pipeline_task creates the missing stage jobs and reuses,
\* with the status they have, the ones that exist ...
StartPipeline(w) ==
  /\ At(w, "start_pipeline", "begin")
  /\ job' = [k \in Kinds |-> IF k \in ChainKinds /\ job[k] = "none" THEN "queued" ELSE job[k]]
  /\ Goto(w, "dispatch")
  /\ UNCHANGED <<upload, uploadError, abandoned, artifacts, queue, env>>

\* ... and queues the first task of the book graph.
DispatchBook(w) ==
  /\ At(w, "start_pipeline", "dispatch")
  /\ queue' = queue \union {Message(worker[w].msg.run, "book", t) : t \in FirstTasks("book")}
  /\ Goto(w, "ack")
  /\ UNCHANGED <<status, artifacts, env>>

\* process_book_task queues the graph of the stage an endpoint asked for.
ProcessBook(w) ==
  /\ At(w, "process_book", "begin")
  /\ LET m == worker[w].msg
     IN  queue' = queue \union {Message(m.run, m.flow, t) : t \in FirstTasks(m.flow)}
  /\ Goto(w, "ack")
  /\ UNCHANGED <<status, artifacts, env>>

-----------------------------------------------------------------------------
(* Extraction: extract_pdf_task and ExtractionRunner.                      *)

ExtractBegin(w) ==
  /\ At(w, "initial", "begin")
  /\ IF pdf = "missing"
       THEN Goto(w, "failJob") /\ UNCHANGED status
       ELSE Goto(w, "open") /\ BeginStage("initial")
  /\ UNCHANGED <<artifacts, queue, env>>

\* The PDF is opened, the pages that have no row yet are listed and the threads
\* parse them slice by slice; the results are joined in the order of the pages.
ExtractOpen(w) ==
  /\ At(w, "initial", "open")
  /\ IF pdf = "good"
       THEN LET parsed == Parsed(MissingPages)
            IN  GotoWith(w, IF parsed = {} THEN "jobDone" ELSE "persist", parsed)
       ELSE Goto(w, "failJob")
  /\ UNCHANGED <<status, artifacts, queue, env>>

\* One checkpoint window is committed. (job_id, page_number) is unique: a row
\* another run has committed meanwhile fails the window, and with it the task.
ExtractPersist(w) ==
  /\ At(w, "initial", "persist")
  /\ LET todo == worker[w].todo
         window == FirstPages(todo, CheckpointPages)
         rest == todo \ window
     IN  IF window \intersect pages = {}
           THEN /\ pages' = pages \union window
                /\ GotoWith(w, IF rest = {} THEN "jobDone" ELSE "persist", rest)
           ELSE GotoWith(w, "error", {}) /\ UNCHANGED pages
  /\ UNCHANGED <<status, doc, chunks, points, queue, env>>

-----------------------------------------------------------------------------
(* Layout: run_layout_task and LayoutRunner.                               *)

\* The layout leaves the upload's status alone until it ends.
LayoutBegin(w) ==
  /\ At(w, "layout", "begin")
  /\ BeginJob("layout")
  /\ worker' = [worker EXCEPT ![w].pc = "read", ![w].loaded = upload]
  /\ UNCHANGED <<upload, uploadError, artifacts, queue, env>>

\* The blocks of the page rows of the runner's own job are classified.
LayoutRead(w) ==
  /\ At(w, "layout", "read")
  /\ GotoWith(w, "jobDone", PagesOf("layout"))
  /\ UNCHANGED <<status, artifacts, queue, env>>

-----------------------------------------------------------------------------
(* Metadata: run_metadata_task and MetadataRunner.                         *)

MetadataBegin(w) ==
  /\ At(w, "metadata", "begin")
  /\ BeginStage("metadata")
  /\ doc' = {}
  /\ Goto(w, "read")
  /\ UNCHANGED <<pages, chunks, points, queue, env>>

\* The runner asks that the pipeline job exists, not that it succeeded.
MetadataRead(w) ==
  /\ At(w, "metadata", "read")
  /\ GotoWith(w, "replace", pages)
  /\ UNCHANGED <<status, artifacts, queue, env>>

\* save_document deletes the job's document and commits ...
MetadataReplace(w) ==
  /\ At(w, "metadata", "replace")
  /\ doc' = {}
  /\ Goto(w, "insert")
  /\ UNCHANGED <<status, pages, chunks, points, queue, env>>

\* ... then inserts the new one; job_id is unique.
MetadataInsert(w) ==
  /\ At(w, "metadata", "insert")
  /\ IF doc = {}
       THEN doc' = {worker[w].todo} /\ GotoWith(w, "jobDone", {})
       ELSE GotoWith(w, "error", {}) /\ UNCHANGED doc
  /\ UNCHANGED <<status, pages, chunks, points, queue, env>>

-----------------------------------------------------------------------------
(* Chunking: run_chunking_task and ChunkRunner.                            *)

ChunkBegin(w) ==
  /\ At(w, "chunking", "begin")
  /\ IF doc = {}
       THEN Goto(w, "failJob") /\ UNCHANGED <<status, chunks>>
       ELSE Goto(w, "read") /\ BeginStage("chunking") /\ chunks' = {}
  /\ UNCHANGED <<pages, doc, points, queue, env>>

ChunkRead(w) ==
  /\ At(w, "chunking", "read")
  /\ GotoWith(w, "replace", pages)
  /\ UNCHANGED <<status, artifacts, queue, env>>

ChunkReplace(w) ==
  /\ At(w, "chunking", "replace")
  /\ chunks' = {}
  /\ Goto(w, "insert")
  /\ UNCHANGED <<status, pages, doc, points, queue, env>>

\* chunk_id, the hash of the text, is the primary key of the table.
ChunkInsert(w) ==
  /\ At(w, "chunking", "insert")
  /\ LET new == worker[w].todo
     IN  IF chunks \intersect new = {}
           THEN chunks' = chunks \union new /\ GotoWith(w, "jobDone", {})
           ELSE GotoWith(w, "error", {}) /\ UNCHANGED chunks
  /\ UNCHANGED <<status, pages, doc, points, queue, env>>

-----------------------------------------------------------------------------
(* Indexing: index_book_chunks, IndexingRunner and embed_chunks_task.      *)

\* Mutant: a book without chunks is indexed.
IndexBeginUnchecked(w) ==
  /\ At(w, "indexing", "begin")
  /\ GotoWith(w, "replace", chunks)
  /\ BeginStage("indexing")
  /\ UNCHANGED <<artifacts, queue, env>>

IndexBegin(w) ==
  /\ At(w, "indexing", "begin")
  /\ IF chunks = {} \/ doc = {}
       THEN Goto(w, "failJob") /\ UNCHANGED status
       ELSE GotoWith(w, "replace", chunks) /\ BeginStage("indexing")
  /\ UNCHANGED <<artifacts, queue, env>>

\* Every point of the upload is deleted, then the chunks that were loaded
\* before are upserted batch by batch.
IndexReplace(w) ==
  /\ At(w, "indexing", "replace")
  /\ points' = {}
  /\ Goto(w, "upsert")
  /\ UNCHANGED <<status, pages, doc, chunks, queue, env>>

IndexUpsert(w) ==
  /\ At(w, "indexing", "upsert")
  /\ LET todo == worker[w].todo
         batch == FirstPages(todo, BatchSize)
         rest == todo \ batch
     IN  /\ points' = points \union batch
         /\ GotoWith(w, IF rest = {} THEN "jobDone" ELSE "upsert", rest)
  /\ UNCHANGED <<status, pages, doc, chunks, queue, env>>

\* The embedding task only warms the cache.
EmbedWarm(w) ==
  /\ At(w, "embed", "begin")
  /\ Goto(w, "publish")
  /\ UNCHANGED <<status, artifacts, queue, env>>

-----------------------------------------------------------------------------
(* How a leaf task ends.                                                   *)

FinishJob(w) ==
  /\ worker[w].pc = "jobDone"
  /\ LET k == worker[w].msg.task
     IN  job' = [job EXCEPT ![k] = DoneStatus[k]]
  /\ Goto(w, "uploadDone")
  /\ UNCHANGED <<upload, uploadError, abandoned, artifacts, queue, env>>

\* The session writes a status only if it differs from the one it has loaded.
\* The error message an earlier failure left on the upload is not cleared.
FinishUpload(w) ==
  /\ worker[w].pc = "uploadDone"
  /\ upload' = IF worker[w].loaded = "completed" THEN upload ELSE "completed"
  /\ Goto(w, "publish")
  /\ UNCHANGED <<uploadError, job, abandoned, artifacts, queue, env>>

\* Any other exception a leaf's body meets (database, storage, vector store).
TransientFault(w) ==
  /\ worker[w].msg.task \in Kinds
  /\ worker[w].pc \in {"begin", "open", "persist", "read", "replace", "insert",
                       "upsert", "jobDone", "uploadDone"}
  /\ Fault("transient")
  /\ GotoWith(w, "error", {})
  /\ UNCHANGED <<status, artifacts, queue>>

\* Mutant: the attempt is acknowledged and no other one is queued.
RetryForgotten(w) ==
  /\ worker[w].pc = "error"
  /\ RetriesLeft(worker[w].msg)
  /\ Goto(w, "ack")
  /\ UNCHANGED <<status, artifacts, queue, env>>

\* The handler queues the same task again while retries are left ...
Retry(w) ==
  /\ worker[w].pc = "error"
  /\ RetriesLeft(worker[w].msg)
  /\ queue' = queue \union {[worker[w].msg EXCEPT !.retries = @ + 1]}
  /\ Goto(w, "ack")
  /\ UNCHANGED <<status, artifacts, env>>

\* Mutant: the last attempt that fails ends like one that succeeded.
RetriesExhaustedSucceeds(w) ==
  /\ worker[w].pc = "error"
  /\ ~RetriesLeft(worker[w].msg)
  /\ Goto(w, "jobDone")
  /\ UNCHANGED <<status, artifacts, queue, env>>

\* ... and treats the failure as permanent when none is.
RetriesExhausted(w) ==
  /\ worker[w].pc = "error"
  /\ ~RetriesLeft(worker[w].msg)
  /\ Goto(w, "failJob")
  /\ UNCHANGED <<status, artifacts, queue, env>>

\* _record_error_and_fail: the job first, then the upload. The task returns
\* normally afterwards, so its chain goes on.
FailJob(w) ==
  /\ worker[w].pc = "failJob"
  /\ job' = [job EXCEPT ![worker[w].msg.task] = "failed"]
  /\ Goto(w, "failUpload")
  /\ UNCHANGED <<upload, uploadError, abandoned, artifacts, queue, env>>

\* Mutant: an upload that an earlier stage reported completed stays so.
FailUploadUnlessCompleted(w) ==
  /\ worker[w].pc = "failUpload"
  /\ upload' = IF upload = "completed" THEN "completed" ELSE "failed"
  /\ uploadError' = "own"
  /\ Goto(w, "publish")
  /\ UNCHANGED <<job, abandoned, artifacts, queue, env>>

FailUpload(w) ==
  /\ worker[w].pc = "failUpload"
  /\ upload' = "failed"
  /\ uploadError' = "own"
  /\ Goto(w, "publish")
  /\ UNCHANGED <<job, abandoned, artifacts, queue, env>>

\* What follows a leaf task that raised: its chain stops and the errback,
\* where there is one, runs before the acknowledgement.
Raised(w) ==
  LET m == worker[w].msg
  IN  /\ GotoWith(w, IF HasErrback(m) THEN "errback" ELSE "ack", {})
      /\ abandoned' = IF m.flow \in Unlinked THEN abandoned \union {m.task} ELSE abandoned
      /\ UNCHANGED <<upload, uploadError, job, artifacts, queue>>

\* A leaf task raises out of its handler, or its process is lost.
LeafRaises(w) ==
  /\ worker[w].msg.task \in Leaves
  /\ worker[w].pc \notin {"idle", "ack", "errback", "failActive"}
  /\ Fault("raise")
  /\ Raised(w)

\* The embedding task handles no exception: an embedder that fails makes it raise.
EmbedFails(w) ==
  /\ At(w, "embed", "begin")
  /\ Fault("embed")
  /\ Raised(w)

\* A dispatching task cannot reach the broker or the database: it raises, and
\* nothing handles that.
DispatchFails(w) ==
  /\ worker[w].msg.task \notin Leaves
  /\ worker[w].pc \notin {"idle", "ack"}
  /\ Fault("lost")
  /\ Goto(w, "ack")
  /\ UNCHANGED <<status, artifacts, queue>>

-----------------------------------------------------------------------------
(* fail_book_jobs.                                                         *)

ListActive(w) ==
  /\ worker[w].pc = "errback"
  /\ Become(w, "failActive", {}, {k \in Kinds : job[k] \in ActiveStatuses})
  /\ UNCHANGED <<status, artifacts, queue, env>>

\* One commit per job that was listed, whatever its status has become.
FailActive(w) ==
  /\ worker[w].pc = "failActive"
  /\ \E k \in worker[w].failing :
       /\ job' = [job EXCEPT ![k] = "failed"]
       /\ Become(w, "failActive", {}, worker[w].failing \ {k})
  /\ UNCHANGED <<upload, uploadError, abandoned, artifacts, queue, env>>

FailBook(w) ==
  /\ worker[w].pc = "failActive"
  /\ worker[w].failing = {}
  /\ upload' = "failed"
  /\ uploadError' = "upstream"
  /\ Goto(w, "ack")
  /\ UNCHANGED <<job, abandoned, artifacts, queue, env>>

\* The database fails it: the jobs it has failed stay failed, those that are
\* left stay as they are, and it is not run again. Of these only the job of the
\* task that raised has nobody else to end it.
ErrbackFails(w) ==
  /\ worker[w].pc \in {"errback", "failActive"}
  /\ Fault("raise")
  /\ LET left == IF worker[w].pc = "errback" THEN Kinds ELSE worker[w].failing
     IN  abandoned' = abandoned \union (left \intersect {worker[w].msg.task})
  /\ GotoWith(w, "ack", {})
  /\ UNCHANGED <<upload, uploadError, job, artifacts, queue>>

-----------------------------------------------------------------------------
(* The stage endpoints.                                                    *)

\* What each start_* handler demands before it accepts a call: never that the
\* other stages of the upload are at rest.
AcceptsExtraction == pdf # "missing" /\ job["initial"] \notin InFlightStatuses

AcceptsLayout == job["initial"] = "completed" /\ job["layout"] \notin InFlightStatuses

AcceptsMetadata == job["initial"] = "completed" /\ job["metadata"] \notin InFlightStatuses

AcceptsChunking ==
  /\ job["initial"] = "completed"
  /\ job["metadata"] = "completed" /\ doc # {}
  /\ job["chunking"] \notin InFlightStatuses

AcceptsIndexing ==
  /\ job["chunking"] = "completed" /\ chunks # {}
  /\ job["indexing"] \notin InFlightStatuses

Accepts(stage) ==
  \/ stage = "initial" /\ AcceptsExtraction
  \/ stage = "layout" /\ AcceptsLayout
  \/ stage = "metadata" /\ AcceptsMetadata
  \/ stage = "chunking" /\ AcceptsChunking
  \/ stage = "indexing" /\ AcceptsIndexing

\* The rows are loaded and checked in one transaction ...
Request(stage) ==
  /\ api.pc = "idle"
  /\ stage \in Restarts
  /\ requests < MaxRequests
  /\ Accepts(stage)
  /\ requests' = requests + 1
  /\ api' = [pc |-> IF stage = "initial" THEN "clear" ELSE "reset", stage |-> stage,
             job |-> job[stage], upload |-> upload, error |-> uploadError]
  /\ UNCHANGED <<status, artifacts, queue, worker, pdf, faults>>

ClearPages ==
  /\ api.pc = "clear"
  /\ pages' = {}
  /\ api' = [api EXCEPT !.pc = "reset"]
  /\ UNCHANGED <<status, doc, chunks, points, queue, worker, pdf, requests, faults>>

\* ... and written in later ones. The session keeps the values it loaded and
\* writes an attribute only if the new value differs from them.
ResetJob ==
  /\ api.pc = "reset"
  /\ job' = IF api.job = "queued" THEN job ELSE [job EXCEPT ![api.stage] = "queued"]
  /\ api' = [api EXCEPT !.pc = "mark"]
  /\ UNCHANGED <<upload, uploadError, abandoned, artifacts, queue, worker, pdf, requests, faults>>

MarkUpload ==
  /\ api.pc = "mark"
  /\ upload' = IF api.upload = "queued" THEN upload ELSE "queued"
  /\ uploadError' = IF api.error = "none" THEN uploadError ELSE "none"
  /\ api' = [api EXCEPT !.pc = "dispatch"]
  /\ UNCHANGED <<job, abandoned, artifacts, queue, worker, pdf, requests, faults>>

\* The layout and the metadata endpoint queue their leaf task, the others
\* process_book_task.
DispatchStage ==
  /\ api.pc = "dispatch"
  /\ LET task == IF api.stage \in {"layout", "metadata"} THEN api.stage ELSE "process_book"
     IN  queue' = queue \union {Message(requests, api.stage, task)}
  /\ api' = NoRequest
  /\ UNCHANGED <<status, artifacts, worker, pdf, requests, faults>>

\* The broker is unreachable, which the handler only logs, or the web process
\* dies in the middle of the call.
RequestLost ==
  /\ api.pc # "idle"
  /\ IF api.pc = "dispatch" THEN {"lost", "crash"} \intersect FaultKinds # {}
                            ELSE "crash" \in FaultKinds
  /\ faults < MaxFaults
  /\ faults' = faults + 1
  /\ api' = NoRequest
  /\ UNCHANGED <<status, artifacts, queue, worker, pdf, requests>>

-----------------------------------------------------------------------------
(* The next-state relation.                                                *)

Dispatching(w) ==
  MarkRead(w) \/ MarkWrite(w) \/ StartPipeline(w) \/ DispatchBook(w) \/ ProcessBook(w)

Extracting(w) == ExtractBegin(w) \/ ExtractOpen(w) \/ ExtractPersist(w)

Structuring(w) ==
  \/ LayoutBegin(w) \/ LayoutRead(w)
  \/ MetadataBegin(w) \/ MetadataRead(w) \/ MetadataReplace(w) \/ MetadataInsert(w)
  \/ ChunkBegin(w) \/ ChunkRead(w) \/ ChunkReplace(w) \/ ChunkInsert(w)

Indexing(w) == IndexBegin(w) \/ IndexReplace(w) \/ IndexUpsert(w) \/ EmbedWarm(w)

Ending(w) ==
  \/ FinishJob(w) \/ FinishUpload(w)
  \/ Retry(w) \/ RetriesExhausted(w) \/ FailJob(w) \/ FailUpload(w)
  \/ ListActive(w) \/ FailActive(w) \/ FailBook(w)

WorkerStep(w) ==
  \/ Deliver(w) \/ Publish(w) \/ Ack(w)
  \/ Dispatching(w) \/ Extracting(w) \/ Structuring(w) \/ Indexing(w) \/ Ending(w)

ApiStep == ClearPages \/ ResetJob \/ MarkUpload \/ DispatchStage

WorkerFault(w) ==
  \/ Crash(w) \/ Redeliver(w)
  \/ TransientFault(w) \/ LeafRaises(w) \/ EmbedFails(w) \/ ErrbackFails(w) \/ DispatchFails(w)

Next ==
  \/ \E w \in Workers : WorkerStep(w) \/ WorkerFault(w)
  \/ \E stage \in Kinds : Request(stage)
  \/ ApiStep
  \/ RequestLost

Spec == Init /\ [][Next]_vars

\* A worker that can take a step takes one, and a request that was accepted
\* goes on; faults and calls of the endpoints may never happen.
FairSpec == Spec /\ (\A w \in Workers : WF_vars(WorkerStep(w))) /\ WF_vars(ApiStep)

-----------------------------------------------------------------------------
(* Properties.                                                             *)

Quiet == queue = {} /\ api.pc = "idle" /\ \A w \in Workers : worker[w].pc = "idle"

\* An extraction job is reported completed only when every page of the book
\* has its row, however often the extraction was retried, resumed after a
\* crash or delivered twice (ExtractionRunner.run skips the pages it finds).
CompletedExtractionIsWhole == job["initial"] = "completed" => pages = Pages

\* When nothing is left to do no job keeps an in-flight status, for which the
\* start_* handlers would answer 409 for ever, however the runs of a stage and
\* the errbacks of others overlap: unless its last run raised, and either has no
\* errback (layout, metadata endpoint) or one that failed before it came to it.
NoLockout == Quiet => \A k \in Kinds : job[k] \in InFlightStatuses => k \in abandoned

\* When nothing is left to do the upload and every job of the chain have ended.
NoStuckJobs ==
  Quiet => upload \in {"completed", "failed"} /\ \A k \in ChainKinds : job[k] \in FinalStatuses

\* When nothing is left to do and the book was extracted, a stage whose job
\* reports success has its whole output: the document maps every page, every
\* page is chunked, every page of a book that was chunked is in the vector
\* store. Each stage deletes the output of its last run in a commit of its own
\* and writes the new one later, and a stage that failed does not stop the next.
StagesAreWhole ==
  Quiet /\ job["initial"] = "completed" =>
    /\ job["metadata"] = "completed" => doc = {Pages}
    /\ job["chunking"] = "completed" => chunks = Pages
    /\ job["chunking"] = "completed" /\ job["indexing"] = "indexed" => points = Pages

\* When nothing is left to do the upload is completed exactly if the last
\* stage of the chain has indexed the book.
VerdictMatchesIndex == Quiet => (upload = "completed" <=> job["indexing"] = "indexed")

\* A layout run that is about to report success has classified every page of
\* the book (run_layout_task: "Run Phase 5 layout analysis on stored page rows").
LayoutClassifiesPages ==
  \A w \in Workers : At(w, "layout", "jobDone") => worker[w].todo = pages

\* Every behaviour of the workers comes to an end with all jobs ended.
BookSettles == <>[](Quiet /\ NoStuckJobs)

=============================================================================
