----------------------- MODULE IngestionPipelineProofs -----------------------
(***************************************************************************)
(* Proofs about IngestionPipeline and the slices of PageSlices, for every  *)
(* number of workers, threads, pages, retries, calls of the endpoints and  *)
(* faults.                                                                 *)
(***************************************************************************)
EXTENDS IngestionPipeline, FiniteSetTheorems, TLAPS

-----------------------------------------------------------------------------
(* The slices of an extraction: every missing page is parsed, and by one   *)
(* thread only.                                                            *)

\* A slice has at least one page's length.
LEMMA SliceSizeType ==
  ASSUME NEW n \in Nat
  PROVE  SliceSize(n) \in Nat \ {0}
BY ThreadsAssumption DEF SliceSize

\* A position lies within the list.
LEMMA PositionInList ==
  ASSUME NEW missing \in SUBSET Int, IsFiniteSet(missing), NEW p \in missing
  PROVE  Position(missing, p) \in 0 .. Cardinality(missing) - 1
<1> DEFINE before == {q \in missing : q < p}
<1>1. before \subseteq missing \ {p}
  OBVIOUS
<1>2. /\ IsFiniteSet(missing \ {p})
      /\ Cardinality(missing \ {p}) = Cardinality(missing) - 1
  BY FS_RemoveElement
<1>3. /\ IsFiniteSet(before)
      /\ Cardinality(before) <= Cardinality(missing \ {p})
  BY <1>1, <1>2, FS_Subset
<1>4. Cardinality(before) \in Nat /\ Cardinality(missing) \in Nat
  BY <1>3, FS_CardinalityType
<1> QED BY <1>2, <1>3, <1>4 DEF Position

\* The multiple of d below r starts the d positions r is one of.
LEMMA RoundedDown ==
  ASSUME NEW r \in Nat, NEW d \in Nat \ {0}
  PROVE  /\ r - (r % d) \in 0 .. r
         /\ (r - (r % d)) % d = 0
         /\ r \in (r - (r % d)) .. (r - (r % d)) + d - 1
OBVIOUS

\* Two multiples of d whose d positions meet are equal.
LEMMA MultiplesApart ==
  ASSUME NEW i \in Nat, NEW j \in Nat, NEW d \in Nat \ {0},
         i % d = 0, j % d = 0, i <= j, j <= i + d - 1
  PROVE  i = j
<1> DEFINE a == i \div d
           b == j \div d
<1>1. a \in Int /\ b \in Int
  OBVIOUS
<1>2. i = d * a /\ j = d * b
  OBVIOUS
<1>3. CASE b >= a + 1
  <2>1. d * b >= d * (a + 1)
    <3> HIDE DEF a, b
    <3> QED BY <1>1, <1>3
  <2>2. d * (a + 1) = d * a + d
    <3> HIDE DEF a, b
    <3> QED BY <1>1
  <2>3. d * a \in Int /\ d * b \in Int
    BY <1>2
  <2> HIDE DEF a, b
  <2> QED BY <1>2, <2>1, <2>2, <2>3
<1>4. CASE b <= a - 1
  <2>1. d * b <= d * (a - 1)
    <3> HIDE DEF a, b
    <3> QED BY <1>1, <1>4
  <2>2. d * (a - 1) = d * a - d
    <3> HIDE DEF a, b
    <3> QED BY <1>1
  <2>3. d * a \in Int /\ d * b \in Int
    BY <1>2
  <2> HIDE DEF a, b
  <2> QED BY <1>2, <2>1, <2>2, <2>3
<1> HIDE DEF a, b
<1> QED BY <1>1, <1>2, <1>3, <1>4

\* The slices lose no page and add none, whatever the number of threads.
THEOREM SlicesCover ==
  ASSUME NEW missing \in SUBSET Int, IsFiniteSet(missing)
  PROVE  Parsed(missing) = missing
<1> DEFINE n == Cardinality(missing)
           d == SliceSize(n)
<1>1. n \in Nat /\ d \in Nat \ {0}
  BY FS_CardinalityType, SliceSizeType
<1>2. Parsed(missing) \subseteq missing
  BY DEF Parsed, Slice
<1>3. ASSUME NEW p \in missing PROVE p \in Parsed(missing)
  <2> DEFINE r == Position(missing, p)
             i == r - (r % d)
  <2>1. r \in 0 .. n - 1 /\ r \in Nat
    BY PositionInList, <1>1
  <2>2. i \in 0 .. r /\ i % d = 0 /\ r \in i .. i + d - 1
    BY <1>1, <2>1, RoundedDown
  <2>3. i \in SliceStarts(n)
    BY <1>1, <2>1, <2>2 DEF SliceStarts
  <2>4. p \in Slice(missing, i)
    BY <2>2 DEF Slice
  <2> QED BY <2>3, <2>4 DEF Parsed
<1> QED BY <1>2, <1>3

\* No page is parsed by two threads.
THEOREM SlicesDisjoint ==
  ASSUME NEW missing \in SUBSET Int, IsFiniteSet(missing),
         NEW i \in SliceStarts(Cardinality(missing)),
         NEW j \in SliceStarts(Cardinality(missing)), i # j
  PROVE  Slice(missing, i) \intersect Slice(missing, j) = {}
<1> DEFINE n == Cardinality(missing)
           d == SliceSize(n)
<1>1. n \in Nat /\ d \in Nat \ {0}
  BY FS_CardinalityType, SliceSizeType
<1>2. i \in Nat /\ j \in Nat /\ i % d = 0 /\ j % d = 0
  BY <1>1 DEF SliceStarts
<1> SUFFICES ASSUME NEW p \in Slice(missing, i), p \in Slice(missing, j) PROVE FALSE
  OBVIOUS
<1>3. PICK r \in Nat : r \in i .. i + d - 1 /\ r \in j .. j + d - 1
  <2>1. Position(missing, p) \in Nat
    BY PositionInList, <1>1 DEF Slice
  <2> QED BY <2>1 DEF Slice
<1>4. CASE i <= j
  <2>1. j <= i + d - 1 BY <1>1, <1>2, <1>3
  <2> QED BY <1>1, <1>2, <1>4, <2>1, MultiplesApart
<1>5. CASE j <= i
  <2>1. i <= j + d - 1 BY <1>1, <1>2, <1>3
  <2> QED BY <1>1, <1>2, <1>5, <2>1, MultiplesApart
<1> QED BY <1>2, <1>4, <1>5

-----------------------------------------------------------------------------
(* Types.                                                                  *)

\* The fields of a message.
LEMMA MessageFields ==
  ASSUME NEW m \in Messages
  PROVE  /\ m.run \in 0 .. MaxRequests
         /\ m.flow \in Flows
         /\ m.task \in Tasks
         /\ m.retries \in 0 .. MaxRetries
BY DEF Messages

\* A message built from a run, a flow and a task.
LEMMA MessageType ==
  ASSUME NEW run \in 0 .. MaxRequests, NEW flow \in Flows, NEW task \in Tasks
  PROVE  Message(run, flow, task) \in Messages
BY BoundsAssumption DEF Message, Messages

\* The states Ack, Crash and Deliver put a worker in.
LEMMA RestTypes ==
  /\ Idle \in WorkerStates
  /\ \A m \in Messages : Started(m) \in WorkerStates
<1>1. NoMessage \in Messages
  BY MessageType, BoundsAssumption DEF NoMessage, Flows, Tasks
<1> QED BY <1>1 DEF Idle, Started, WorkerStates, WorkerPcs, UploadStatuses

\* The fields of a worker.
LEMMA WorkerFields ==
  ASSUME TypeOK, NEW w \in Workers
  PROVE  /\ worker[w] \in WorkerStates
         /\ worker[w].pc \in WorkerPcs
         /\ worker[w].msg \in Messages
         /\ worker[w].todo \subseteq Pages
         /\ worker[w].failing \subseteq Kinds
         /\ worker[w].loaded \in UploadStatuses
BY DEF TypeOK, WorkerStates

\* Goto changes the pc of one worker only.
LEMMA GotoType ==
  ASSUME TypeOK, NEW w \in Workers, NEW pc \in WorkerPcs, Goto(w, pc)
  PROVE  worker' \in [Workers -> WorkerStates]
BY DEF TypeOK, Goto, WorkerStates

\* Become gives it a new state with the same message ...
LEMMA BecomeType ==
  ASSUME TypeOK, NEW w \in Workers, NEW pc \in WorkerPcs, NEW todo \in SUBSET Pages,
         NEW failing \in SUBSET Kinds, Become(w, pc, todo, failing)
  PROVE  worker' \in [Workers -> WorkerStates]
<1>1. [worker[w] EXCEPT !.pc = pc, !.todo = todo, !.failing = failing] \in WorkerStates
  BY WorkerFields DEF WorkerStates
<1> QED BY <1>1 DEF TypeOK, Become

\* ... and GotoWith one without jobs to fail.
LEMMA GotoWithType ==
  ASSUME TypeOK, NEW w \in Workers, NEW pc \in WorkerPcs,
         NEW todo \in SUBSET Pages, GotoWith(w, pc, todo)
  PROVE  worker' \in [Workers -> WorkerStates]
BY BecomeType DEF GotoWith

\* The statuses a stage goes through.
LEMMA StageStatuses ==
  ASSUME NEW k \in Kinds
  PROVE  BeginStatus[k] \in InFlightStatuses /\ DoneStatus[k] \in FinalStatuses
BY DEF Kinds, ChainKinds, BeginStatus, DoneStatus, InFlightStatuses, FinalStatuses

\* Every in-flight status is active, and no final one is.
LEMMA StatusSets ==
  /\ InFlightStatuses \subseteq ActiveStatuses
  /\ ActiveStatuses \subseteq JobStatuses
  /\ FinalStatuses \subseteq JobStatuses
  /\ FinalStatuses \intersect ActiveStatuses = {}
BY DEF InFlightStatuses, ActiveStatuses, FinalStatuses, JobStatuses

\* The tasks that start a flow or follow a task of it are leaf tasks.
LEMMA FlowTasks ==
  /\ \A flow \in Flows : FirstTasks(flow) \subseteq Leaves
  /\ \A m \in Messages : NextTasks(m) \subseteq Leaves
  /\ Leaves \subseteq Tasks
<1>1. ASSUME NEW flow \in Flows PROVE FirstTasks(flow) \subseteq Leaves
  BY DEF FirstTasks, Leaves, Flows, Kinds, ChainKinds
<1>2. ASSUME NEW m \in Messages PROVE NextTasks(m) \subseteq Leaves
  BY DEF NextTasks, Leaves, Kinds, ChainKinds
<1> QED BY <1>1, <1>2 DEF Leaves, Tasks

\* A step of the broker keeps the types.
LEMMA BrokerTypes ==
  ASSUME TypeOK, NEW w \in Workers, Deliver(w) \/ Publish(w) \/ Ack(w)
  PROVE  TypeOK'
<1>1. CASE Deliver(w)
  <2>1. PICK m \in queue : queue' = queue \ {m} /\ worker' = [worker EXCEPT ![w] = Started(m)]
    BY <1>1 DEF Deliver
  <2>2. Started(m) \in WorkerStates
    BY RestTypes DEF TypeOK
  <2> QED BY <1>1, <2>1, <2>2 DEF TypeOK, Deliver, status, artifacts, env
<1>2. CASE Publish(w)
  <2> DEFINE m == worker[w].msg
  <2>1. {Message(m.run, m.flow, t) : t \in NextTasks(m)} \subseteq Messages
    BY WorkerFields, MessageFields, MessageType, FlowTasks
  <2>2. worker' \in [Workers -> WorkerStates]
    BY <1>2, GotoType DEF Publish, WorkerPcs
  <2> QED BY <1>2, <2>1, <2>2 DEF TypeOK, Publish, status, artifacts, env
<1>3. CASE Ack(w)
  BY <1>3, RestTypes DEF TypeOK, Ack, status, artifacts, env
<1> QED BY <1>1, <1>2, <1>3

\* A step of a dispatching task keeps the types.
LEMMA DispatchingTypes ==
  ASSUME TypeOK, NEW w \in Workers, Dispatching(w)
  PROVE  TypeOK'
<1> USE DEF status, artifacts, env
<1>1. CASE MarkRead(w)
  <2>1. worker' \in [Workers -> WorkerStates]
    BY <1>1, GotoType DEF MarkRead, WorkerPcs
  <2> QED BY <1>1, <2>1 DEF TypeOK, MarkRead
<1>2. CASE MarkWrite(w)
  <2>1. worker' \in [Workers -> WorkerStates]
    BY <1>2, GotoType DEF MarkWrite, WorkerPcs
  <2> QED BY <1>2, <2>1 DEF TypeOK, MarkWrite, JobStatuses, ActiveStatuses
<1>3. CASE StartPipeline(w)
  <2>1. worker' \in [Workers -> WorkerStates]
    BY <1>3, GotoType DEF StartPipeline, WorkerPcs
  <2> QED BY <1>3, <2>1 DEF TypeOK, StartPipeline, JobStatuses, ActiveStatuses
<1>4. CASE DispatchBook(w)
  <2> DEFINE m == worker[w].msg
  <2>1. {Message(m.run, "book", t) : t \in FirstTasks("book")} \subseteq Messages
    <3>1. "book" \in Flows BY DEF Flows
    <3> QED BY <3>1, WorkerFields, MessageFields, MessageType, FlowTasks
  <2>2. worker' \in [Workers -> WorkerStates]
    BY <1>4, GotoType DEF DispatchBook, WorkerPcs
  <2> QED BY <1>4, <2>1, <2>2 DEF TypeOK, DispatchBook
<1>5. CASE ProcessBook(w)
  <2> DEFINE m == worker[w].msg
  <2>1. {Message(m.run, m.flow, t) : t \in FirstTasks(m.flow)} \subseteq Messages
    BY WorkerFields, MessageFields, MessageType, FlowTasks
  <2>2. worker' \in [Workers -> WorkerStates]
    BY <1>5, GotoType DEF ProcessBook, WorkerPcs
  <2> QED BY <1>5, <2>1, <2>2 DEF TypeOK, ProcessBook
<1> QED BY <1>1, <1>2, <1>3, <1>4, <1>5 DEF Dispatching

\* The threads parse the missing pages, all of them and no other.
LEMMA AllParsed ==
  ASSUME TypeOK
  PROVE  MissingPages \subseteq Pages /\ Parsed(MissingPages) = MissingPages
<1>1. PageCount \in Nat /\ MissingPages \subseteq Pages
  BY PagesAssumption DEF MissingPages
<1>2. IsFiniteSet(MissingPages)
  <2>1. IsFiniteSet(Pages)
    BY <1>1, FS_Interval DEF Pages
  <2> QED BY <1>1, <2>1, FS_Subset
<1>3. MissingPages \in SUBSET Int
  BY <1>1 DEF Pages
<1> QED BY <1>1, <1>2, <1>3, SlicesCover

\* A step of the extraction keeps the types.
LEMMA ExtractingTypes ==
  ASSUME TypeOK, NEW w \in Workers, Extracting(w)
  PROVE  TypeOK'
<1> USE DEF status, artifacts, env
<1>1. CASE ExtractBegin(w)
  <2>1. worker' \in [Workers -> WorkerStates]
    BY <1>1, GotoType DEF ExtractBegin, WorkerPcs
  <2>2. /\ upload' \in UploadStatuses /\ uploadError' \in ErrorMessages /\ job' \in [Kinds -> JobStatuses]
        /\ abandoned' \subseteq Leaves
    BY <1>1, StageStatuses, StatusSets DEF TypeOK, ExtractBegin, BeginStage, BeginJob, UploadStatuses, Kinds, ChainKinds
  <2> QED BY <1>1, <2>1, <2>2 DEF TypeOK, ExtractBegin
<1>2. CASE ExtractOpen(w)
  <2>1. Parsed(MissingPages) \subseteq Pages
    BY AllParsed
  <2>2. worker' \in [Workers -> WorkerStates]
    BY <1>2, <2>1, GotoType, GotoWithType DEF ExtractOpen, WorkerPcs
  <2> QED BY <1>2, <2>2 DEF TypeOK, ExtractOpen
<1>3. CASE ExtractPersist(w)
  <2> DEFINE todo == worker[w].todo
             window == FirstPages(todo, CheckpointPages)
             rest == todo \ window
  <2>1. window \subseteq Pages /\ rest \subseteq Pages
    BY WorkerFields DEF FirstPages
  <2>2. worker' \in [Workers -> WorkerStates]
    BY <1>3, <2>1, GotoWithType DEF ExtractPersist, WorkerPcs
  <2> QED BY <1>3, <2>1, <2>2 DEF TypeOK, ExtractPersist
<1> QED BY <1>1, <1>2, <1>3 DEF Extracting

\* A step of the metadata or the chunking task keeps the types.
LEMMA StructuringTypes ==
  ASSUME TypeOK, NEW w \in Workers, Structuring(w)
  PROVE  TypeOK'
<1> USE DEF status, artifacts, env
<1>1. CASE MetadataBegin(w)
  <2>1. worker' \in [Workers -> WorkerStates]
    BY <1>1, GotoType DEF MetadataBegin, WorkerPcs
  <2>2. /\ upload' \in UploadStatuses /\ uploadError' \in ErrorMessages /\ job' \in [Kinds -> JobStatuses]
        /\ abandoned' \subseteq Leaves
    BY <1>1, StageStatuses, StatusSets DEF TypeOK, MetadataBegin, BeginStage, BeginJob, UploadStatuses, Kinds, ChainKinds
  <2> QED BY <1>1, <2>1, <2>2 DEF TypeOK, MetadataBegin
<1>2. CASE MetadataRead(w)
  <2>1. worker' \in [Workers -> WorkerStates]
    BY <1>2, GotoWithType DEF MetadataRead, WorkerPcs, TypeOK
  <2> QED BY <1>2, <2>1 DEF TypeOK, MetadataRead
<1>3. CASE MetadataReplace(w)
  <2>1. worker' \in [Workers -> WorkerStates]
    BY <1>3, GotoType DEF MetadataReplace, WorkerPcs
  <2> QED BY <1>3, <2>1 DEF TypeOK, MetadataReplace
<1>4. CASE MetadataInsert(w)
  <2>1. worker' \in [Workers -> WorkerStates]
    BY <1>4, GotoWithType DEF MetadataInsert, WorkerPcs
  <2>2. doc' \subseteq SUBSET Pages
    BY <1>4, WorkerFields DEF TypeOK, MetadataInsert
  <2> QED BY <1>4, <2>1, <2>2 DEF TypeOK, MetadataInsert
<1>5. CASE ChunkBegin(w)
  <2>1. worker' \in [Workers -> WorkerStates]
    BY <1>5, GotoType DEF ChunkBegin, WorkerPcs
  <2>2. /\ upload' \in UploadStatuses /\ uploadError' \in ErrorMessages /\ job' \in [Kinds -> JobStatuses]
        /\ abandoned' \subseteq Leaves
    BY <1>5, StageStatuses, StatusSets DEF TypeOK, ChunkBegin, BeginStage, BeginJob, UploadStatuses, Kinds, ChainKinds
  <2> QED BY <1>5, <2>1, <2>2 DEF TypeOK, ChunkBegin
<1>6. CASE ChunkRead(w)
  <2>1. worker' \in [Workers -> WorkerStates]
    BY <1>6, GotoWithType DEF ChunkRead, WorkerPcs, TypeOK
  <2> QED BY <1>6, <2>1 DEF TypeOK, ChunkRead
<1>7. CASE ChunkReplace(w)
  <2>1. worker' \in [Workers -> WorkerStates]
    BY <1>7, GotoType DEF ChunkReplace, WorkerPcs
  <2> QED BY <1>7, <2>1 DEF TypeOK, ChunkReplace
<1>8. CASE ChunkInsert(w)
  <2>1. worker' \in [Workers -> WorkerStates]
    BY <1>8, GotoWithType DEF ChunkInsert, WorkerPcs
  <2>2. chunks' \subseteq Pages
    BY <1>8, WorkerFields DEF TypeOK, ChunkInsert
  <2> QED BY <1>8, <2>1, <2>2 DEF TypeOK, ChunkInsert
<1>9. CASE LayoutBegin(w)
  <2>1. worker' \in [Workers -> WorkerStates]
    <3>1. [worker[w] EXCEPT !.pc = "read", !.loaded = upload] \in WorkerStates
      <4>1. worker[w] \in WorkerStates
        BY DEF TypeOK
      <4>2. upload \in UploadStatuses
        BY DEF TypeOK
      <4> QED
        BY <4>1, <4>2 DEF WorkerStates, WorkerPcs
    <3>2. worker' = [worker EXCEPT ![w] = [worker[w] EXCEPT !.pc = "read", !.loaded = upload]]
      BY <1>9 DEF LayoutBegin, BeginJob, TypeOK, WorkerStates
    <3> QED BY <3>1, <3>2 DEF TypeOK
  <2>2. job' \in [Kinds -> JobStatuses]
    BY <1>9, StageStatuses, StatusSets DEF TypeOK, LayoutBegin, BeginJob, Kinds, ChainKinds
  <2> QED BY <1>9, <2>1, <2>2 DEF TypeOK, LayoutBegin, BeginJob
<1>10. CASE LayoutRead(w)
  <2>1. PagesOf("layout") \subseteq Pages
    BY DEF PagesOf
  <2>2. worker' \in [Workers -> WorkerStates]
    BY <1>10, <2>1, GotoWithType DEF LayoutRead, WorkerPcs
  <2> QED BY <1>10, <2>2 DEF TypeOK, LayoutRead
<1> QED BY <1>1, <1>2, <1>3, <1>4, <1>5, <1>6, <1>7, <1>8, <1>9, <1>10 DEF Structuring

\* A step of the indexing or the embedding task keeps the types.
LEMMA IndexingTypes ==
  ASSUME TypeOK, NEW w \in Workers, Indexing(w)
  PROVE  TypeOK'
<1> USE DEF status, artifacts, env
<1>1. CASE IndexBegin(w)
  <2>1. worker' \in [Workers -> WorkerStates]
    BY <1>1, GotoType, GotoWithType DEF IndexBegin, WorkerPcs, TypeOK
  <2>2. /\ upload' \in UploadStatuses /\ uploadError' \in ErrorMessages /\ job' \in [Kinds -> JobStatuses]
        /\ abandoned' \subseteq Leaves
    BY <1>1, StageStatuses, StatusSets DEF TypeOK, IndexBegin, BeginStage, BeginJob, UploadStatuses, Kinds, ChainKinds
  <2> QED BY <1>1, <2>1, <2>2 DEF TypeOK, IndexBegin
<1>2. CASE IndexReplace(w)
  <2>1. worker' \in [Workers -> WorkerStates]
    BY <1>2, GotoType DEF IndexReplace, WorkerPcs
  <2> QED BY <1>2, <2>1 DEF TypeOK, IndexReplace
<1>3. CASE IndexUpsert(w)
  <2> DEFINE todo == worker[w].todo
             batch == FirstPages(todo, BatchSize)
             rest == todo \ batch
  <2>1. batch \subseteq Pages /\ rest \subseteq Pages
    BY WorkerFields DEF FirstPages
  <2>2. worker' \in [Workers -> WorkerStates]
    BY <1>3, <2>1, GotoWithType DEF IndexUpsert, WorkerPcs
  <2> QED BY <1>3, <2>1, <2>2 DEF TypeOK, IndexUpsert
<1>4. CASE EmbedWarm(w)
  <2>1. worker' \in [Workers -> WorkerStates]
    BY <1>4, GotoType DEF EmbedWarm, WorkerPcs
  <2> QED BY <1>4, <2>1 DEF TypeOK, EmbedWarm
<1> QED BY <1>1, <1>2, <1>3, <1>4 DEF Indexing

\* A step that ends a leaf task, or one of the errback, keeps the types.
LEMMA EndingTypes ==
  ASSUME TypeOK, NEW w \in Workers, Ending(w)
  PROVE  TypeOK'
<1> USE DEF status, artifacts, env
<1>1. CASE FinishJob(w)
  <2>1. worker' \in [Workers -> WorkerStates]
    BY <1>1, GotoType DEF FinishJob, WorkerPcs
  <2>2. job' \in [Kinds -> JobStatuses]
    <3> DEFINE k == worker[w].msg.task
    <3>1. job' = [job EXCEPT ![k] = DoneStatus[k]]
      BY <1>1 DEF FinishJob
    <3>2. k \in Kinds => DoneStatus[k] \in JobStatuses
      BY StageStatuses, StatusSets
    <3> QED BY <3>1, <3>2 DEF TypeOK
  <2> QED BY <1>1, <2>1, <2>2 DEF TypeOK, FinishJob
<1>2. CASE FinishUpload(w)
  <2>1. worker' \in [Workers -> WorkerStates]
    BY <1>2, GotoType DEF FinishUpload, WorkerPcs
  <2> QED BY <1>2, <2>1 DEF TypeOK, FinishUpload, UploadStatuses
<1>3. CASE Retry(w)
  <2>1. worker' \in [Workers -> WorkerStates]
    BY <1>3, GotoType DEF Retry, WorkerPcs
  <2>2. [worker[w].msg EXCEPT !.retries = @ + 1] \in Messages
    <3> DEFINE m == worker[w].msg
    <3>1. m \in Messages /\ m.retries \in Nat /\ m.retries < MaxRetries
      BY <1>3, WorkerFields, MessageFields, BoundsAssumption DEF Retry, RetriesLeft
    <3>2. m.retries + 1 \in 0 .. MaxRetries
      BY <3>1, BoundsAssumption
    <3> QED BY <3>1, <3>2 DEF Messages
  <2> QED BY <1>3, <2>1, <2>2 DEF TypeOK, Retry
<1>4. CASE RetriesExhausted(w)
  <2>1. worker' \in [Workers -> WorkerStates]
    BY <1>4, GotoType DEF RetriesExhausted, WorkerPcs
  <2> QED BY <1>4, <2>1 DEF TypeOK, RetriesExhausted
<1>5. CASE FailJob(w)
  <2>1. worker' \in [Workers -> WorkerStates]
    BY <1>5, GotoType DEF FailJob, WorkerPcs
  <2> QED BY <1>5, <2>1 DEF TypeOK, FailJob, JobStatuses, FinalStatuses
<1>6. CASE FailUpload(w)
  <2>1. worker' \in [Workers -> WorkerStates]
    BY <1>6, GotoType DEF FailUpload, WorkerPcs
  <2> QED BY <1>6, <2>1 DEF TypeOK, FailUpload, UploadStatuses, ErrorMessages
<1>7. CASE ListActive(w)
  <2>1. worker' \in [Workers -> WorkerStates]
    <3> DEFINE failing == {k \in Kinds : job[k] \in ActiveStatuses}
    <3>1. Become(w, "failActive", {}, failing)
      BY <1>7 DEF ListActive
    <3>2. "failActive" \in WorkerPcs /\ {} \in SUBSET Pages /\ failing \in SUBSET Kinds
      BY DEF WorkerPcs
    <3> HIDE DEF failing
    <3> QED BY <3>1, <3>2, BecomeType
  <2> QED BY <1>7, <2>1 DEF TypeOK, ListActive
<1>8. CASE FailActive(w)
  <2>1. PICK k \in worker[w].failing :
          /\ job' = [job EXCEPT ![k] = "failed"]
          /\ Become(w, "failActive", {}, worker[w].failing \ {k})
    BY <1>8 DEF FailActive
  <2>2. worker' \in [Workers -> WorkerStates]
    <3> DEFINE failing == worker[w].failing \ {k}
    <3>1. Become(w, "failActive", {}, failing)
      BY <2>1
    <3>2. "failActive" \in WorkerPcs /\ {} \in SUBSET Pages /\ failing \in SUBSET Kinds
      BY WorkerFields DEF WorkerPcs
    <3> HIDE DEF failing
    <3> QED BY <3>1, <3>2, BecomeType
  <2> QED BY <1>8, <2>1, <2>2 DEF TypeOK, FailActive, JobStatuses, FinalStatuses
<1>9. CASE FailBook(w)
  <2>1. worker' \in [Workers -> WorkerStates]
    BY <1>9, GotoType DEF FailBook, WorkerPcs
  <2> QED BY <1>9, <2>1 DEF TypeOK, FailBook, UploadStatuses, ErrorMessages
<1> QED BY <1>1, <1>2, <1>3, <1>4, <1>5, <1>6, <1>7, <1>8, <1>9 DEF Ending

\* A fault of a worker keeps the types.
LEMMA FaultTypes ==
  ASSUME TypeOK, NEW w \in Workers, WorkerFault(w)
  PROVE  TypeOK'
<1> USE BoundsAssumption DEF status, artifacts, env, Fault
<1>1. CASE Crash(w)
  BY <1>1, RestTypes, WorkerFields DEF TypeOK, Crash
<1>2. CASE Redeliver(w)
  BY <1>2, WorkerFields DEF TypeOK, Redeliver
<1>3. CASE TransientFault(w)
  <2>1. worker' \in [Workers -> WorkerStates]
    BY <1>3, GotoWithType DEF TransientFault, WorkerPcs
  <2> QED BY <1>3, <2>1 DEF TypeOK, TransientFault
<1>4. CASE LeafRaises(w)
  <2>1. worker' \in [Workers -> WorkerStates]
    BY <1>4, GotoWithType DEF LeafRaises, Raised, WorkerPcs
  <2>2. abandoned' \subseteq Leaves
    BY <1>4 DEF TypeOK, LeafRaises, Raised
  <2> QED BY <1>4, <2>1, <2>2 DEF TypeOK, LeafRaises, Raised
<1>5. CASE EmbedFails(w)
  <2>1. worker' \in [Workers -> WorkerStates]
    BY <1>5, GotoWithType DEF EmbedFails, Raised, WorkerPcs
  <2>2. abandoned' \subseteq Leaves
    BY <1>5 DEF TypeOK, EmbedFails, Raised, At, Leaves
  <2> QED BY <1>5, <2>1, <2>2 DEF TypeOK, EmbedFails, Raised
<1>6. CASE DispatchFails(w)
  <2>1. worker' \in [Workers -> WorkerStates]
    BY <1>6, GotoType DEF DispatchFails, WorkerPcs
  <2> QED BY <1>6, <2>1 DEF TypeOK, DispatchFails
<1>7. CASE ErrbackFails(w)
  <2>1. worker' \in [Workers -> WorkerStates]
    BY <1>7, GotoWithType DEF ErrbackFails, WorkerPcs
  <2>2. abandoned' \subseteq Leaves
    BY <1>7, WorkerFields DEF TypeOK, ErrbackFails, Leaves
  <2> QED BY <1>7, <2>1, <2>2 DEF TypeOK, ErrbackFails
<1> QED BY <1>1, <1>2, <1>3, <1>4, <1>5, <1>6, <1>7 DEF WorkerFault

\* A step of a stage endpoint keeps the types.
LEMMA ApiTypes ==
  ASSUME TypeOK, ApiStep \/ RequestLost \/ \E stage \in Kinds : Request(stage)
  PROVE  TypeOK'
<1> USE BoundsAssumption DEF status, artifacts
<1>0. NoRequest \in Calls
  BY DEF NoRequest, Calls, ApiPcs, Kinds, ChainKinds, JobStatuses, UploadStatuses, ErrorMessages
<1>1. CASE ClearPages
  <2>1. api' \in Calls
    BY <1>1 DEF TypeOK, ClearPages, Calls, ApiPcs
  <2> QED BY <1>1, <2>1 DEF TypeOK, ClearPages
<1>2. CASE ResetJob
  <2>1. api' \in Calls /\ api.stage \in Kinds
    BY <1>2 DEF TypeOK, ResetJob, Calls, ApiPcs
  <2> QED BY <1>2, <2>1 DEF TypeOK, ResetJob, JobStatuses, ActiveStatuses
<1>3. CASE MarkUpload
  <2>1. api' \in Calls
    BY <1>3 DEF TypeOK, MarkUpload, Calls, ApiPcs
  <2> QED BY <1>3, <2>1 DEF TypeOK, MarkUpload, UploadStatuses, ErrorMessages
<1>4. CASE DispatchStage
  <2> DEFINE task == IF api.stage \in {"layout", "metadata"} THEN api.stage ELSE "process_book"
  <2>1. api.stage \in Flows /\ task \in Tasks /\ requests \in 0 .. MaxRequests
    BY DEF TypeOK, Calls, Flows, Tasks, Kinds, ChainKinds
  <2>2. Message(requests, api.stage, task) \in Messages
    BY <2>1, MessageType
  <2> QED BY <1>0, <1>4, <2>2 DEF TypeOK, DispatchStage
<1>5. CASE RequestLost
  BY <1>0, <1>5 DEF TypeOK, RequestLost
<1>6. ASSUME NEW stage \in Kinds, Request(stage) PROVE TypeOK'
  <2>1. api' \in Calls
    BY <1>6 DEF TypeOK, Request, Calls, ApiPcs
  <2> QED BY <1>6, <2>1 DEF TypeOK, Request
<1> QED BY <1>1, <1>2, <1>3, <1>4, <1>5, <1>6 DEF ApiStep

\* Every step keeps the types.
LEMMA TypeStep == TypeOK /\ [Next]_vars => TypeOK'
<1> SUFFICES ASSUME TypeOK, [Next]_vars PROVE TypeOK'
  OBVIOUS
<1>1. ASSUME NEW w \in Workers, WorkerStep(w) PROVE TypeOK'
  BY <1>1, BrokerTypes, DispatchingTypes, ExtractingTypes, StructuringTypes, IndexingTypes, EndingTypes
     DEF WorkerStep
<1>2. ASSUME NEW w \in Workers, WorkerFault(w) PROVE TypeOK'
  BY <1>2, FaultTypes
<1>3. CASE ApiStep \/ RequestLost \/ \E stage \in Kinds : Request(stage)
  BY <1>3, ApiTypes
<1>4. CASE UNCHANGED vars
  BY <1>4 DEF TypeOK, vars, status, artifacts, env
<1> QED BY <1>1, <1>2, <1>3, <1>4 DEF Next

\* Every variable of the pipeline keeps its type.
THEOREM TypeCorrect == Spec => []TypeOK
<1>1. Init => TypeOK
  <2>1. NoRequest \in Calls
    BY DEF NoRequest, Calls, ApiPcs, Kinds, ChainKinds, JobStatuses, UploadStatuses, ErrorMessages
  <2>2. Message(0, "book", "mark_queued") \in Messages /\ Message(0, "book", "start_pipeline") \in Messages
    BY MessageType, BoundsAssumption DEF Flows, Tasks
  <2>3. Init => queue \subseteq Messages
    BY <2>2 DEF Init
  <2> QED BY <2>1, <2>3, RestTypes, SetsAssumption, BoundsAssumption
          DEF Init, TypeOK, UploadStatuses, ErrorMessages, JobStatuses, ActiveStatuses
<1> QED BY <1>1, TypeStep, PTL DEF Spec

-----------------------------------------------------------------------------
(* How a step moves a worker.                                              *)

\* Only worker w moves, it keeps its message and reaches one of pcs.
Moves(w, pcs) ==
  /\ \A v \in Workers \ {w} : worker'[v] = worker[v]
  /\ worker'[w].msg = worker[w].msg
  /\ worker'[w].pc \in pcs

\* Goto changes nothing of the worker but its pc ...
LEMMA GotoMoves ==
  ASSUME TypeOK, NEW w \in Workers, NEW pc, Goto(w, pc)
  PROVE  Moves(w, {pc}) /\ worker'[w].todo = worker[w].todo
BY DEF TypeOK, Goto, Moves, WorkerStates

\* ... Become all but its message ...
LEMMA BecomeMoves ==
  ASSUME TypeOK, NEW w \in Workers, NEW pc, NEW todo, NEW failing, Become(w, pc, todo, failing)
  PROVE  Moves(w, {pc}) /\ worker'[w].todo = todo /\ worker'[w].failing = failing
BY DEF TypeOK, Become, Moves, WorkerStates

\* ... and so does GotoWith.
LEMMA GotoWithMoves ==
  ASSUME TypeOK, NEW w \in Workers, NEW pc, NEW todo, GotoWith(w, pc, todo)
  PROVE  Moves(w, {pc}) /\ worker'[w].todo = todo
BY BecomeMoves DEF GotoWith

\* The layout task begins by reading.
LEMMA LayoutMoves ==
  ASSUME TypeOK, NEW w \in Workers, LayoutBegin(w)
  PROVE  Moves(w, {"read"})
BY DEF LayoutBegin, BeginJob, TypeOK, Moves, WorkerStates

-----------------------------------------------------------------------------
(* A completed extraction is whole.                                        *)

\* A run that persists pages has the missing ones before it, and a run that is
\* through, like a job that is completed, has every page behind it.
ExtractionInv ==
  /\ api.pc # "clear"
  /\ job["initial"] = "completed" => pages = Pages
  /\ \A w \in Workers : At(w, "initial", "persist") => Pages \subseteq pages \union worker[w].todo
  /\ \A w \in Workers : At(w, "initial", "jobDone") => pages = Pages

\* No worker has reached a point the invariant speaks of.
Elsewhere ==
  \A v \in Workers :
    worker'[v].msg.task = "initial" /\ worker'[v].pc \in {"persist", "jobDone"}
      => worker'[v] = worker[v]

\* A step that leaves the pages alone, completes no extraction and brings no
\* worker to a point the invariant speaks of.
Unrelated ==
  /\ pages' = pages
  /\ api'.pc # "clear"
  /\ job'["initial"] = "completed" => job["initial"] = "completed"
  /\ Elsewhere

\* Such a step keeps the invariant.
LEMMA UnrelatedKeeps ==
  ASSUME ExtractionInv, Unrelated
  PROVE  ExtractionInv'
BY DEF ExtractionInv, Unrelated, Elsewhere, At, Pages

\* A worker that moves elsewhere or works for another stage.
LEMMA GotoElsewhere ==
  ASSUME TypeOK, NEW w \in Workers, NEW pc, Goto(w, pc),
         worker[w].msg.task # "initial" \/ pc \notin {"persist", "jobDone"}
  PROVE  Elsewhere
BY GotoMoves DEF Moves, Elsewhere

\* The same of Become ...
LEMMA BecomeElsewhere ==
  ASSUME TypeOK, NEW w \in Workers, NEW pc, NEW todo, NEW failing, Become(w, pc, todo, failing),
         worker[w].msg.task # "initial" \/ pc \notin {"persist", "jobDone"}
  PROVE  Elsewhere
BY BecomeMoves DEF Moves, Elsewhere

\* ... and of GotoWith.
LEMMA GotoWithElsewhere ==
  ASSUME TypeOK, NEW w \in Workers, NEW pc, NEW todo, GotoWith(w, pc, todo),
         worker[w].msg.task # "initial" \/ pc \notin {"persist", "jobDone"}
  PROVE  Elsewhere
BY BecomeElsewhere DEF GotoWith

\* The steps of the broker.
LEMMA BrokerUnrelated ==
  ASSUME TypeOK, ExtractionInv, NEW w \in Workers, Deliver(w) \/ Publish(w) \/ Ack(w)
  PROVE  Unrelated
<1> USE DEF status, artifacts, env, Unrelated, ExtractionInv
<1>1. CASE Deliver(w)
  BY <1>1 DEF Deliver, Started, Elsewhere, TypeOK
<1>2. CASE Publish(w)
  BY <1>2, GotoElsewhere DEF Publish
<1>3. CASE Ack(w)
  BY <1>3 DEF Ack, Idle, Elsewhere, TypeOK
<1> QED BY <1>1, <1>2, <1>3

\* The steps of the dispatching tasks: they mark jobs queued at most.
LEMMA DispatchingUnrelated ==
  ASSUME TypeOK, ExtractionInv, NEW w \in Workers, Dispatching(w)
  PROVE  Unrelated
<1> USE GotoElsewhere DEF status, artifacts, env, Unrelated, ExtractionInv
<1>1. CASE MarkRead(w)
  BY <1>1 DEF MarkRead
<1>2. CASE MarkWrite(w)
  BY <1>2 DEF MarkWrite, TypeOK, Kinds, ChainKinds
<1>3. CASE StartPipeline(w)
  BY <1>3 DEF StartPipeline, TypeOK, Kinds, ChainKinds
<1>4. CASE DispatchBook(w)
  BY <1>4 DEF DispatchBook
<1>5. CASE ProcessBook(w)
  BY <1>5 DEF ProcessBook
<1> QED BY <1>1, <1>2, <1>3, <1>4, <1>5 DEF Dispatching

\* The steps of the later stages leave the extraction's rows alone.
LEMMA StructuringUnrelated ==
  ASSUME TypeOK, ExtractionInv, NEW w \in Workers, Structuring(w)
  PROVE  Unrelated
<1> USE GotoElsewhere, GotoWithElsewhere
    DEF status, artifacts, env, Unrelated, ExtractionInv, At
<1>1. CASE MetadataBegin(w)
  BY <1>1 DEF MetadataBegin, BeginStage, BeginJob, TypeOK, Kinds, ChainKinds
<1>2. CASE MetadataRead(w)
  BY <1>2 DEF MetadataRead
<1>3. CASE MetadataReplace(w)
  BY <1>3 DEF MetadataReplace
<1>4. CASE MetadataInsert(w)
  BY <1>4 DEF MetadataInsert
<1>5. CASE ChunkBegin(w)
  BY <1>5 DEF ChunkBegin, BeginStage, BeginJob, TypeOK, Kinds, ChainKinds
<1>6. CASE ChunkRead(w)
  BY <1>6 DEF ChunkRead
<1>7. CASE ChunkReplace(w)
  BY <1>7 DEF ChunkReplace
<1>8. CASE ChunkInsert(w)
  BY <1>8 DEF ChunkInsert
<1>9. CASE LayoutBegin(w)
  <2>1. Elsewhere
    BY <1>9 DEF LayoutBegin, BeginJob, Elsewhere, TypeOK, WorkerStates
  <2> QED BY <1>9, <2>1 DEF LayoutBegin, BeginJob, TypeOK, Kinds, ChainKinds
<1>10. CASE LayoutRead(w)
  BY <1>10 DEF LayoutRead
<1> QED BY <1>1, <1>2, <1>3, <1>4, <1>5, <1>6, <1>7, <1>8, <1>9, <1>10 DEF Structuring

\* So do the steps of the indexing.
LEMMA IndexingUnrelated ==
  ASSUME TypeOK, ExtractionInv, NEW w \in Workers, Indexing(w)
  PROVE  Unrelated
<1> USE GotoElsewhere, GotoWithElsewhere
    DEF status, artifacts, env, Unrelated, ExtractionInv, At
<1>1. CASE IndexBegin(w)
  BY <1>1 DEF IndexBegin, BeginStage, BeginJob, TypeOK, Kinds, ChainKinds
<1>2. CASE IndexReplace(w)
  BY <1>2 DEF IndexReplace
<1>3. CASE IndexUpsert(w)
  BY <1>3 DEF IndexUpsert
<1>4. CASE EmbedWarm(w)
  BY <1>4 DEF EmbedWarm
<1> QED BY <1>1, <1>2, <1>3, <1>4 DEF Indexing

\* A run lists the missing pages, commits them window by window and ends when
\* none is left.
LEMMA ExtractingKeeps ==
  ASSUME TypeOK, ExtractionInv, NEW w \in Workers, Extracting(w)
  PROVE  ExtractionInv'
<1> USE DEF status, artifacts, env
<1>1. CASE ExtractBegin(w)
  <2>1. Unrelated
    BY <1>1, GotoElsewhere
       DEF ExtractBegin, BeginStage, BeginJob, BeginStatus, TypeOK, Kinds, ChainKinds, Unrelated, ExtractionInv
  <2> QED BY <2>1, UnrelatedKeeps
<1>2. CASE ExtractOpen(w)
  <2>1. CASE pdf = "good"
    <3>1. PICK pc \in {"jobDone", "persist"} :
            GotoWith(w, pc, MissingPages) /\ (pc = "jobDone" => MissingPages = {})
      BY <1>2, <2>1, AllParsed DEF ExtractOpen
    <3>2. Moves(w, {pc}) /\ worker'[w].todo = MissingPages
      BY <3>1, GotoWithMoves
    <3> QED BY <1>2, <3>1, <3>2 DEF ExtractOpen, ExtractionInv, Moves, MissingPages, At, Pages, TypeOK
  <2>2. CASE pdf # "good"
    <3>1. Unrelated
      BY <1>2, <2>2, GotoElsewhere DEF ExtractOpen, Unrelated, ExtractionInv
    <3> QED BY <3>1, UnrelatedKeeps
  <2> QED BY <2>1, <2>2
<1>3. CASE ExtractPersist(w)
  <2> DEFINE todo == worker[w].todo
             window == FirstPages(todo, CheckpointPages)
             rest == todo \ window
  <2>1. CASE window \intersect pages = {}
    <3>1. PICK pc \in {"jobDone", "persist"} :
            GotoWith(w, pc, rest) /\ (pc = "jobDone" => rest = {})
      BY <1>3, <2>1 DEF ExtractPersist
    <3>2. Moves(w, {pc}) /\ worker'[w].todo = rest
      BY <3>1, GotoWithMoves
    <3>3. pages' = pages \union window /\ api' = api /\ job' = job
      BY <1>3, <2>1 DEF ExtractPersist
    <3>4. pages' \subseteq Pages /\ Pages' = Pages
      BY <3>3, WorkerFields DEF TypeOK, FirstPages, Pages
    <3>5. Pages \subseteq pages \union todo
      BY <1>3 DEF ExtractPersist, ExtractionInv, At
    <3>6. Pages \subseteq pages' \union rest
      BY <3>3, <3>5
    <3> HIDE DEF todo, window, rest
    <3>7. ASSUME NEW v \in Workers, At(v, "initial", "persist")'
          PROVE  Pages \subseteq pages' \union worker'[v].todo
      BY <3>2, <3>3, <3>6, <3>7 DEF Moves, ExtractionInv, At
    <3>8. ASSUME NEW v \in Workers, At(v, "initial", "jobDone")'
          PROVE  pages' = Pages
      BY <3>1, <3>2, <3>3, <3>4, <3>6, <3>8 DEF Moves, ExtractionInv, At
    <3>9. job'["initial"] = "completed" => pages' = Pages
      BY <3>3, <3>4 DEF ExtractionInv
    <3> QED BY <3>3, <3>4, <3>7, <3>8, <3>9 DEF ExtractionInv
  <2>2. CASE window \intersect pages # {}
    <3>1. Unrelated
      BY <1>3, <2>2, GotoWithElsewhere DEF ExtractPersist, Unrelated, ExtractionInv
    <3> QED BY <3>1, UnrelatedKeeps
  <2> QED BY <2>1, <2>2
<1> QED BY <1>1, <1>2, <1>3 DEF Extracting

\* Only FinishJob completes a job.
LEMMA EndingKeeps ==
  ASSUME TypeOK, ExtractionInv, NEW w \in Workers, Ending(w)
  PROVE  ExtractionInv'
<1>1. CASE FinishJob(w)
  <2> DEFINE k == worker[w].msg.task
  <2>1. worker[w].pc = "jobDone" /\ job' = [job EXCEPT ![k] = DoneStatus[k]] /\ pages' = pages /\ api' = api
    BY <1>1 DEF FinishJob, artifacts, env
  <2>2. Moves(w, {"uploadDone"})
    BY <1>1, GotoMoves DEF FinishJob
  <2>3. CASE k = "initial"
    BY <2>1, <2>2, <2>3 DEF ExtractionInv, Moves, At, Pages
  <2>4. CASE k # "initial"
    <3>1. Unrelated
      BY <2>1, <2>2, <2>4 DEF Moves, Elsewhere, Unrelated, ExtractionInv, TypeOK, Kinds, ChainKinds
    <3> QED BY <3>1, UnrelatedKeeps
  <2> QED BY <2>3, <2>4
<1>2. CASE ~FinishJob(w)
  <2> USE GotoElsewhere, BecomeElsewhere DEF status, artifacts, env, Unrelated, ExtractionInv
  <2>1. CASE FinishUpload(w)
    BY <2>1, UnrelatedKeeps DEF FinishUpload
  <2>2. CASE Retry(w)
    BY <2>2, UnrelatedKeeps DEF Retry
  <2>3. CASE RetriesExhausted(w)
    BY <2>3, UnrelatedKeeps DEF RetriesExhausted
  <2>4. CASE FailJob(w)
    BY <2>4, UnrelatedKeeps DEF FailJob, TypeOK, Kinds, ChainKinds
  <2>5. CASE FailUpload(w)
    BY <2>5, UnrelatedKeeps DEF FailUpload
  <2>6. CASE ListActive(w)
    BY <2>6, UnrelatedKeeps DEF ListActive
  <2>7. CASE FailActive(w)
    BY <2>7, UnrelatedKeeps DEF FailActive, TypeOK, Kinds, ChainKinds
  <2>8. CASE FailBook(w)
    BY <2>8, UnrelatedKeeps DEF FailBook
  <2> QED BY <1>2, <2>1, <2>2, <2>3, <2>4, <2>5, <2>6, <2>7, <2>8 DEF Ending
<1> QED BY <1>1, <1>2

\* A fault completes no job.
LEMMA FaultUnrelated ==
  ASSUME TypeOK, ExtractionInv, NEW w \in Workers, WorkerFault(w)
  PROVE  Unrelated
<1> USE GotoElsewhere, GotoWithElsewhere
    DEF status, artifacts, env, Fault, Unrelated, ExtractionInv
<1>1. CASE Crash(w)
  BY <1>1 DEF Crash, Idle, Elsewhere, TypeOK
<1>2. CASE Redeliver(w)
  BY <1>2 DEF Redeliver, Elsewhere
<1>3. CASE TransientFault(w)
  BY <1>3 DEF TransientFault
<1>4. CASE LeafRaises(w)
  BY <1>4 DEF LeafRaises, Raised
<1>5. CASE EmbedFails(w) \/ ErrbackFails(w)
  BY <1>5 DEF EmbedFails, ErrbackFails, Raised
<1>6. CASE DispatchFails(w)
  BY <1>6 DEF DispatchFails
<1> QED BY <1>1, <1>2, <1>3, <1>4, <1>5, <1>6 DEF WorkerFault

\* The endpoints of the later stages clear no pages.
LEMMA ApiUnrelated ==
  ASSUME TypeOK, ExtractionInv, "initial" \notin Restarts,
         ApiStep \/ RequestLost \/ \E stage \in Kinds : Request(stage)
  PROVE  Unrelated
<1> USE DEF status, artifacts, Unrelated, Elsewhere, ExtractionInv
<1>1. CASE ClearPages
  BY <1>1 DEF ClearPages
<1>2. CASE ResetJob
  BY <1>2 DEF ResetJob, TypeOK, Calls
<1>3. CASE MarkUpload
  BY <1>3 DEF MarkUpload, TypeOK, Calls
<1>4. CASE DispatchStage \/ RequestLost
  BY <1>4 DEF DispatchStage, RequestLost, NoRequest
<1>5. ASSUME NEW stage \in Kinds, Request(stage) PROVE Unrelated
  BY <1>5 DEF Request
<1> QED BY <1>1, <1>2, <1>3, <1>4, <1>5 DEF ApiStep

\* Where the extraction endpoint is not called every step keeps the invariant.
LEMMA ExtractionStep ==
  ASSUME "initial" \notin Restarts
  PROVE  TypeOK /\ ExtractionInv /\ [Next]_vars => ExtractionInv'
<1> SUFFICES ASSUME TypeOK, ExtractionInv, [Next]_vars PROVE ExtractionInv'
  OBVIOUS
<1>1. ASSUME NEW w \in Workers, WorkerStep(w) PROVE ExtractionInv'
  BY <1>1, UnrelatedKeeps, BrokerUnrelated, DispatchingUnrelated, ExtractingKeeps,
     StructuringUnrelated, IndexingUnrelated, EndingKeeps DEF WorkerStep
<1>2. ASSUME NEW w \in Workers, WorkerFault(w) PROVE ExtractionInv'
  BY <1>2, UnrelatedKeeps, FaultUnrelated
<1>3. CASE ApiStep \/ RequestLost \/ \E stage \in Kinds : Request(stage)
  BY <1>3, UnrelatedKeeps, ApiUnrelated
<1>4. CASE UNCHANGED vars
  BY <1>4 DEF ExtractionInv, At, Pages, vars, status, artifacts, env
<1> QED BY <1>1, <1>2, <1>3, <1>4 DEF Next

\* At first no page is there and no extraction runs.
LEMMA ExtractionInit == Init => ExtractionInv
BY DEF Init, ExtractionInv, NoRequest, Idle, Started, At, Kinds, ChainKinds

\* Where the extraction endpoint is not called, an extraction that is reported
\* completed has a row for every page: whatever crashes, is retried or is
\* delivered twice (extract_pdf_task, ExtractionRunner.run).
THEOREM ExtractionIsWhole ==
  ASSUME "initial" \notin Restarts
  PROVE  Spec => []CompletedExtractionIsWhole
<1>1. ExtractionInv => CompletedExtractionIsWhole
  BY DEF ExtractionInv, CompletedExtractionIsWhole
<1> QED BY <1>1, ExtractionInit, ExtractionStep, TypeCorrect, PTL DEF Spec

-----------------------------------------------------------------------------
(* No job is left in flight.                                               *)

\* The points at which a worker still owes its job an end.
LivePcs ==
  {"begin", "open", "persist", "read", "replace", "insert", "upsert", "jobDone",
   "error", "failJob", "errback"}

\* The worker will end job k, or the errback it runs will.
Cares(w, k) ==
  /\ worker[w].msg.task = k
  /\ worker[w].pc \in LivePcs \/ (worker[w].pc = "failActive" /\ k \in worker[w].failing)

Pending(k) == (\E m \in queue : m.task = k) \/ (\E w \in Workers : Cares(w, k))

\* A job in flight has a message waiting or a worker that cares for it, unless
\* its last run abandoned it.
InFlightPending == \A k \in Kinds : job[k] \in InFlightStatuses => Pending(k) \/ k \in abandoned

\* A step in which no worker but w moves, which takes no message, brings no
\* other job in flight, and after which w still cares for its own job, has
\* ended it, has put its message back, or has abandoned it; a job is no longer
\* abandoned once w cares for it again.
Serves(w) ==
  /\ \A v \in Workers \ {w} : worker'[v] = worker[v]
  /\ queue \subseteq queue'
  /\ \A k \in abandoned : k \in abandoned' \/ Cares(w, k)'
  /\ \A k \in Kinds : k # worker[w].msg.task =>
       (job'[k] \in InFlightStatuses => job[k] \in InFlightStatuses)
  /\ \A k \in Kinds : k = worker[w].msg.task =>
       (job'[k] \in InFlightStatuses /\ (Cares(w, k) \/ job[k] \notin InFlightStatuses)
          => Cares(w, k)' \/ (\E m \in queue' : m.task = k) \/ k \in abandoned')

\* Such a step leaves no job in flight alone.
LEMMA ServesKeeps ==
  ASSUME InFlightPending, NEW w \in Workers, Serves(w)
  PROVE  InFlightPending'
<1> DEFINE t == worker[w].msg.task
<1> SUFFICES ASSUME NEW k \in Kinds, job'[k] \in InFlightStatuses PROVE Pending(k)' \/ k \in abandoned'
  BY DEF InFlightPending, InFlightStatuses
<1>1. CASE k \in abandoned
  BY <1>1 DEF Serves, Pending
<1>2. CASE k # t /\ k \notin abandoned
  <2>1. Pending(k)
    BY <1>2 DEF InFlightPending, Serves
  <2>2. ASSUME NEW v \in Workers, Cares(v, k) PROVE Cares(v, k)'
    BY <1>2, <2>2 DEF Serves, Cares
  <2> QED BY <2>1, <2>2 DEF Pending, Serves
<1>3. CASE k = t /\ (Cares(w, k) \/ job[k] \notin InFlightStatuses)
  BY <1>3 DEF Serves, Pending
<1>4. CASE k = t /\ ~Cares(w, k) /\ job[k] \in InFlightStatuses /\ k \notin abandoned
  <2>1. Pending(k)
    BY <1>4 DEF InFlightPending
  <2>2. ASSUME NEW v \in Workers, Cares(v, k) PROVE Cares(v, k)'
    BY <1>4, <2>2 DEF Serves, Cares
  <2> QED BY <2>1, <2>2 DEF Pending, Serves
<1> QED BY <1>1, <1>2, <1>3, <1>4

\* A worker that moves to a point where it cares.
LEMMA StaysLive ==
  ASSUME NEW w \in Workers, NEW pc \in LivePcs, Moves(w, {pc})
  PROVE  \A k : k = worker[w].msg.task => Cares(w, k)'
BY DEF Moves, Cares, LivePcs

\* A step that changes no job and after which w cares, or cared not before.
LEMMA QuietServes ==
  ASSUME NEW w \in Workers, NEW pc, Moves(w, {pc}), queue \subseteq queue', job' = job,
         abandoned \subseteq abandoned',
         \/ pc \in LivePcs
         \/ worker[w].pc \notin LivePcs \union {"failActive"}
         \/ worker[w].msg.task \notin Kinds
  PROVE  Serves(w)
BY StaysLive DEF Serves, Moves, Cares

\* The runner's _begin: the job enters processing in the hands of w.
LEMMA BeginServes ==
  ASSUME TypeOK, NEW w \in Workers, NEW k \in Kinds, NEW pc \in LivePcs,
         worker[w].msg.task = k, Moves(w, {pc}), queue' = queue, BeginStage(k)
  PROVE  Serves(w)
BY StaysLive DEF Serves, Moves, BeginStage, BeginJob, TypeOK

\* A delivery hands the care for a job from the queue to the worker.
LEMMA DeliverKeeps ==
  ASSUME TypeOK, InFlightPending, NEW w \in Workers, Deliver(w)
  PROVE  InFlightPending'
<1>1. PICK m \in queue : queue' = queue \ {m} /\ worker' = [worker EXCEPT ![w] = Started(m)]
  BY DEF Deliver
<1>2. worker[w].pc = "idle" /\ job' = job /\ abandoned' = abandoned
  BY DEF Deliver, status
<1> SUFFICES ASSUME NEW k \in Kinds, job'[k] \in InFlightStatuses, k \notin abandoned' PROVE Pending(k)'
  BY DEF InFlightPending, InFlightStatuses
<1>3. Pending(k)
  BY <1>2 DEF InFlightPending
<1>4. worker'[w].pc = "begin" /\ worker'[w].msg = m /\ \A v \in Workers \ {w} : worker'[v] = worker[v]
  BY <1>1 DEF TypeOK, Started
<1>5. ASSUME NEW v \in Workers, Cares(v, k) PROVE Cares(v, k)'
  BY <1>2, <1>4, <1>5 DEF Cares, LivePcs
<1>6. m.task = k => Cares(w, k)'
  BY <1>4 DEF Cares, LivePcs
<1> QED BY <1>1, <1>3, <1>5, <1>6 DEF Pending

\* The broker's other steps and the dispatching tasks.
LEMMA DispatchingServes ==
  ASSUME TypeOK, NEW w \in Workers, Publish(w) \/ Ack(w) \/ Dispatching(w)
  PROVE  Serves(w)
<1> USE GotoMoves, QuietServes DEF status, artifacts, env, At, Kinds, ChainKinds, LivePcs
<1>1. CASE Publish(w)
  BY <1>1 DEF Publish
<1>2. CASE Ack(w)
  BY <1>2 DEF Ack, Serves, Cares, TypeOK
<1>3. CASE MarkRead(w)
  BY <1>3 DEF MarkRead
<1>4. CASE MarkWrite(w)
  BY <1>4 DEF MarkWrite, Serves, Moves, TypeOK, InFlightStatuses
<1>5. CASE StartPipeline(w)
  BY <1>5 DEF StartPipeline, Serves, Moves, TypeOK, InFlightStatuses
<1>6. CASE DispatchBook(w)
  BY <1>6 DEF DispatchBook
<1>7. CASE ProcessBook(w)
  BY <1>7 DEF ProcessBook
<1> QED BY <1>1, <1>2, <1>3, <1>4, <1>5, <1>6, <1>7 DEF Dispatching

\* The steps of the runners.
LEMMA RunnersServe ==
  ASSUME TypeOK, NEW w \in Workers, Extracting(w) \/ Structuring(w) \/ Indexing(w)
  PROVE  Serves(w)
<1> USE GotoMoves, GotoWithMoves, QuietServes DEF status, artifacts, env, At, LivePcs
<1>1. CASE ExtractBegin(w)
  BY <1>1, BeginServes DEF ExtractBegin, Kinds, ChainKinds
<1>2. CASE ExtractOpen(w) \/ ExtractPersist(w)
  <2>1. CASE ExtractOpen(w)
    BY <2>1 DEF ExtractOpen
  <2>2. CASE ExtractPersist(w)
    <3>1. PICK pc, todo : pc \in LivePcs /\ GotoWith(w, pc, todo)
      BY <2>2 DEF ExtractPersist
    <3>2. queue' = queue /\ job' = job /\ abandoned' = abandoned
      BY <2>2 DEF ExtractPersist
    <3> QED BY <3>1, <3>2
  <2> QED BY <1>2, <2>1, <2>2
<1>3. CASE MetadataBegin(w)
  BY <1>3, BeginServes DEF MetadataBegin, Kinds, ChainKinds
<1>4. CASE MetadataRead(w) \/ MetadataReplace(w) \/ MetadataInsert(w)
  BY <1>4 DEF MetadataRead, MetadataReplace, MetadataInsert
<1>5. CASE ChunkBegin(w)
  BY <1>5, BeginServes DEF ChunkBegin, Kinds, ChainKinds
<1>6. CASE ChunkRead(w) \/ ChunkReplace(w) \/ ChunkInsert(w)
  BY <1>6 DEF ChunkRead, ChunkReplace, ChunkInsert
<1>7. CASE IndexBegin(w)
  BY <1>7, BeginServes DEF IndexBegin, Kinds, ChainKinds
<1>8. CASE IndexReplace(w) \/ IndexUpsert(w)
  BY <1>8 DEF IndexReplace, IndexUpsert
<1>9. CASE EmbedWarm(w)
  BY <1>9 DEF EmbedWarm, Kinds, ChainKinds
<1>10. CASE LayoutBegin(w)
  BY <1>10, LayoutMoves, StaysLive DEF LayoutBegin, BeginJob, Serves, Moves, TypeOK
<1>11. CASE LayoutRead(w)
  BY <1>11 DEF LayoutRead
<1> QED BY <1>1, <1>2, <1>3, <1>4, <1>5, <1>6, <1>7, <1>8, <1>9, <1>10, <1>11
     DEF Extracting, Structuring, Indexing

\* A task that ends takes its job out of flight, or queues itself again.
LEMMA EndingServes ==
  ASSUME TypeOK, NEW w \in Workers, Ending(w)
  PROVE  Serves(w)
<1> USE DEF status, artifacts, env
<1>1. CASE FinishJob(w)
  <2>1. worker[w].msg.task \in Kinds => DoneStatus[worker[w].msg.task] \notin InFlightStatuses
    BY StageStatuses DEF FinalStatuses, InFlightStatuses
  <2> QED BY <1>1, <2>1, GotoMoves DEF FinishJob, Serves, Moves, TypeOK
<1>2. CASE FinishUpload(w)
  BY <1>2, GotoMoves, QuietServes DEF FinishUpload, LivePcs
<1>3. CASE Retry(w)
  <2>1. worker[w].msg \in Messages
    BY WorkerFields
  <2>2. [worker[w].msg EXCEPT !.retries = @ + 1].task = worker[w].msg.task
    BY <2>1 DEF Messages
  <2> QED BY <1>3, <2>2, GotoMoves DEF Retry, Serves, Moves
<1>4. CASE RetriesExhausted(w)
  BY <1>4, GotoMoves, QuietServes DEF RetriesExhausted, LivePcs
<1>5. CASE FailJob(w)
  BY <1>5, GotoMoves DEF FailJob, Serves, Moves, TypeOK, InFlightStatuses
<1>6. CASE FailUpload(w)
  BY <1>6, GotoMoves, QuietServes DEF FailUpload, LivePcs
<1>7. CASE ListActive(w)
  <2> DEFINE failing == {k \in Kinds : job[k] \in ActiveStatuses}
  <2>1. Become(w, "failActive", {}, failing)
    BY <1>7 DEF ListActive
  <2>2. \A k \in Kinds : job[k] \in InFlightStatuses => k \in failing
    BY StatusSets
  <2> HIDE DEF failing
  <2>3. Moves(w, {"failActive"}) /\ worker'[w].failing = failing
    BY <2>1, BecomeMoves
  <2> QED BY <1>7, <2>2, <2>3 DEF ListActive, Serves, Moves, Cares
<1>8. CASE FailActive(w)
  <2>1. PICK k \in worker[w].failing :
          /\ job' = [job EXCEPT ![k] = "failed"]
          /\ Become(w, "failActive", {}, worker[w].failing \ {k})
    BY <1>8 DEF FailActive
  <2> DEFINE failing == worker[w].failing \ {k}
  <2>2. \A j \in Kinds : job'[j] \in InFlightStatuses => j # k /\ job[j] \in InFlightStatuses
    BY <2>1 DEF TypeOK, InFlightStatuses
  <2>3. \A j \in worker[w].failing : j # k => j \in failing
    OBVIOUS
  <2>4. Become(w, "failActive", {}, failing)
    BY <2>1
  <2> HIDE DEF failing
  <2>5. Moves(w, {"failActive"}) /\ worker'[w].failing = failing
    BY <2>4, BecomeMoves
  <2> QED BY <1>8, <2>2, <2>3, <2>5 DEF FailActive, Serves, Moves, Cares, LivePcs
<1>9. CASE FailBook(w)
  BY <1>9, GotoMoves DEF FailBook, Serves, Moves, Cares, LivePcs
<1> QED BY <1>1, <1>2, <1>3, <1>4, <1>5, <1>6, <1>7, <1>8, <1>9 DEF Ending

\* A fault of a worker: a task that raises has an errback, or abandons its job,
\* as an errback does that fails.
LEMMA FaultServes ==
  ASSUME TypeOK, NEW w \in Workers, WorkerFault(w)
  PROVE  Serves(w)
<1> USE GotoMoves, GotoWithMoves, QuietServes DEF status, artifacts, env, Fault, LivePcs
<1>1. CASE Crash(w)
  BY <1>1 DEF Crash, Serves, TypeOK
<1>2. CASE Redeliver(w)
  BY <1>2 DEF Redeliver, Serves
<1>3. CASE TransientFault(w)
  BY <1>3 DEF TransientFault
<1>4. CASE LeafRaises(w) \/ EmbedFails(w)
  <2>1. Raised(w) /\ queue' = queue /\ job' = job /\ abandoned \subseteq abandoned'
    BY <1>4 DEF LeafRaises, EmbedFails, Raised
  <2>2. CASE HasErrback(worker[w].msg)
    BY <2>1, <2>2 DEF Raised
  <2>3. CASE ~HasErrback(worker[w].msg)
    <3>1. GotoWith(w, "ack", {}) /\ worker[w].msg.task \in abandoned'
      BY <2>1, <2>3 DEF Raised, HasErrback
    <3> QED BY <2>1, <3>1 DEF Serves, Moves
  <2> QED BY <2>2, <2>3
<1>5. CASE ErrbackFails(w)
  <2>1. /\ GotoWith(w, "ack", {}) /\ queue' = queue /\ job' = job
        /\ abandoned \subseteq abandoned'
    BY <1>5 DEF ErrbackFails
  <2>2. \A k \in Kinds : Cares(w, k) => k \in abandoned'
    BY <1>5 DEF ErrbackFails, Cares
  <2> QED BY <2>1, <2>2 DEF Serves, Moves
<1>6. CASE DispatchFails(w)
  BY <1>6 DEF DispatchFails, Leaves
<1> QED BY <1>1, <1>2, <1>3, <1>4, <1>5, <1>6 DEF WorkerFault

\* An endpoint moves no worker, takes no message and marks a job queued.
LEMMA ApiPending ==
  ASSUME TypeOK, InFlightPending, ApiStep \/ RequestLost \/ \E stage \in Kinds : Request(stage)
  PROVE  InFlightPending'
<1>1. worker' = worker /\ queue \subseteq queue'
  BY DEF ApiStep, ClearPages, ResetJob, MarkUpload, DispatchStage, RequestLost, Request
<1>2. \A k \in Kinds : job'[k] \in InFlightStatuses => job[k] \in InFlightStatuses
  BY DEF ApiStep, ClearPages, ResetJob, MarkUpload, DispatchStage, RequestLost, Request,
         status, TypeOK, Calls, InFlightStatuses
<1>3. abandoned' = abandoned
  BY DEF ApiStep, ClearPages, ResetJob, MarkUpload, DispatchStage, RequestLost, Request, status
<1> QED BY <1>1, <1>2, <1>3 DEF InFlightPending, Pending, Cares, InFlightStatuses

\* However many workers, deliveries and endpoint calls overlap and whatever fails,
\* a job keeps a status for which the start_* handlers answer 409 when nothing is
\* left to do only if its last run abandoned it: every stage marks its job in
\* _begin and some task, retry or errback unmarks it, unless the task raised
\* where none is linked (layout, metadata endpoint) or the errback failed too.
THEOREM LockoutFree == Spec => []NoLockout
<1>1. Init => InFlightPending
  BY DEF Init, InFlightPending, InFlightStatuses
<1>2. TypeOK /\ InFlightPending /\ [Next]_vars => InFlightPending'
  <2> SUFFICES ASSUME TypeOK, InFlightPending, [Next]_vars PROVE InFlightPending'
    OBVIOUS
  <2>1. ASSUME NEW w \in Workers, WorkerStep(w) PROVE InFlightPending'
    BY <2>1, ServesKeeps, DeliverKeeps, DispatchingServes, RunnersServe, EndingServes DEF WorkerStep
  <2>2. ASSUME NEW w \in Workers, WorkerFault(w) PROVE InFlightPending'
    BY <2>2, ServesKeeps, FaultServes
  <2>3. CASE ApiStep \/ RequestLost \/ \E stage \in Kinds : Request(stage)
    BY <2>3, ApiPending
  <2>4. CASE UNCHANGED vars
    BY <2>4 DEF InFlightPending, Pending, Cares, InFlightStatuses, vars, status, artifacts, env
  <2> QED BY <2>1, <2>2, <2>3, <2>4 DEF Next
<1>3. InFlightPending => NoLockout
  BY DEF InFlightPending, Pending, Cares, NoLockout, Quiet, LivePcs
<1> QED BY <1>1, <1>2, <1>3, TypeCorrect, PTL DEF Spec

-----------------------------------------------------------------------------
(* What the run of a stage knows, where there is one worker.               *)

\* docker/entrypoint.py starts one worker for all queues.
OneWorker == \A v, w \in Workers : v = w

\* From where the document is about to be replaced the run holds the pages
\* there are; from where it is stored the document maps them. The job reports
\* no success in between, and none after a run that failed.
MetadataRun(w) ==
  worker[w].msg.task = "metadata" =>
    /\ worker[w].pc \in {"read", "replace", "insert", "failUpload"} => job["metadata"] # "completed"
    /\ worker[w].pc \in {"replace", "insert"} => worker[w].todo = pages
    /\ worker[w].pc \in {"jobDone", "uploadDone"} => doc = {pages}
    /\ worker[w].pc = "publish" /\ job["metadata"] = "completed" => doc = {pages}

\* The same of a run of the chunking, whose chunks are gone until it inserts ...
ChunkRun(w) ==
  worker[w].msg.task = "chunking" =>
    /\ worker[w].pc \in {"read", "replace", "insert", "failUpload"} => job["chunking"] # "completed"
    /\ worker[w].pc \in {"replace", "insert"} => worker[w].todo = pages
    /\ worker[w].pc \in {"read", "replace", "insert"} => chunks = {}
    /\ worker[w].pc \in {"jobDone", "uploadDone"} => chunks = pages
    /\ worker[w].pc = "publish" /\ job["chunking"] = "completed" => chunks = pages

\* ... and of the indexing, which upserts the chunks there are.
IndexRun(w) ==
  worker[w].msg.task = "indexing" =>
    /\ worker[w].pc \in {"replace", "upsert", "failUpload"} => job["indexing"] # "indexed"
    /\ worker[w].pc \in {"replace", "upsert", "jobDone", "uploadDone"} => chunks # {}
    /\ worker[w].pc = "replace" => worker[w].todo = chunks
    /\ worker[w].pc = "upsert" => points \union worker[w].todo = chunks
    /\ worker[w].pc \in {"jobDone", "uploadDone"} => points = chunks
    /\ worker[w].pc = "publish" /\ job["indexing"] = "indexed" => points = chunks

RunInv == \A w \in Workers : MetadataRun(w) /\ ChunkRun(w) /\ IndexRun(w)

\* The tasks and the places RunInv speaks of.
RunTasks == {"metadata", "chunking", "indexing"}
RunPcs == {"read", "replace", "insert", "upsert", "jobDone", "uploadDone", "failUpload", "publish"}

\* It knows nothing of a worker anywhere else.
LEMMA RestingKeeps ==
  ASSUME OneWorker, NEW w \in Workers,
         worker'[w].pc \notin RunPcs \/ worker'[w].msg.task \notin RunTasks
  PROVE  RunInv'
<1> SUFFICES MetadataRun(w)' /\ ChunkRun(w)' /\ IndexRun(w)'
  BY DEF OneWorker, RunInv
<1> QED BY DEF MetadataRun, ChunkRun, IndexRun, RunPcs, RunTasks

\* A step that leaves the worker and the rows alone, and completes no job.
LEMMA BesideKeeps ==
  ASSUME RunInv, worker' = worker, UNCHANGED artifacts,
         \A k \in Kinds : job'[k] = job[k] \/ job'[k] = "queued"
  PROVE  RunInv'
BY DEF RunInv, MetadataRun, ChunkRun, IndexRun, artifacts, Kinds, ChainKinds

\* The metadata task.
LEMMA MetadataKeepsRun ==
  ASSUME OneWorker, TypeOK, RunInv, NEW w \in Workers,
         MetadataBegin(w) \/ MetadataRead(w) \/ MetadataReplace(w) \/ MetadataInsert(w)
  PROVE  RunInv'
<1> SUFFICES MetadataRun(w)' /\ ChunkRun(w)' /\ IndexRun(w)'
  BY DEF OneWorker, RunInv
<1> USE DEF RunInv, MetadataRun, ChunkRun, IndexRun, Moves, status, artifacts, env, At
<1>1. CASE MetadataBegin(w)
  <2>1. job'["metadata"] = "structuring"
    BY <1>1 DEF MetadataBegin, BeginStage, BeginJob, BeginStatus, TypeOK, Kinds, ChainKinds
  <2> QED BY <1>1, <2>1, GotoMoves DEF MetadataBegin
<1>2. CASE MetadataRead(w)
  BY <1>2, GotoWithMoves DEF MetadataRead
<1>3. CASE MetadataReplace(w)
  BY <1>3, GotoMoves DEF MetadataReplace
<1>4. CASE MetadataInsert(w)
  BY <1>4, GotoWithMoves DEF MetadataInsert
<1> QED BY <1>1, <1>2, <1>3, <1>4

\* The chunking task.
LEMMA ChunkKeepsRun ==
  ASSUME OneWorker, TypeOK, RunInv, NEW w \in Workers,
         ChunkBegin(w) \/ ChunkRead(w) \/ ChunkReplace(w) \/ ChunkInsert(w)
  PROVE  RunInv'
<1> SUFFICES MetadataRun(w)' /\ ChunkRun(w)' /\ IndexRun(w)'
  BY DEF OneWorker, RunInv
<1> USE DEF RunInv, MetadataRun, ChunkRun, IndexRun, Moves, status, artifacts, env, At
<1>1. CASE ChunkBegin(w)
  <2>1. doc # {} => job'["chunking"] = "structuring"
    BY <1>1 DEF ChunkBegin, BeginStage, BeginJob, BeginStatus, TypeOK, Kinds, ChainKinds
  <2> QED BY <1>1, <2>1, GotoMoves DEF ChunkBegin
<1>2. CASE ChunkRead(w)
  BY <1>2, GotoWithMoves DEF ChunkRead
<1>3. CASE ChunkReplace(w)
  BY <1>3, GotoMoves DEF ChunkReplace
<1>4. CASE ChunkInsert(w)
  <2>1. CASE chunks \intersect worker[w].todo = {}
    BY <1>4, <2>1, GotoWithMoves DEF ChunkInsert
  <2>2. CASE chunks \intersect worker[w].todo # {}
    BY <1>4, <2>2, GotoWithMoves DEF ChunkInsert
  <2> QED BY <2>1, <2>2
<1> QED BY <1>1, <1>2, <1>3, <1>4

\* The indexing task.
LEMMA IndexKeepsRun ==
  ASSUME OneWorker, TypeOK, RunInv, NEW w \in Workers,
         IndexBegin(w) \/ IndexReplace(w) \/ IndexUpsert(w)
  PROVE  RunInv'
<1> SUFFICES MetadataRun(w)' /\ ChunkRun(w)' /\ IndexRun(w)'
  BY DEF OneWorker, RunInv
<1> USE DEF RunInv, MetadataRun, ChunkRun, IndexRun, Moves, status, artifacts, env, At
<1>1. CASE IndexBegin(w)
  <2>1. CASE chunks = {} \/ doc = {}
    BY <1>1, <2>1, GotoMoves DEF IndexBegin
  <2>2. CASE ~(chunks = {} \/ doc = {})
    <3>1. job'["indexing"] = "embedding"
      BY <1>1, <2>2 DEF IndexBegin, BeginStage, BeginJob, BeginStatus, TypeOK, Kinds, ChainKinds
    <3> QED BY <1>1, <2>2, <3>1, GotoWithMoves DEF IndexBegin
  <2> QED BY <2>1, <2>2
<1>2. CASE IndexReplace(w)
  BY <1>2, GotoMoves DEF IndexReplace
<1>3. CASE IndexUpsert(w)
  <2> DEFINE todo == worker[w].todo
             batch == FirstPages(todo, BatchSize)
             rest == todo \ batch
  <2>1. batch \subseteq todo
    BY DEF FirstPages
  <2>2. PICK pc \in {"jobDone", "upsert"} : GotoWith(w, pc, rest) /\ (pc = "jobDone" => rest = {})
    BY <1>3 DEF IndexUpsert
  <2>3. /\ worker[w].msg.task = "indexing" /\ worker[w].pc = "upsert"
        /\ points' = points \union batch
        /\ chunks' = chunks /\ job' = job
    BY <1>3 DEF IndexUpsert
  <2>4. points' \union rest = chunks
    BY <2>1, <2>3
  <2>5. Moves(w, {pc}) /\ worker'[w].todo = rest
    BY <2>2, GotoWithMoves
  <2> HIDE DEF todo, batch, rest
  <2> QED BY <2>2, <2>3, <2>4, <2>5
<1> QED BY <1>1, <1>2, <1>3

\* How a run ends.
LEMMA EndKeepsRun ==
  ASSUME OneWorker, TypeOK, RunInv, NEW w \in Workers,
         FinishJob(w) \/ FinishUpload(w) \/ FailJob(w) \/ FailUpload(w)
  PROVE  RunInv'
<1> SUFFICES MetadataRun(w)' /\ ChunkRun(w)' /\ IndexRun(w)'
  BY DEF OneWorker, RunInv
<1> USE DEF RunInv, MetadataRun, ChunkRun, IndexRun, Moves, status, artifacts, env
<1>1. CASE FinishJob(w)
  BY <1>1, GotoMoves DEF FinishJob
<1>2. CASE FinishUpload(w)
  BY <1>2, GotoMoves DEF FinishUpload
<1>3. CASE FailJob(w)
  <2>1. worker[w].msg.task \in Kinds => job'[worker[w].msg.task] = "failed"
    BY <1>3 DEF FailJob, TypeOK
  <2> QED BY <1>3, <2>1, GotoMoves DEF FailJob, Kinds, ChainKinds
<1>4. CASE FailUpload(w)
  BY <1>4, GotoMoves DEF FailUpload
<1> QED BY <1>1, <1>2, <1>3, <1>4

\* A worker that rests.
LEMMA IdleFields == Idle.pc = "idle" /\ Idle.msg = NoMessage /\ Idle.loaded = "processing"
BY DEF Idle, Started

\* Every other step of the worker takes it to a place RunInv knows nothing of.
LEMMA OtherStepsRest ==
  ASSUME TypeOK, NEW w \in Workers,
         \/ Deliver(w) \/ Publish(w) \/ Ack(w) \/ Dispatching(w) \/ Extracting(w)
         \/ LayoutBegin(w) \/ LayoutRead(w) \/ EmbedWarm(w)
         \/ Retry(w) \/ RetriesExhausted(w) \/ ListActive(w) \/ FailActive(w) \/ FailBook(w)
         \/ Crash(w) \/ TransientFault(w) \/ LeafRaises(w) \/ EmbedFails(w) \/ ErrbackFails(w) \/ DispatchFails(w)
  PROVE  worker'[w].pc \notin RunPcs \/ worker'[w].msg.task \notin RunTasks
<1> USE GotoMoves, GotoWithMoves, BecomeMoves DEF Moves, RunPcs, RunTasks, At
<1>1. CASE Deliver(w) \/ Publish(w) \/ Ack(w)
  BY <1>1, IdleFields DEF Deliver, Started, Publish, Ack, TypeOK
<1>2. CASE Dispatching(w)
  BY <1>2 DEF Dispatching, MarkRead, MarkWrite, StartPipeline, DispatchBook, ProcessBook
<1>3. CASE Extracting(w)
  BY <1>3 DEF Extracting, ExtractBegin, ExtractOpen, ExtractPersist
<1>4. CASE LayoutBegin(w) \/ LayoutRead(w) \/ EmbedWarm(w)
  BY <1>4, LayoutMoves DEF LayoutBegin, BeginJob, LayoutRead, EmbedWarm
<1>5. CASE Retry(w) \/ RetriesExhausted(w) \/ ListActive(w) \/ FailActive(w) \/ FailBook(w)
  <2>1. CASE Retry(w) \/ RetriesExhausted(w) \/ FailBook(w)
    BY <2>1 DEF Retry, RetriesExhausted, FailBook
  <2>2. CASE ListActive(w) \/ FailActive(w)
    <3>1. PICK failing : Become(w, "failActive", {}, failing)
      BY <2>2 DEF ListActive, FailActive
    <3> QED BY <3>1
  <2> QED BY <1>5, <2>1, <2>2
<1>6. CASE Crash(w) \/ TransientFault(w)
  BY <1>6, IdleFields DEF Crash, TransientFault, TypeOK
<1>7. CASE LeafRaises(w) \/ EmbedFails(w) \/ ErrbackFails(w) \/ DispatchFails(w)
  BY <1>7 DEF LeafRaises, EmbedFails, ErrbackFails, Raised, DispatchFails
<1> QED BY <1>1, <1>2, <1>3, <1>4, <1>5, <1>6, <1>7

\* Where the extraction endpoint is not called a run keeps what it knows: no
\* other worker writes what it has read.
LEMMA RunStep ==
  ASSUME OneWorker, "initial" \notin Restarts
  PROVE  TypeOK /\ ExtractionInv /\ RunInv /\ [Next]_vars => RunInv'
<1> SUFFICES ASSUME TypeOK, ExtractionInv, RunInv, [Next]_vars PROVE RunInv'
  OBVIOUS
<1>1. ASSUME NEW w \in Workers, WorkerStep(w) PROVE RunInv'
  BY <1>1, OtherStepsRest, RestingKeeps, MetadataKeepsRun, ChunkKeepsRun, IndexKeepsRun, EndKeepsRun
     DEF WorkerStep, Structuring, Indexing, Ending
<1>2. ASSUME NEW w \in Workers, WorkerFault(w) PROVE RunInv'
  BY <1>2, OtherStepsRest, RestingKeeps, BesideKeeps DEF WorkerFault, Redeliver, status
<1>3. CASE ApiStep \/ RequestLost \/ \E stage \in Kinds : Request(stage)
  <2>1. ~ClearPages
    BY DEF ClearPages, ExtractionInv
  <2>2. worker' = worker /\ UNCHANGED artifacts
    BY <1>3, <2>1 DEF ApiStep, ResetJob, MarkUpload, DispatchStage, RequestLost, Request
  <2>3. \A k \in Kinds : job'[k] = job[k] \/ job'[k] = "queued"
    BY <1>3, <2>1 DEF ApiStep, ResetJob, MarkUpload, DispatchStage, RequestLost, Request, status, TypeOK
  <2> QED BY <2>2, <2>3, BesideKeeps
<1>4. CASE UNCHANGED vars
  BY <1>4 DEF RunInv, MetadataRun, ChunkRun, IndexRun, vars, status, artifacts
<1> QED BY <1>1, <1>2, <1>3, <1>4 DEF Next

\* At first the worker runs no stage.
LEMMA RunInit == Init => RunInv
BY DEF Init, RunInv, MetadataRun, ChunkRun, IndexRun, Idle, Started, NoMessage, Message

-----------------------------------------------------------------------------
(* The chain of a book whose stages nobody starts again.                   *)

\* A message of the book's chain, or one of the two that start it.
OfBook(m) == m.flow = "book" /\ m.task \in ChainKinds \union {"embed", "mark_queued", "start_pipeline"}

\* The places a leaf task comes to when its body has ended or raised.
EndPcs == {"jobDone", "uploadDone", "error", "failJob", "failUpload"}

\* Every message is of the book. The errback runs for the embedding at most,
\* which writes no job of its own.
ChainInv ==
  /\ api.pc = "idle"
  /\ \A m \in queue : OfBook(m)
  /\ \A w \in Workers :
       /\ OfBook(worker[w].msg)
       /\ worker[w].loaded = "processing"
       /\ worker[w].pc \in {"errback", "failActive"} => worker[w].msg.task = "embed"
       /\ worker[w].pc \in EndPcs => worker[w].msg.task \in ChainKinds

\* A step that moves w within the chain keeps this.
LEMMA ChainMovesKeep ==
  ASSUME ChainInv, NEW w \in Workers, NEW pc, Moves(w, {pc}),
         worker'[w].loaded = worker[w].loaded,
         api' = api,
         \A m \in queue' : m \in queue \/ OfBook(m),
         pc \in {"errback", "failActive"} => worker[w].msg.task = "embed",
         pc \in EndPcs => worker[w].msg.task \in ChainKinds
  PROVE  ChainInv'
<1>1. ASSUME NEW v \in Workers
      PROVE  /\ OfBook(worker'[v].msg)
             /\ worker'[v].loaded = "processing"
             /\ worker'[v].pc \in {"errback", "failActive"} => worker'[v].msg.task = "embed"
             /\ worker'[v].pc \in EndPcs => worker'[v].msg.task \in ChainKinds
  <2>1. CASE v = w
    BY <2>1 DEF ChainInv, Moves
  <2>2. CASE v # w
    BY <2>2 DEF ChainInv, Moves
  <2> QED BY <2>1, <2>2
<1>2. \A m \in queue' : OfBook(m)
  BY DEF ChainInv
<1> QED BY <1>1, <1>2 DEF ChainInv, OfBook, EndPcs, ChainKinds

\* Such a step by Goto, GotoWith or Become.
LEMMA LoadedStays ==
  ASSUME TypeOK, NEW w \in Workers, NEW pc, NEW todo, NEW failing,
         Goto(w, pc) \/ GotoWith(w, pc, todo) \/ Become(w, pc, todo, failing)
  PROVE  worker'[w].loaded = worker[w].loaded
BY DEF TypeOK, WorkerStates, Goto, GotoWith, Become

\* The same when the queue stays as it is.
LEMMA ChainGoes ==
  ASSUME TypeOK, ChainInv, NEW w \in Workers, NEW pc, NEW todo, NEW failing,
         Goto(w, pc) \/ GotoWith(w, pc, todo) \/ Become(w, pc, todo, failing),
         api' = api, queue' = queue,
         pc \in {"errback", "failActive"} => worker[w].msg.task = "embed",
         pc \in EndPcs => worker[w].msg.task \in ChainKinds
  PROVE  ChainInv'
<1>1. Moves(w, {pc})
  BY GotoMoves, GotoWithMoves, BecomeMoves
<1> QED BY <1>1, LoadedStays, ChainMovesKeep

\* The steps that queue a message or lose one.
LEMMA QueueingChain ==
  ASSUME TypeOK, ChainInv, NEW w \in Workers,
         Deliver(w) \/ Publish(w) \/ Ack(w) \/ Dispatching(w) \/ Retry(w) \/ Crash(w) \/ Redeliver(w)
  PROVE  ChainInv'
<1> USE DEF status, artifacts, env
<1>0. OfBook(NoMessage)
  BY DEF OfBook, NoMessage, Message
<1>1. CASE Deliver(w)
  BY <1>1 DEF Deliver, Started, TypeOK, ChainInv, EndPcs
<1>2. CASE Publish(w)
  <2> DEFINE m == worker[w].msg
  <2>1. \A t \in NextTasks(m) : OfBook(Message(m.run, m.flow, t))
    BY DEF ChainInv, NextTasks, OfBook, Message, ChainKinds
  <2>2. \A n \in queue' : n \in queue \/ OfBook(n)
    BY <1>2, <2>1 DEF Publish
  <2> QED BY <1>2, <2>2, GotoMoves, LoadedStays, ChainMovesKeep DEF Publish, EndPcs
<1>3. CASE Ack(w)
  BY <1>0, <1>3, IdleFields DEF Ack, TypeOK, ChainInv, EndPcs
<1>4. CASE MarkRead(w)
  BY <1>4, ChainGoes DEF MarkRead, EndPcs
<1>5. CASE MarkWrite(w)
  BY <1>5, ChainGoes DEF MarkWrite, EndPcs
<1>6. CASE StartPipeline(w)
  BY <1>6, ChainGoes DEF StartPipeline, EndPcs
<1>7. CASE DispatchBook(w)
  <2>1. \A n \in queue' : n \in queue \/ OfBook(n)
    BY <1>7 DEF DispatchBook, FirstTasks, OfBook, Message, ChainKinds
  <2> QED BY <1>7, <2>1, GotoMoves, LoadedStays, ChainMovesKeep DEF DispatchBook, EndPcs
<1>8. CASE ProcessBook(w)
  BY <1>8 DEF ProcessBook, ChainInv, OfBook, At, ChainKinds
<1>9. CASE Retry(w)
  <2>1. OfBook([worker[w].msg EXCEPT !.retries = @ + 1])
    BY WorkerFields DEF ChainInv, OfBook, Messages
  <2> QED BY <1>9, <2>1, GotoMoves, LoadedStays, ChainMovesKeep DEF Retry, EndPcs
<1>10. CASE Crash(w)
  BY <1>0, <1>10, IdleFields DEF Crash, Fault, TypeOK, ChainInv, EndPcs
<1>11. CASE Redeliver(w)
  BY <1>11 DEF Redeliver, Fault, ChainInv
<1> QED BY <1>1, <1>2, <1>3, <1>4, <1>5, <1>6, <1>7, <1>8, <1>9, <1>10, <1>11 DEF Dispatching

\* The bodies of the leaf tasks.
LEMMA LeafChain ==
  ASSUME TypeOK, ChainInv, NEW w \in Workers, Extracting(w) \/ Structuring(w) \/ Indexing(w)
  PROVE  ChainInv'
<1> USE ChainGoes DEF status, artifacts, env, At, EndPcs, ChainKinds
<1>1. CASE Extracting(w)
  <2>1. CASE ExtractBegin(w)
    BY <2>1 DEF ExtractBegin
  <2>2. CASE ExtractOpen(w)
    BY <2>2 DEF ExtractOpen
  <2>3. CASE ExtractPersist(w)
    BY <2>3 DEF ExtractPersist
  <2> QED BY <1>1, <2>1, <2>2, <2>3 DEF Extracting
<1>2. CASE MetadataBegin(w) \/ MetadataRead(w) \/ MetadataReplace(w) \/ MetadataInsert(w)
  BY <1>2 DEF MetadataBegin, MetadataRead, MetadataReplace, MetadataInsert
<1>3. CASE ChunkBegin(w) \/ ChunkRead(w) \/ ChunkReplace(w) \/ ChunkInsert(w)
  BY <1>3 DEF ChunkBegin, ChunkRead, ChunkReplace, ChunkInsert
<1>4. CASE Indexing(w)
  <2>1. CASE IndexBegin(w) \/ EmbedWarm(w)
    BY <2>1 DEF IndexBegin, EmbedWarm
  <2>2. CASE IndexReplace(w)
    BY <2>2 DEF IndexReplace
  <2>3. CASE IndexUpsert(w)
    BY <2>3 DEF IndexUpsert
  <2> QED BY <1>4, <2>1, <2>2, <2>3 DEF Indexing
<1>5. CASE LayoutBegin(w) \/ LayoutRead(w)
  <2>1. worker[w].msg.task = "layout" /\ OfBook(worker[w].msg)
    BY <1>5 DEF LayoutBegin, BeginJob, LayoutRead, ChainInv
  <2> QED BY <2>1 DEF OfBook
<1> QED BY <1>1, <1>2, <1>3, <1>4, <1>5 DEF Structuring

\* How a leaf ends, its errback and the other faults.
LEMMA EndChain ==
  ASSUME TypeOK, ChainInv, "raise" \notin FaultKinds, NEW w \in Workers,
         \/ Ending(w) /\ ~Retry(w)
         \/ TransientFault(w) \/ LeafRaises(w) \/ EmbedFails(w) \/ ErrbackFails(w) \/ DispatchFails(w)
  PROVE  ChainInv'
<1> USE ChainGoes DEF status, artifacts, env, EndPcs
<1>1. CASE FinishJob(w) \/ FinishUpload(w) \/ RetriesExhausted(w) \/ FailJob(w) \/ FailUpload(w)
  BY <1>1 DEF FinishJob, FinishUpload, RetriesExhausted, FailJob, FailUpload, ChainInv
<1>2. CASE ListActive(w) \/ FailActive(w) \/ FailBook(w)
  <2>1. worker[w].msg.task = "embed"
    BY <1>2 DEF ListActive, FailActive, FailBook, ChainInv
  <2>2. CASE FailBook(w)
    BY <2>2 DEF FailBook
  <2>3. CASE ListActive(w) \/ FailActive(w)
    <3>1. PICK failing : Become(w, "failActive", {}, failing)
      BY <2>3 DEF ListActive, FailActive
    <3> QED BY <2>1, <2>3, <3>1 DEF ListActive, FailActive
  <2> QED BY <1>2, <2>2, <2>3
<1>3. CASE TransientFault(w)
  <2>1. worker[w].msg.task \in ChainKinds
    BY <1>3 DEF TransientFault, ChainInv, OfBook, Kinds, ChainKinds
  <2> QED BY <1>3, <2>1 DEF TransientFault, Fault
<1>4. CASE LeafRaises(w)
  BY <1>4 DEF LeafRaises, Fault
<1>5. CASE EmbedFails(w) \/ ErrbackFails(w)
  BY <1>5 DEF EmbedFails, ErrbackFails, Fault, Raised, At
<1>6. CASE DispatchFails(w)
  BY <1>6 DEF DispatchFails, Fault
<1> QED BY <1>1, <1>2, <1>3, <1>4, <1>5, <1>6 DEF Ending

\* Where no endpoint is called and no leaf raises every step stays in the chain.
LEMMA ChainStep ==
  ASSUME Restarts = {}, "raise" \notin FaultKinds
  PROVE  TypeOK /\ ChainInv /\ [Next]_vars => ChainInv'
<1> SUFFICES ASSUME TypeOK, ChainInv, [Next]_vars PROVE ChainInv'
  OBVIOUS
<1>1. ASSUME NEW w \in Workers, WorkerStep(w) \/ WorkerFault(w) PROVE ChainInv'
  BY <1>1, QueueingChain, LeafChain, EndChain DEF WorkerStep, WorkerFault, Ending
<1>2. CASE ApiStep \/ RequestLost \/ \E stage \in Kinds : Request(stage)
  BY <1>2 DEF ChainInv, ApiStep, ClearPages, ResetJob, MarkUpload, DispatchStage, RequestLost, Request
<1>3. CASE UNCHANGED vars
  BY <1>3 DEF ChainInv, vars, env
<1> QED BY <1>1, <1>2, <1>3 DEF Next

\* At first there are the two messages of the upload service.
LEMMA ChainInit == Init => ChainInv
<1> SUFFICES ASSUME Init PROVE ChainInv
  OBVIOUS
<1>1. OfBook(NoMessage) /\ OfBook(Message(0, "book", "start_pipeline"))
  BY DEF OfBook, NoMessage, Message
<1>2. \A m \in queue : OfBook(m)
  BY <1>1 DEF Init, NoMessage
<1> QED BY <1>1, <1>2, IdleFields DEF Init, ChainInv, NoRequest, EndPcs

-----------------------------------------------------------------------------
(* What is still owed to a book.                                           *)

\* Worker w has a task of this name in hand.
Runs(w, task) == worker[w].pc \notin {"idle", "ack"} /\ worker[w].msg.task = task

\* A task of these is waiting or in hand.
Owed(tasks) ==
  \/ \E m \in queue : m.task \in tasks
  \/ \E w \in Workers : worker[w].msg.task \in tasks /\ Runs(w, worker[w].msg.task)

\* The task worker w has in hand stays there.
Holds(w) == worker'[w].pc \notin {"idle", "ack"} /\ worker'[w].msg = worker[w].msg

\* What the leaf tasks of a chain that raises nothing leave owed: a message
\* stays or is delivered, and a task stays in hand until its message is back
\* in the queue or its successors are.
LEMMA StepShape ==
  ASSUME TypeOK, ChainInv, "raise" \notin FaultKinds,
         NEW w \in Workers, WorkerStep(w) \/ WorkerFault(w)
  PROVE  \/ Deliver(w)
         \/ /\ queue \subseteq queue'
            /\ \/ Publish(w) \/ worker[w].pc \in {"idle", "ack"}
               \/ worker[w].msg.task \notin ChainKinds
               \/ \E m \in queue' : m.task = worker[w].msg.task
               \/ Holds(w)
<1> DEFINE task == worker[w].msg.task
           Kept == /\ queue \subseteq queue'
                   /\ \/ worker[w].pc \in {"idle", "ack"} \/ task \notin ChainKinds
                      \/ \E m \in queue' : m.task = task
                      \/ Holds(w)
<1> USE GotoMoves, GotoWithMoves, BecomeMoves DEF status, artifacts, env, Moves, Holds
<1>1. CASE Deliver(w) \/ Publish(w) \/ Ack(w)
  BY <1>1 DEF Publish, Ack
<1>2. CASE Dispatching(w)
  <2>1. queue \subseteq queue'
    BY <1>2 DEF Dispatching, MarkRead, MarkWrite, StartPipeline, DispatchBook, ProcessBook
  <2>2. task \notin ChainKinds
    BY <1>2 DEF Dispatching, MarkRead, MarkWrite, StartPipeline, DispatchBook, ProcessBook, At, ChainKinds
  <2> QED BY <2>1, <2>2
<1>3. CASE Extracting(w)
  <2>1. Kept
    BY <1>3 DEF Extracting, ExtractBegin, ExtractOpen, ExtractPersist
  <2> QED BY <2>1
<1>4. CASE Structuring(w)
  <2>1. CASE MetadataBegin(w) \/ MetadataRead(w) \/ MetadataReplace(w) \/ MetadataInsert(w)
    BY <2>1 DEF MetadataBegin, MetadataRead, MetadataReplace, MetadataInsert
  <2>2. CASE ChunkBegin(w) \/ ChunkRead(w) \/ ChunkReplace(w) \/ ChunkInsert(w)
    BY <2>2 DEF ChunkBegin, ChunkRead, ChunkReplace, ChunkInsert
  <2>3. CASE LayoutBegin(w) \/ LayoutRead(w)
    BY <2>3 DEF LayoutBegin, BeginJob, LayoutRead, At, ChainKinds
  <2> QED BY <1>4, <2>1, <2>2, <2>3 DEF Structuring
<1>5. CASE Indexing(w)
  BY <1>5 DEF Indexing, IndexBegin, IndexReplace, IndexUpsert, EmbedWarm
<1>6. CASE Ending(w)
  <2>1. CASE FinishJob(w) \/ FinishUpload(w) \/ RetriesExhausted(w) \/ FailJob(w) \/ FailUpload(w)
    <3>1. queue' = queue /\ \E pc : pc \notin {"idle", "ack"} /\ Goto(w, pc)
      BY <2>1 DEF FinishJob, FinishUpload, RetriesExhausted, FailJob, FailUpload
    <3> QED BY <3>1
  <2>2. CASE Retry(w)
    <3>1. [worker[w].msg EXCEPT !.retries = @ + 1].task = task
      BY WorkerFields DEF Messages
    <3>2. queue \subseteq queue' /\ [worker[w].msg EXCEPT !.retries = @ + 1] \in queue'
      BY <2>2 DEF Retry
    <3> HIDE DEF Moves
    <3> QED BY <3>1, <3>2
  <2>3. CASE ListActive(w) \/ FailActive(w) \/ FailBook(w)
    BY <2>3 DEF ListActive, FailActive, FailBook, ChainInv, ChainKinds
  <2> QED BY <1>6, <2>1, <2>2, <2>3 DEF Ending
<1>7. CASE WorkerFault(w)
  <2>1. CASE Crash(w) \/ Redeliver(w)
    BY <2>1 DEF Crash, Redeliver
  <2>2. CASE TransientFault(w)
    BY <2>2 DEF TransientFault
  <2>3. CASE LeafRaises(w)
    BY <2>3 DEF LeafRaises, Fault
  <2>4. CASE EmbedFails(w) \/ ErrbackFails(w)
    BY <2>4 DEF EmbedFails, ErrbackFails, Fault, Raised, At, ChainKinds
  <2>5. CASE DispatchFails(w)
    BY <2>5 DEF DispatchFails, Leaves, Kinds
  <2> QED BY <1>7, <2>1, <2>2, <2>3, <2>4, <2>5 DEF WorkerFault
<1> QED BY <1>1, <1>2, <1>3, <1>4, <1>5, <1>6, <1>7 DEF WorkerStep

\* So what is owed stays owed, but for a task that is done and publishes.
LEMMA OwedStays ==
  ASSUME OneWorker, TypeOK, ChainInv, "raise" \notin FaultKinds,
         NEW w \in Workers, WorkerStep(w) \/ WorkerFault(w),
         NEW tasks \in SUBSET ChainKinds, Owed(tasks)
  PROVE  \/ Owed(tasks)'
         \/ Publish(w) /\ Runs(w, worker[w].msg.task) /\ worker[w].msg.task \in tasks
<1>1. CASE Deliver(w)
  <2>1. PICK m \in queue : queue' = queue \ {m} /\ worker' = [worker EXCEPT ![w] = Started(m)]
    BY <1>1 DEF Deliver
  <2>2. worker[w].pc = "idle" /\ worker'[w].msg = m /\ worker'[w].pc = "begin"
    BY <1>1, <2>1 DEF Deliver, Started, TypeOK
  <2>3. PICK n \in queue : n.task \in tasks
    BY <2>2 DEF Owed, OneWorker, Runs
  <2>4. CASE n = m
    BY <2>2, <2>3, <2>4 DEF Owed, Runs
  <2>5. CASE n # m
    BY <2>1, <2>3, <2>5 DEF Owed
  <2> QED BY <2>4, <2>5
<1>2. CASE ~Deliver(w)
  <2>1. CASE \E m \in queue : m.task \in tasks
    BY <1>2, <2>1, StepShape DEF Owed
  <2>2. CASE worker[w].msg.task \in tasks /\ Runs(w, worker[w].msg.task)
    <3> DEFINE task == worker[w].msg.task
    <3>1. \/ Publish(w)
          \/ \E m \in queue' : m.task = task
          \/ Holds(w)
      BY <1>2, <2>2, StepShape DEF Runs
    <3>2. CASE Publish(w)
      BY <2>2, <3>2
    <3>3. CASE \E m \in queue' : m.task = task
      BY <2>2, <3>3 DEF Owed
    <3>4. CASE Holds(w)
      BY <2>2, <3>4 DEF Owed, Runs, Holds
    <3> QED BY <3>1, <3>2, <3>3, <3>4
  <2> QED BY <2>1, <2>2 DEF Owed, OneWorker
<1> QED BY <1>1, <1>2

\* A task of the chain but the last publishes another one of it.
LEMMA PublishOwes ==
  ASSUME ChainInv, NEW w \in Workers, Publish(w), NEW t \in NextTasks(worker[w].msg), NEW tasks, t \in tasks
  PROVE  Owed(tasks)'
<1> DEFINE m == worker[w].msg
<1>1. Message(m.run, m.flow, t) \in queue'
  BY DEF Publish
<1>2. Message(m.run, m.flow, t).task = t
  BY DEF Message
<1> QED BY <1>1, <1>2 DEF Owed

\* What follows which.
LEMMA ChainOrder ==
  ASSUME NEW m, OfBook(m)
  PROVE  /\ m.task = "initial" => "metadata" \in NextTasks(m)
         /\ m.task = "metadata" => "chunking" \in NextTasks(m)
         /\ m.task = "chunking" => "indexing" \in NextTasks(m)
BY DEF OfBook, NextTasks

\* The places at which a run has just written output or reported success.
WritingPcs ==
  [initial |-> {"persist", "jobDone", "uploadDone"}, metadata |-> {"read", "insert", "jobDone", "uploadDone"},
   chunking |-> {"read", "insert", "jobDone", "uploadDone"}, indexing |-> {"upsert", "jobDone", "uploadDone"}]
Writing(w, task) == worker[w].msg.task = task /\ worker[w].pc \in WritingPcs[task]

\* Only a run of a stage writes its output or reports its success.
OwnWrites(w) ==
  /\ pages' = pages \/ Writing(w, "initial")'
  /\ \/ doc' = doc /\ (job'["metadata"] = "completed" => job["metadata"] = "completed")
     \/ Writing(w, "metadata")'
  /\ \/ chunks' = chunks /\ (job'["chunking"] = "completed" => job["chunking"] = "completed")
     \/ Writing(w, "chunking")'
  /\ \/ points' = points /\ (job'["indexing"] = "indexed" => job["indexing"] = "indexed")
     \/ Writing(w, "indexing")'

\* A step that changes no row and reports no success.
LEMMA NothingWritten ==
  ASSUME NEW w, UNCHANGED artifacts, \A k \in Kinds : job'[k] \in {job[k], "queued", "failed"}
  PROVE  OwnWrites(w)
BY DEF OwnWrites, artifacts, Kinds, ChainKinds

\* Every step of a worker writes for its own stage only.
LEMMA StepWrites ==
  ASSUME TypeOK, NEW w \in Workers, WorkerStep(w) \/ WorkerFault(w)
  PROVE  OwnWrites(w)
<1> USE DEF status, artifacts, env
<1>1. CASE Deliver(w) \/ Publish(w) \/ Ack(w)
  BY <1>1, NothingWritten DEF Deliver, Publish, Ack
<1>2. CASE Dispatching(w)
  <2>1. \A k \in Kinds : job'[k] \in {job[k], "queued"}
    BY <1>2 DEF Dispatching, MarkRead, MarkWrite, StartPipeline, DispatchBook, ProcessBook, TypeOK
  <2>2. UNCHANGED artifacts
    BY <1>2 DEF Dispatching, MarkRead, MarkWrite, StartPipeline, DispatchBook, ProcessBook
  <2> QED BY <2>1, <2>2, NothingWritten
<1>3. CASE Extracting(w) \/ Structuring(w) \/ Indexing(w)
  <2> USE GotoMoves, GotoWithMoves DEF Moves, At, OwnWrites, Writing, WritingPcs
  <2>1. CASE ExtractBegin(w) \/ ExtractOpen(w) \/ ExtractPersist(w)
    BY <2>1 DEF ExtractBegin, ExtractOpen, ExtractPersist, BeginStage, BeginJob, TypeOK, Kinds, ChainKinds
  <2>2. CASE MetadataBegin(w) \/ MetadataRead(w) \/ MetadataReplace(w) \/ MetadataInsert(w)
    BY <2>2 DEF MetadataBegin, MetadataRead, MetadataReplace, MetadataInsert, BeginStage, BeginJob, TypeOK, Kinds, ChainKinds
  <2>3. CASE ChunkBegin(w) \/ ChunkRead(w) \/ ChunkReplace(w) \/ ChunkInsert(w)
    BY <2>3 DEF ChunkBegin, ChunkRead, ChunkReplace, ChunkInsert, BeginStage, BeginJob, TypeOK, Kinds, ChainKinds
  <2>4. CASE IndexBegin(w) \/ IndexReplace(w) \/ IndexUpsert(w) \/ EmbedWarm(w)
    BY <2>4 DEF IndexBegin, IndexReplace, IndexUpsert, EmbedWarm, BeginStage, BeginJob, BeginStatus, TypeOK, Kinds, ChainKinds
  <2>5. CASE LayoutBegin(w) \/ LayoutRead(w)
    BY <2>5 DEF LayoutBegin, BeginJob, LayoutRead, TypeOK, Kinds, ChainKinds
  <2> QED BY <1>3, <2>1, <2>2, <2>3, <2>4, <2>5 DEF Extracting, Structuring, Indexing
<1>4. CASE Ending(w)
  <2>1. CASE FinishJob(w)
    BY <2>1, GotoMoves DEF FinishJob, Moves, OwnWrites, Writing, WritingPcs, TypeOK, Kinds, ChainKinds
  <2>2. CASE FinishUpload(w) \/ Retry(w) \/ RetriesExhausted(w) \/ FailUpload(w) \/ ListActive(w) \/ FailBook(w)
    BY <2>2, NothingWritten DEF FinishUpload, Retry, RetriesExhausted, FailUpload, ListActive, FailBook
  <2>3. CASE FailJob(w) \/ FailActive(w)
    BY <2>3, NothingWritten DEF FailJob, FailActive, TypeOK
  <2> QED BY <1>4, <2>1, <2>2, <2>3 DEF Ending
<1>5. CASE WorkerFault(w)
  BY <1>5, NothingWritten
     DEF WorkerFault, Crash, Redeliver, TransientFault, LeafRaises, EmbedFails, ErrbackFails, DispatchFails, Raised
<1> QED BY <1>1, <1>2, <1>3, <1>4, <1>5 DEF WorkerStep

-----------------------------------------------------------------------------
(* Every success of a book's chain is whole.                               *)

\* A stage that reports success has its whole output, or is still to run
\* again, or the pages are not complete: then the extraction is.
WholeInv ==
  /\ job["metadata"] = "completed" =>
       doc = {Pages} \/ pages # Pages \/ Owed({"initial", "metadata"})
  /\ job["chunking"] = "completed" =>
       chunks = Pages \/ pages # Pages \/ Owed({"initial", "metadata", "chunking"})
  /\ job["chunking"] = "completed" /\ job["indexing"] = "indexed" =>
       points = Pages \/ pages # Pages \/ Owed(ChainKinds)

\* A step of a worker keeps this: where a task publishes its successor is owed,
\* and what the last of them has left is known from its run.
LEMMA WholeStep ==
  ASSUME OneWorker, TypeOK, RunInv, ChainInv, WholeInv, "raise" \notin FaultKinds,
         NEW w \in Workers, WorkerStep(w) \/ WorkerFault(w)
  PROVE  WholeInv'
<1> DEFINE task == worker[w].msg.task
           First == {"initial", "metadata"}
           Middle == {"initial", "metadata", "chunking"}
<1>0. OwnWrites(w) /\ OfBook(worker[w].msg) /\ Pages' = Pages
  BY StepWrites DEF ChainInv, Pages
<1>1. \A t \in NextTasks(worker[w].msg), tasks \in SUBSET ChainKinds :
        Publish(w) /\ t \in tasks => Owed(tasks)'
  BY PublishOwes
<1>2. ASSUME job'["metadata"] = "completed", ~Owed(First)'
      PROVE  doc' = {Pages} \/ pages' # Pages
  <2>1. ~Writing(w, "initial")' /\ ~Writing(w, "metadata")'
    BY <1>2 DEF Owed, Runs, Writing, WritingPcs
  <2>2. pages' = pages /\ doc' = doc /\ job["metadata"] = "completed"
    BY <1>0, <1>2, <2>1 DEF OwnWrites
  <2>3. CASE Owed(First)
    <3>1. Publish(w) /\ task \in First
      BY <1>2, <2>3, OwedStays DEF ChainKinds
    <3>2. task = "metadata"
      BY <1>0, <1>1, <1>2, <3>1, ChainOrder DEF ChainKinds
    <3>3. doc = {pages}
      BY <2>2, <3>1, <3>2 DEF RunInv, MetadataRun, Publish
    <3> QED BY <2>2, <3>3
  <2>4. CASE ~Owed(First)
    BY <2>2, <2>4 DEF WholeInv
  <2> QED BY <2>3, <2>4
<1>3. ASSUME job'["chunking"] = "completed", ~Owed(Middle)'
      PROVE  chunks' = Pages \/ pages' # Pages
  <2>1. ~Writing(w, "initial")' /\ ~Writing(w, "chunking")'
    BY <1>3 DEF Owed, Runs, Writing, WritingPcs
  <2>2. pages' = pages /\ chunks' = chunks /\ job["chunking"] = "completed"
    BY <1>0, <1>3, <2>1 DEF OwnWrites
  <2>3. CASE Owed(Middle)
    <3>1. Publish(w) /\ task \in Middle
      BY <1>3, <2>3, OwedStays DEF ChainKinds
    <3>2. task = "chunking"
      BY <1>0, <1>1, <1>3, <3>1, ChainOrder DEF ChainKinds
    <3>3. chunks = pages
      BY <2>2, <3>1, <3>2 DEF RunInv, ChunkRun, Publish
    <3> QED BY <2>2, <3>3
  <2>4. CASE ~Owed(Middle)
    BY <2>2, <2>4 DEF WholeInv
  <2> QED BY <2>3, <2>4
<1>4. ASSUME job'["chunking"] = "completed", job'["indexing"] = "indexed", ~Owed(ChainKinds)'
      PROVE  points' = Pages \/ pages' # Pages
  <2>1. ~Writing(w, "initial")' /\ ~Writing(w, "chunking")' /\ ~Writing(w, "indexing")'
    BY <1>4 DEF Owed, Runs, Writing, WritingPcs, ChainKinds
  <2>2. /\ pages' = pages /\ chunks' = chunks /\ points' = points
        /\ job["chunking"] = "completed" /\ job["indexing"] = "indexed"
    BY <1>0, <1>4, <2>1 DEF OwnWrites
  <2>3. CASE Owed(ChainKinds)
    <3>1. Publish(w) /\ task \in ChainKinds
      BY <1>4, <2>3, OwedStays
    <3>2. task = "indexing"
      BY <1>0, <1>1, <1>4, <3>1, ChainOrder DEF ChainKinds
    <3>3. points = chunks
      BY <2>2, <3>1, <3>2 DEF RunInv, IndexRun, Publish
    <3>4. ~Owed(Middle)
      <4> SUFFICES ASSUME Owed(Middle) PROVE FALSE
        OBVIOUS
      <4>1. Owed(Middle)'
        BY <3>2, OwedStays DEF ChainKinds
      <4> QED BY <1>4, <4>1 DEF Owed, ChainKinds
    <3> QED BY <2>2, <3>3, <3>4 DEF WholeInv
  <2>4. CASE ~Owed(ChainKinds)
    BY <2>2, <2>4 DEF WholeInv
  <2> QED BY <2>3, <2>4
<1> QED BY <1>0, <1>2, <1>3, <1>4 DEF WholeInv

\* Where the pipeline runs on one worker, no stage is started by an endpoint
\* and no leaf raises out of its handler, every stage of an extracted book that
\* reports success has its whole output once nothing is left to do: however
\* often leaves fail, are retried, crash or are delivered twice.
THEOREM SuccessIsWhole ==
  ASSUME OneWorker, Restarts = {}, "raise" \notin FaultKinds
  PROVE  Spec => []StagesAreWhole
<1> DEFINE Inv == TypeOK /\ ExtractionInv /\ RunInv /\ ChainInv /\ WholeInv
<1>1. Init => WholeInv
  BY DEF Init, WholeInv, Kinds, ChainKinds
<1>2. "initial" \notin Restarts
  OBVIOUS
<1>3. Inv /\ [Next]_vars => WholeInv'
  <2> SUFFICES ASSUME Inv, [Next]_vars PROVE WholeInv'
    OBVIOUS
  <2>1. ASSUME NEW w \in Workers, WorkerStep(w) \/ WorkerFault(w) PROVE WholeInv'
    BY <2>1, WholeStep
  <2>2. CASE ApiStep \/ RequestLost \/ \E stage \in Kinds : Request(stage)
    BY <2>2 DEF ChainInv, ApiStep, ClearPages, ResetJob, MarkUpload, DispatchStage, RequestLost, Request
  <2>3. CASE UNCHANGED vars
    BY <2>3 DEF WholeInv, Owed, Runs, Pages, vars, status, artifacts
  <2> QED BY <2>1, <2>2, <2>3 DEF Next
<1>4. Inv => StagesAreWhole
  <2> SUFFICES ASSUME Inv, Quiet, job["initial"] = "completed"
               PROVE  /\ job["metadata"] = "completed" => doc = {Pages}
                      /\ job["chunking"] = "completed" => chunks = Pages
                      /\ job["chunking"] = "completed" /\ job["indexing"] = "indexed" => points = Pages
    BY DEF StagesAreWhole
  <2>1. \A tasks : ~Owed(tasks)
    BY DEF Quiet, Owed, Runs
  <2>2. pages = Pages
    BY DEF ExtractionInv
  <2> QED BY <2>1, <2>2 DEF WholeInv
<1> QED BY <1>1, <1>2, <1>3, <1>4, ExtractionInit, ExtractionStep, RunInit, RunStep,
           ChainInit, ChainStep, TypeCorrect, PTL DEF Spec

-----------------------------------------------------------------------------
(* The verdict on the upload.                                              *)

\* The upload is completed exactly if its book is indexed.
Agrees == upload = "completed" <=> job["indexing"] = "indexed"

\* The indexing leaves the verdict as its job is: no other task runs in between.
VerdictRun(w) ==
  /\ worker[w].pc \notin {"errback", "failActive"}
  /\ worker[w].msg.task = "indexing" =>
       /\ worker[w].pc = "uploadDone" => job["indexing"] = "indexed"
       /\ worker[w].pc = "failUpload" => job["indexing"] # "indexed"
       /\ worker[w].pc = "publish" => Agrees

\* The verdict agrees with the index or a task of the chain is owed: the last
\* one of them is the indexing, which writes the job and then the upload.
VerdictInv ==
  /\ Agrees \/ Owed(ChainKinds)
  /\ \A w \in Workers : VerdictRun(w)

\* A step changes neither side of the verdict or it is one of a chain task,
\* which stays in hand.
LEMMA VerdictWrites ==
  ASSUME TypeOK, ChainInv, VerdictInv, NEW w \in Workers, WorkerStep(w) \/ WorkerFault(w)
  PROVE  \/ upload' = upload /\ (job'["indexing"] = "indexed" <=> job["indexing"] = "indexed")
         \/ worker[w].msg.task \in ChainKinds /\ Holds(w)
<1> USE GotoMoves, GotoWithMoves DEF status, artifacts, env, Moves, Holds
<1>1. CASE Deliver(w) \/ Publish(w) \/ Ack(w)
  BY <1>1 DEF Deliver, Publish, Ack
<1>2. CASE Dispatching(w)
  BY <1>2 DEF Dispatching, MarkRead, MarkWrite, StartPipeline, DispatchBook, ProcessBook, TypeOK, Kinds, ChainKinds
<1>3. CASE Extracting(w)
  BY <1>3 DEF Extracting, ExtractBegin, ExtractOpen, ExtractPersist, At, ChainKinds
<1>4. CASE Structuring(w)
  <2>1. CASE MetadataBegin(w) \/ MetadataRead(w) \/ MetadataReplace(w) \/ MetadataInsert(w)
    BY <2>1 DEF MetadataBegin, MetadataRead, MetadataReplace, MetadataInsert, At, ChainKinds
  <2>2. CASE ChunkBegin(w) \/ ChunkRead(w) \/ ChunkReplace(w) \/ ChunkInsert(w)
    BY <2>2 DEF ChunkBegin, ChunkRead, ChunkReplace, ChunkInsert, At, ChainKinds
  <2>3. CASE LayoutBegin(w) \/ LayoutRead(w)
    BY <2>3 DEF LayoutBegin, BeginJob, LayoutRead, At, ChainInv, OfBook, ChainKinds
  <2> QED BY <1>4, <2>1, <2>2, <2>3 DEF Structuring
<1>5. CASE Indexing(w)
  BY <1>5 DEF Indexing, IndexBegin, IndexReplace, IndexUpsert, EmbedWarm, At, ChainKinds
<1>6. CASE Ending(w)
  <2>1. CASE FinishJob(w) \/ FinishUpload(w) \/ FailJob(w) \/ FailUpload(w)
    BY <2>1 DEF FinishJob, FinishUpload, FailJob, FailUpload, ChainInv, EndPcs
  <2>2. CASE Retry(w) \/ RetriesExhausted(w)
    BY <2>2 DEF Retry, RetriesExhausted
  <2>3. CASE ListActive(w) \/ FailActive(w) \/ FailBook(w)
    BY <2>3 DEF ListActive, FailActive, FailBook, VerdictInv, VerdictRun
  <2> QED BY <1>6, <2>1, <2>2, <2>3 DEF Ending
<1>7. CASE WorkerFault(w)
  BY <1>7 DEF WorkerFault, Crash, Redeliver, TransientFault, LeafRaises, EmbedFails, ErrbackFails, DispatchFails, Raised
<1> QED BY <1>1, <1>2, <1>3, <1>4, <1>5, <1>6, <1>7 DEF WorkerStep

\* A step of the worker leaves its own run so.
LEMMA VerdictRunKept ==
  ASSUME TypeOK, ChainInv, VerdictInv, FaultKinds \intersect {"raise", "embed"} = {},
         NEW w \in Workers, WorkerStep(w) \/ WorkerFault(w)
  PROVE  VerdictRun(w)'
<1> USE IdleFields, GotoMoves, GotoWithMoves, BecomeMoves
    DEF status, artifacts, env, Moves, VerdictRun, VerdictInv, At, Agrees
<1>1. CASE Deliver(w) \/ Publish(w) \/ Ack(w)
  BY <1>1 DEF Deliver, Started, Publish, Ack, TypeOK
<1>2. CASE Dispatching(w)
  BY <1>2 DEF Dispatching, MarkRead, MarkWrite, StartPipeline, DispatchBook, ProcessBook
<1>3. CASE Extracting(w)
  BY <1>3 DEF Extracting, ExtractBegin, ExtractOpen, ExtractPersist
<1>4. CASE Structuring(w)
  <2>1. CASE MetadataBegin(w) \/ MetadataRead(w) \/ MetadataReplace(w) \/ MetadataInsert(w)
    BY <2>1 DEF MetadataBegin, MetadataRead, MetadataReplace, MetadataInsert
  <2>2. CASE ChunkBegin(w) \/ ChunkRead(w) \/ ChunkReplace(w) \/ ChunkInsert(w)
    BY <2>2 DEF ChunkBegin, ChunkRead, ChunkReplace, ChunkInsert
  <2>3. CASE LayoutBegin(w) \/ LayoutRead(w)
    BY <2>3, LayoutMoves DEF LayoutBegin, BeginJob, LayoutRead
  <2> QED BY <1>4, <2>1, <2>2, <2>3 DEF Structuring
<1>5. CASE Indexing(w)
  BY <1>5 DEF Indexing, IndexBegin, IndexReplace, IndexUpsert, EmbedWarm
<1>6. CASE Ending(w)
  <2>1. CASE FinishJob(w)
    BY <2>1 DEF FinishJob, DoneStatus, TypeOK, Kinds, ChainKinds
  <2>2. CASE FinishUpload(w)
    BY <2>2 DEF FinishUpload, ChainInv
  <2>3. CASE FailJob(w)
    BY <2>3 DEF FailJob, TypeOK, Kinds, ChainKinds
  <2>4. CASE FailUpload(w)
    BY <2>4 DEF FailUpload
  <2>5. CASE Retry(w) \/ RetriesExhausted(w)
    BY <2>5 DEF Retry, RetriesExhausted
  <2>6. CASE ListActive(w) \/ FailActive(w) \/ FailBook(w)
    BY <2>6 DEF ListActive, FailActive, FailBook
  <2> QED BY <1>6, <2>1, <2>2, <2>3, <2>4, <2>5, <2>6 DEF Ending
<1>7. CASE WorkerFault(w)
  <2>1. CASE Crash(w) \/ Redeliver(w)
    BY <2>1 DEF Crash, Redeliver, Fault, TypeOK
  <2>2. CASE TransientFault(w) \/ DispatchFails(w)
    BY <2>2 DEF TransientFault, DispatchFails, Fault
  <2>3. CASE LeafRaises(w) \/ EmbedFails(w) \/ ErrbackFails(w)
    BY <2>3 DEF LeafRaises, EmbedFails, ErrbackFails, Fault
  <2> QED BY <1>7, <2>1, <2>2, <2>3 DEF WorkerFault
<1> QED BY <1>1, <1>2, <1>3, <1>4, <1>5, <1>6, <1>7 DEF WorkerStep

\* A step of the worker keeps the verdict.
LEMMA VerdictStep ==
  ASSUME OneWorker, TypeOK, ChainInv, VerdictInv, FaultKinds \intersect {"raise", "embed"} = {},
         NEW w \in Workers, WorkerStep(w) \/ WorkerFault(w)
  PROVE  VerdictInv'
<1>1. \A v \in Workers : VerdictRun(v)'
  BY VerdictRunKept DEF OneWorker
<1>2. ASSUME ~Owed(ChainKinds)' PROVE Agrees'
  <2>1. Agrees' <=> Agrees
    BY <1>2, VerdictWrites DEF Agrees, Holds, Owed, Runs
  <2>2. CASE Owed(ChainKinds)
    <3>1. Publish(w) /\ worker[w].msg.task \in ChainKinds
      BY <1>2, <2>2, OwedStays
    <3>2. OfBook(worker[w].msg)
      BY DEF ChainInv
    <3>3. \A t \in NextTasks(worker[w].msg) : t \notin ChainKinds
      BY <1>2, <3>1, PublishOwes
    <3>4. worker[w].msg.task = "indexing"
      BY <3>1, <3>2, <3>3, ChainOrder DEF ChainKinds
    <3> QED BY <2>1, <3>1, <3>4 DEF Publish, VerdictInv, VerdictRun
  <2>3. CASE ~Owed(ChainKinds)
    BY <2>1, <2>3 DEF VerdictInv
  <2> QED BY <2>2, <2>3
<1> QED BY <1>1, <1>2 DEF VerdictInv

\* Where the pipeline runs on one worker, no stage is started by an endpoint
\* and neither a leaf nor the embedder raises, the upload is reported completed
\* exactly if the book was indexed, once nothing is left to do.
THEOREM VerdictIsTrue ==
  ASSUME OneWorker, Restarts = {}, FaultKinds \intersect {"raise", "embed"} = {}
  PROVE  Spec => []VerdictMatchesIndex
<1>1. Init => VerdictInv
  BY IdleFields DEF Init, VerdictInv, VerdictRun, Agrees, NoMessage, Message, Kinds, ChainKinds
<1>2. TypeOK /\ ChainInv /\ VerdictInv /\ [Next]_vars => VerdictInv'
  <2> SUFFICES ASSUME TypeOK, ChainInv, VerdictInv, [Next]_vars PROVE VerdictInv'
    OBVIOUS
  <2>1. ASSUME NEW w \in Workers, WorkerStep(w) \/ WorkerFault(w) PROVE VerdictInv'
    BY <2>1, VerdictStep
  <2>2. CASE ApiStep \/ RequestLost \/ \E stage \in Kinds : Request(stage)
    BY <2>2 DEF ChainInv, ApiStep, ClearPages, ResetJob, MarkUpload, DispatchStage, RequestLost, Request
  <2>3. CASE UNCHANGED vars
    BY <2>3 DEF VerdictInv, VerdictRun, Agrees, Owed, Runs, vars, status
  <2> QED BY <2>1, <2>2, <2>3 DEF Next
<1>3. VerdictInv => VerdictMatchesIndex
  BY DEF VerdictInv, VerdictMatchesIndex, Agrees, Quiet, Owed, Runs
<1>4. "raise" \notin FaultKinds
  OBVIOUS
<1> QED BY <1>1, <1>2, <1>3, <1>4, ChainInit, ChainStep, TypeCorrect, PTL DEF Spec

-----------------------------------------------------------------------------
(* Stages that are started again.                                          *)

\* The tasks that lead to an extraction.
ExtTasks == {"start_pipeline", "initial"}

\* Only the book's chain extracts: no message starts an extraction from an endpoint.
Route(m) == m.flow # "initial" /\ (m.task = "process_book" => m.flow # "book")
RouteInv ==
  /\ \A m \in queue : Route(m)
  /\ \A w \in Workers : Route(worker[w].msg)
  /\ api.pc # "idle" => api.stage # "initial"

\* Until the book is extracted there is one message that leads to it, waiting
\* or in hand, and nothing of the later stages.
Extraction ==
  /\ \A m, n \in queue : m.task \in ExtTasks /\ n.task \in ExtTasks => m = n
  /\ \A w \in Workers, m \in queue : Runs(w, worker[w].msg.task) /\ worker[w].msg.task \in ExtTasks
                                       => m.task \notin ExtTasks
  /\ \A m \in queue : m.task \in ExtTasks \union {"mark_queued"}
  /\ \A w \in Workers : worker[w].msg.task \in ExtTasks \union {"mark_queued"}
  /\ api.pc = "idle"
  /\ doc = {} /\ chunks = {} /\ points = {}
  /\ job["metadata"] # "completed" /\ job["chunking"] # "completed" /\ job["indexing"] # "indexed"

\* After that the pages are final.
PagesFinal == pages = Pages \/ ~Owed(ExtTasks)

\* What the stages make of them is then whole whenever they report success.
OutputInv ==
  /\ job["metadata"] = "completed" => doc = {pages}
  /\ job["chunking"] = "completed" => chunks = pages
  /\ chunks \in {{}, pages}
  /\ job["indexing"] = "indexed" => points = pages

\* The messages a step of the worker adds.
Added(w, n) ==
  LET m == worker[w].msg
  IN  \/ Retry(w) /\ n.flow = m.flow /\ n.task = m.task
      \/ Publish(w) /\ n.flow = m.flow /\ n.task \in NextTasks(m)
      \/ DispatchBook(w) /\ n.flow = "book" /\ n.task = "initial"
      \/ ProcessBook(w) /\ n.flow = m.flow /\ n.task \in FirstTasks(m.flow)

\* Where no message is delivered twice a step adds these and no others.
LEMMA StepAdds ==
  ASSUME TypeOK, FaultKinds \intersect {"crash", "redeliver"} = {},
         NEW w \in Workers, WorkerStep(w) \/ WorkerFault(w), NEW n \in queue', n \notin queue
  PROVE  Added(w, n)
<1> USE DEF Added
<1>1. CASE Deliver(w) \/ Publish(w) \/ Ack(w)
  BY <1>1 DEF Deliver, Publish, Ack, Message
<1>2. CASE Dispatching(w)
  BY <1>2 DEF Dispatching, MarkRead, MarkWrite, StartPipeline, DispatchBook, ProcessBook, Message, FirstTasks
<1>3. CASE Extracting(w)
  BY <1>3 DEF Extracting, ExtractBegin, ExtractOpen, ExtractPersist
<1>4. CASE Structuring(w)
  BY <1>4 DEF Structuring, MetadataBegin, MetadataRead, MetadataReplace, MetadataInsert,
              ChunkBegin, ChunkRead, ChunkReplace, ChunkInsert, LayoutBegin, BeginJob, LayoutRead
<1>5. CASE Indexing(w)
  BY <1>5 DEF Indexing, IndexBegin, IndexReplace, IndexUpsert, EmbedWarm
<1>6. CASE Retry(w)
  <2>1. n = [worker[w].msg EXCEPT !.retries = @ + 1]
    BY <1>6 DEF Retry
  <2> QED BY <1>6, <2>1, WorkerFields DEF Messages
<1>7. CASE Ending(w) /\ ~Retry(w)
  BY <1>7 DEF Ending, FinishJob, FinishUpload, RetriesExhausted, FailJob, FailUpload,
              ListActive, FailActive, FailBook
<1>8. CASE WorkerFault(w)
  BY <1>8 DEF WorkerFault, Crash, Redeliver, Fault, TransientFault, LeafRaises, EmbedFails, ErrbackFails, DispatchFails, Raised
<1> QED BY <1>1, <1>2, <1>3, <1>4, <1>5, <1>6, <1>7, <1>8 DEF WorkerStep

\* What a worker has in hand is what it had, a message it was delivered, or
\* nothing.
LEMMA StepTakes ==
  ASSUME TypeOK, NEW w \in Workers, WorkerStep(w) \/ WorkerFault(w)
  PROVE  \/ /\ worker'[w].msg = worker[w].msg
            /\ worker[w].pc \in {"idle", "ack"} => worker'[w].pc \in {"idle", "ack"}
         \/ worker'[w].msg \in queue /\ queue' = queue \ {worker'[w].msg}
         \/ worker'[w] = Idle
<1> USE GotoMoves, GotoWithMoves, BecomeMoves DEF Moves, At
<1>1. CASE Deliver(w) \/ Publish(w) \/ Ack(w)
  BY <1>1 DEF Deliver, Started, Publish, Ack, TypeOK
<1>2. CASE Dispatching(w)
  BY <1>2 DEF Dispatching, MarkRead, MarkWrite, StartPipeline, DispatchBook, ProcessBook
<1>3. CASE Extracting(w)
  BY <1>3 DEF Extracting, ExtractBegin, ExtractOpen, ExtractPersist
<1>4. CASE Structuring(w)
  <2>1. CASE MetadataBegin(w) \/ MetadataRead(w) \/ MetadataReplace(w) \/ MetadataInsert(w)
    BY <2>1 DEF MetadataBegin, MetadataRead, MetadataReplace, MetadataInsert
  <2>2. CASE ChunkBegin(w) \/ ChunkRead(w) \/ ChunkReplace(w) \/ ChunkInsert(w)
    BY <2>2 DEF ChunkBegin, ChunkRead, ChunkReplace, ChunkInsert
  <2>3. CASE LayoutBegin(w) \/ LayoutRead(w)
    BY <2>3, LayoutMoves DEF LayoutBegin, BeginJob, LayoutRead
  <2> QED BY <1>4, <2>1, <2>2, <2>3 DEF Structuring
<1>5. CASE Indexing(w)
  BY <1>5 DEF Indexing, IndexBegin, IndexReplace, IndexUpsert, EmbedWarm
<1>6. CASE Ending(w)
  BY <1>6 DEF Ending, FinishJob, FinishUpload, Retry, RetriesExhausted, FailJob, FailUpload,
              ListActive, FailActive, FailBook
<1>7. CASE WorkerFault(w)
  BY <1>7 DEF WorkerFault, Crash, Redeliver, TransientFault, LeafRaises, EmbedFails, ErrbackFails, DispatchFails, Raised, TypeOK
<1> QED BY <1>1, <1>2, <1>3, <1>4, <1>5, <1>6, <1>7 DEF WorkerStep

\* A worker leaves the endpoints alone.
LEMMA ApiApart ==
  ASSUME NEW w \in Workers, WorkerStep(w) \/ WorkerFault(w)
  PROVE  api' = api
BY DEF WorkerStep, WorkerFault, Deliver, Publish, Ack, Dispatching, MarkRead, MarkWrite,
       StartPipeline, DispatchBook, ProcessBook, Extracting, ExtractBegin, ExtractOpen,
       ExtractPersist, Structuring, LayoutBegin, BeginJob, LayoutRead, MetadataBegin, MetadataRead,
       MetadataReplace, MetadataInsert, ChunkBegin, ChunkRead, ChunkReplace, ChunkInsert,
       Indexing, IndexBegin, IndexReplace, IndexUpsert, EmbedWarm, Ending, FinishJob,
       FinishUpload, Retry, RetriesExhausted, FailJob, FailUpload, ListActive, FailActive,
       FailBook, Crash, Redeliver, TransientFault, LeafRaises, EmbedFails, ErrbackFails, DispatchFails,
       Fault, env

\* Every step keeps the routes.
LEMMA RouteStep ==
  ASSUME OneWorker, "initial" \notin Restarts, FaultKinds \intersect {"crash", "redeliver"} = {}
  PROVE  TypeOK /\ RouteInv /\ [Next]_vars => RouteInv'
<1> SUFFICES ASSUME TypeOK, RouteInv, [Next]_vars PROVE RouteInv'
  OBVIOUS
<1>1. ASSUME NEW w \in Workers, WorkerStep(w) \/ WorkerFault(w) PROVE RouteInv'
  <2>1. api' = api
    BY <1>1, ApiApart
  <2>2. Route(worker'[w].msg)
    BY <1>1, StepTakes, IdleFields DEF RouteInv, Route, NoMessage, Message
  <2>3. ASSUME NEW n \in queue' PROVE Route(n)
    <3>1. CASE n \in queue
      BY <3>1 DEF RouteInv
    <3>2. CASE n \notin queue
      <4>1. Added(w, n)
        BY <1>1, <3>2, StepAdds
      <4>2. Route(worker[w].msg)
        BY DEF RouteInv
      <4> QED BY <4>1, <4>2 DEF Added, Route, NextTasks, FirstTasks, ProcessBook, At
    <3> QED BY <3>1, <3>2
  <2> QED BY <2>1, <2>2, <2>3 DEF RouteInv, OneWorker
<1>2. CASE ApiStep \/ RequestLost
  <2>1. CASE ClearPages \/ ResetJob \/ MarkUpload
    BY <2>1 DEF ClearPages, ResetJob, MarkUpload, RouteInv, TypeOK, Calls
  <2>2. CASE RequestLost
    BY <2>2 DEF RequestLost, NoRequest, RouteInv
  <2>3. CASE DispatchStage
    <3> DEFINE task == IF api.stage \in {"layout", "metadata"} THEN api.stage ELSE "process_book"
    <3>1. api.stage \in Kinds /\ api.stage # "initial"
      BY <2>3 DEF DispatchStage, RouteInv, TypeOK, Calls
    <3>2. Route(Message(requests, api.stage, task))
      BY <3>1 DEF Route, Message, Kinds, ChainKinds
    <3> QED BY <2>3, <3>2 DEF DispatchStage, NoRequest, RouteInv
  <2> QED BY <1>2, <2>1, <2>2, <2>3 DEF ApiStep
<1>3. ASSUME NEW stage \in Kinds, Request(stage) PROVE RouteInv'
  BY <1>3 DEF Request, RouteInv
<1>4. CASE UNCHANGED vars
  BY <1>4 DEF RouteInv, vars, env
<1> QED BY <1>1, <1>2, <1>3, <1>4 DEF Next

\* Only the extraction writes pages, and it adds some.
LEMMA PagesGrow ==
  ASSUME TypeOK, NEW w \in Workers, WorkerStep(w) \/ WorkerFault(w)
  PROVE  pages' = pages \/ (ExtractPersist(w) /\ pages \subseteq pages')
<1>1. CASE Extracting(w)
  BY <1>1 DEF Extracting, ExtractBegin, ExtractOpen, ExtractPersist, artifacts
<1>2. CASE ~Extracting(w)
  BY <1>2 DEF WorkerStep, WorkerFault, Deliver, Publish, Ack, Dispatching, MarkRead, MarkWrite,
              StartPipeline, DispatchBook, ProcessBook, Structuring, LayoutBegin, BeginJob, LayoutRead,
              MetadataBegin, MetadataRead, MetadataReplace, MetadataInsert, ChunkBegin, ChunkRead,
              ChunkReplace, ChunkInsert, Indexing, IndexBegin, IndexReplace, IndexUpsert, EmbedWarm,
              Ending, FinishJob, FinishUpload, Retry, RetriesExhausted, FailJob, FailUpload,
              ListActive, FailActive, FailBook, Crash, Redeliver, TransientFault, LeafRaises,
              EmbedFails, ErrbackFails, DispatchFails, Raised, artifacts
<1> QED BY <1>1, <1>2

\* Where the pages are final, a step of the worker leaves them so.
LEMMA FinalStays ==
  ASSUME OneWorker, TypeOK, TypeOK', RouteInv, PagesFinal,
         FaultKinds \intersect {"crash", "redeliver"} = {},
         NEW w \in Workers, WorkerStep(w) \/ WorkerFault(w)
  PROVE  PagesFinal' /\ pages' = pages
<1>1. CASE pages = Pages
  <2>1. Pages' = Pages /\ pages' \subseteq Pages
    BY DEF TypeOK, Pages
  <2>2. pages' = pages
    BY <1>1, <2>1, PagesGrow
  <2> QED BY <1>1, <2>1, <2>2 DEF PagesFinal
<1>2. CASE ~Owed(ExtTasks)
  <2>1. pages' = pages
    BY <1>2, PagesGrow DEF ExtractPersist, At, Owed, Runs, ExtTasks
  <2>2. \A n \in queue' : n.task \notin ExtTasks
    <3> SUFFICES ASSUME NEW n \in queue', n.task \in ExtTasks PROVE FALSE
      OBVIOUS
    <3> DEFINE m == worker[w].msg
    <3>1. Added(w, n)
      BY <1>2, StepAdds DEF Owed
    <3>2. Route(m) /\ m.flow \in Flows
      BY WorkerFields, MessageFields DEF RouteInv
    <3>3. CASE Retry(w)
      BY <1>2, <3>1, <3>3 DEF Retry, Owed, Runs, Added, Publish, DispatchBook, ProcessBook, At
    <3>4. CASE Publish(w)
      BY <3>1, <3>4 DEF Publish, Retry, DispatchBook, ProcessBook, At, Added, NextTasks, ExtTasks
    <3>5. CASE DispatchBook(w)
      BY <1>2, <3>5 DEF DispatchBook, At, Owed, Runs, ExtTasks
    <3>6. CASE ProcessBook(w)
      BY <3>1, <3>2, <3>6 DEF ProcessBook, At, Added, Retry, Publish, DispatchBook, Route, FirstTasks,
                               ExtTasks, Flows, Kinds, ChainKinds
    <3> QED BY <3>1, <3>3, <3>4, <3>5, <3>6 DEF Added
  <2>3. ~(worker'[w].pc \notin {"idle", "ack"} /\ worker'[w].msg.task \in ExtTasks)
    BY <1>2, StepTakes, IdleFields DEF Owed, Runs
  <2>4. ~Owed(ExtTasks)'
    BY <2>2, <2>3 DEF Owed, Runs, OneWorker
  <2> QED BY <2>1, <2>4 DEF PagesFinal
<1> QED BY <1>1, <1>2 DEF PagesFinal

\* Until the book is extracted the later stages write nothing.
LEMMA ExtractionWrites ==
  ASSUME TypeOK, Extraction, NEW w \in Workers, WorkerStep(w) \/ WorkerFault(w)
  PROVE  /\ worker'[w].msg.task \in ExtTasks \union {"mark_queued"}
         /\ doc' = {} /\ chunks' = {} /\ points' = {}
         /\ job'["metadata"] # "completed" /\ job'["chunking"] # "completed" /\ job'["indexing"] # "indexed"
<1>1. worker'[w].msg.task \in ExtTasks \union {"mark_queued"}
  BY StepTakes, IdleFields DEF Extraction, NoMessage, Message
<1> QED BY <1>1, StepWrites DEF Extraction, OwnWrites, Writing, ExtTasks

\* Until the book is extracted a step of the worker leads on to the extraction;
\* with the last of it there is no other.
LEMMA ExtractionKept ==
  ASSUME OneWorker, TypeOK, RouteInv, Extraction,
         FaultKinds \intersect {"crash", "redeliver"} = {},
         NEW w \in Workers, WorkerStep(w) \/ WorkerFault(w)
  PROVE  Extraction' \/ ~Owed(ExtTasks)'
<1> DEFINE m == worker[w].msg
           Early == ExtTasks \union {"mark_queued"}
           Alone == /\ \A n, o \in queue' : n.task \in ExtTasks /\ o.task \in ExtTasks => n = o
                    /\ \A n \in queue' :
                         worker'[w].pc \notin {"idle", "ack"} /\ worker'[w].msg.task \in ExtTasks
                           => n.task \notin ExtTasks
<1>1. worker'[w].msg.task \in Early
  BY ExtractionWrites
<1>3. api' = api
  BY ApiApart
<1>4. Alone /\ (\A n \in queue' : n.task \in Early) => Extraction'
  <2> HAVE Alone /\ (\A n \in queue' : n.task \in Early)
  <2> QED BY <1>1, <1>3, ExtractionWrites DEF Extraction, OneWorker, Runs, ExtTasks
<1>5. CASE Publish(w)
  <2>1. worker'[w].pc = "ack"
    BY <1>5, GotoMoves DEF Publish, Moves
  <2>2. CASE m.task \in ExtTasks
    <3>1. \A n \in queue : n.task \notin ExtTasks
      BY <1>5, <2>2 DEF Extraction, Publish, Runs
    <3>2. \A n \in queue' : n \notin queue => n.task \notin ExtTasks
      BY <1>5, StepAdds DEF Added, Retry, Publish, DispatchBook, ProcessBook, At, NextTasks, ExtTasks
    <3>3. ~Owed(ExtTasks)'
      BY <2>1, <3>1, <3>2 DEF Owed, Runs, OneWorker
    <3> QED BY <3>3
  <2>3. CASE m.task \notin ExtTasks
    <3>1. NextTasks(m) = {}
      BY <2>3 DEF Extraction, NextTasks, ExtTasks
    <3>2. queue' = queue
      BY <1>5, <3>1 DEF Publish
    <3> QED BY <1>4, <2>1, <3>2 DEF Extraction
  <2> QED BY <2>2, <2>3
<1>6. CASE Retry(w) \/ DispatchBook(w)
  <2>1. PICK x : queue' = queue \union {x} /\ x.task \in Early /\ (x.task \in ExtTasks => m.task \in ExtTasks)
    <3>1. CASE Retry(w)
      <4>1. [m EXCEPT !.retries = @ + 1].task = m.task
        BY WorkerFields DEF Messages
      <4> QED BY <3>1, <4>1 DEF Retry, Extraction
    <3>2. CASE DispatchBook(w)
      <4>1. queue' = queue \union {Message(m.run, "book", "initial")}
        BY <3>2 DEF DispatchBook, FirstTasks
      <4> QED BY <3>2, <4>1 DEF DispatchBook, At, Message, ExtTasks
    <3> QED BY <1>6, <3>1, <3>2
  <2>2. worker'[w].pc = "ack"
    BY <1>6, GotoMoves DEF Retry, DispatchBook, Moves
  <2>3. Runs(w, m.task)
    BY <1>6 DEF Retry, DispatchBook, At, Runs
  <2>4. \A n \in queue' : n.task \in Early
    BY <2>1 DEF Extraction
  <2>5. Alone
    BY <2>1, <2>2, <2>3 DEF Extraction
  <2> QED BY <1>4, <2>4, <2>5
<1>7. CASE ~Publish(w) /\ ~Retry(w) /\ ~DispatchBook(w)
  <2>1. queue' \subseteq queue
    BY <1>7, StepAdds DEF Added, ProcessBook, At, Extraction, ExtTasks
  <2>2. Alone
    <3>1. \A n, o \in queue' : n.task \in ExtTasks /\ o.task \in ExtTasks => n = o
      BY <2>1 DEF Extraction
    <3>2. ASSUME NEW n \in queue', worker'[w].pc \notin {"idle", "ack"}, worker'[w].msg.task \in ExtTasks
          PROVE  n.task \notin ExtTasks
      BY <2>1, <3>2, StepTakes, IdleFields DEF Extraction, Runs
    <3> QED BY <3>1, <3>2
  <2> QED BY <1>4, <2>1, <2>2 DEF Extraction
<1> QED BY <1>5, <1>6, <1>7

\* A step of the worker keeps the output of the stages whole: before the book
\* is extracted there is none, and after that each run reads the final pages.
LEMMA OutputStep ==
  ASSUME OneWorker, TypeOK, TypeOK', RouteInv, RunInv', OutputInv, Extraction \/ PagesFinal,
         FaultKinds \intersect {"crash", "redeliver"} = {},
         NEW w \in Workers, WorkerStep(w) \/ WorkerFault(w)
  PROVE  OutputInv' /\ (Extraction \/ PagesFinal)'
<1>1. CASE Extraction
  <2>1. /\ doc' = {} /\ chunks' = {} /\ points' = {}
        /\ job'["metadata"] # "completed" /\ job'["chunking"] # "completed" /\ job'["indexing"] # "indexed"
    BY <1>1, ExtractionWrites
  <2> QED BY <1>1, <2>1, ExtractionKept DEF OutputInv, PagesFinal
<1>2. CASE PagesFinal
  <2>1. PagesFinal' /\ pages' = pages
    BY <1>2, FinalStays
  <2>2. OwnWrites(w)
    BY StepWrites
  <2>3. MetadataRun(w)' /\ ChunkRun(w)' /\ IndexRun(w)'
    BY DEF RunInv
  <2>4. job'["metadata"] = "completed" => doc' = {pages'}
    <3>1. CASE Writing(w, "metadata")'
      BY <2>3, <3>1 DEF Writing, WritingPcs, MetadataRun
    <3> QED BY <2>1, <2>2, <3>1 DEF OutputInv, OwnWrites
  <2>5. (job'["chunking"] = "completed" => chunks' = pages') /\ chunks' \in {{}, pages'}
    <3>1. CASE Writing(w, "chunking")'
      BY <2>3, <3>1 DEF Writing, WritingPcs, ChunkRun
    <3> QED BY <2>1, <2>2, <3>1 DEF OutputInv, OwnWrites
  <2>6. job'["indexing"] = "indexed" => points' = pages'
    <3>1. CASE Writing(w, "indexing")'
      BY <2>3, <2>5, <3>1 DEF Writing, WritingPcs, IndexRun
    <3> QED BY <2>1, <2>2, <3>1 DEF OutputInv, OwnWrites
  <2> QED BY <2>1, <2>4, <2>5, <2>6 DEF OutputInv
<1> QED BY <1>1, <1>2

\* No endpoint disturbs this: they accept a stage once the book is extracted, and
\* none of them starts the extraction.
LEMMA OutputApi ==
  ASSUME "initial" \notin Restarts, TypeOK, ExtractionInv, RouteInv, OutputInv, Extraction \/ PagesFinal,
         ApiStep \/ RequestLost \/ \E stage \in Kinds : Request(stage)
  PROVE  OutputInv' /\ (Extraction \/ PagesFinal)'
<1>1. CASE ClearPages
  BY <1>1 DEF ClearPages, ExtractionInv
<1>2. CASE ResetJob \/ MarkUpload \/ DispatchStage \/ RequestLost
  <2>1. api.pc # "idle"
    BY <1>2 DEF ResetJob, MarkUpload, DispatchStage, RequestLost
  <2>2. PagesFinal
    BY <2>1 DEF Extraction
  <2>3. UNCHANGED <<artifacts, worker>>
    BY <1>2 DEF ResetJob, MarkUpload, DispatchStage, RequestLost
  <2>4. \A k \in Kinds : job'[k] \in {job[k], "queued"}
    BY <1>2 DEF ResetJob, MarkUpload, DispatchStage, RequestLost, TypeOK, status
  <2>5. OutputInv'
    BY <2>3, <2>4 DEF OutputInv, artifacts, Kinds, ChainKinds
  <2>6. \A n \in queue' : n \in queue \/ n.task \notin ExtTasks
    BY <1>2, <2>1 DEF ResetJob, MarkUpload, DispatchStage, RequestLost, RouteInv, Message, ExtTasks
  <2>7. PagesFinal'
    BY <2>2, <2>3, <2>6 DEF PagesFinal, Owed, Runs, Pages, artifacts
  <2> QED BY <2>5, <2>7
<1>3. ASSUME NEW stage \in Kinds, Request(stage) PROVE OutputInv' /\ (Extraction \/ PagesFinal)'
  <2>1. UNCHANGED <<job, artifacts, queue, worker>>
    BY <1>3 DEF Request, status
  <2>2. PagesFinal
    <3>1. stage # "initial"
      BY <1>3 DEF Request
    <3>2. CASE Extraction
      <4>1. job["initial"] = "completed"
        BY <1>3, <3>1, <3>2 DEF Request, Accepts, AcceptsLayout, AcceptsMetadata, AcceptsChunking,
                                 AcceptsIndexing, Extraction
      <4> QED BY <4>1 DEF ExtractionInv, PagesFinal
    <3> QED BY <3>2
  <2>3. PagesFinal' /\ OutputInv'
    BY <2>1, <2>2 DEF PagesFinal, OutputInv, Owed, Runs, Pages, artifacts
  <2> QED BY <2>3
<1> QED BY <1>1, <1>2, <1>3 DEF ApiStep

\* Where the pipeline runs on one worker, and no message is delivered twice, the
\* same holds of a book whose later stages are started again from their
\* endpoints, at any time and however often, and whatever else fails.
THEOREM RestartedStagesAreWhole ==
  ASSUME OneWorker, "initial" \notin Restarts, FaultKinds \intersect {"crash", "redeliver"} = {}
  PROVE  Spec => []StagesAreWhole
<1> DEFINE Early == Extraction \/ PagesFinal
           Inv == TypeOK /\ ExtractionInv /\ RunInv /\ RouteInv /\ OutputInv /\ Early
<1>1. Init => RouteInv /\ OutputInv /\ Early
  <2> SUFFICES ASSUME Init PROVE RouteInv /\ OutputInv /\ Extraction
    OBVIOUS
  <2>1. \A m \in queue : m.flow = "book" /\ m.task \in {"mark_queued", "start_pipeline"}
    BY DEF Init, Message
  <2>2. \A m, n \in queue : m.task \in ExtTasks /\ n.task \in ExtTasks => m = n
    BY DEF Init, Message, ExtTasks
  <2>3. \A w \in Workers : worker[w] = Idle
    BY DEF Init
  <2>4. RouteInv
    BY <2>1, <2>3, IdleFields DEF Init, RouteInv, Route, NoRequest, NoMessage, Message
  <2>5. OutputInv
    BY DEF Init, OutputInv, Kinds, ChainKinds
  <2>6. Extraction
    BY <2>1, <2>2, <2>3, IdleFields
       DEF Init, Extraction, Runs, ExtTasks, NoRequest, NoMessage, Message, Kinds, ChainKinds
  <2> QED BY <2>4, <2>5, <2>6
<1>2. Inv /\ TypeOK' /\ RunInv' /\ [Next]_vars => OutputInv' /\ Early'
  <2> SUFFICES ASSUME Inv, TypeOK', RunInv', [Next]_vars PROVE OutputInv' /\ Early'
    OBVIOUS
  <2>1. ASSUME NEW w \in Workers, WorkerStep(w) \/ WorkerFault(w) PROVE OutputInv' /\ Early'
    BY <2>1, OutputStep
  <2>2. CASE ApiStep \/ RequestLost \/ \E stage \in Kinds : Request(stage)
    BY <2>2, OutputApi
  <2>3. CASE UNCHANGED vars
    BY <2>3 DEF OutputInv, Extraction, PagesFinal, Owed, Runs, Pages, vars, status, artifacts, env
  <2> QED BY <2>1, <2>2, <2>3 DEF Next
<1>3. Inv => StagesAreWhole
  BY DEF ExtractionInv, OutputInv, StagesAreWhole
<1> QED BY <1>1, <1>2, <1>3, ExtractionInit, ExtractionStep, RunInit, RunStep, RouteStep,
           TypeCorrect, PTL DEF Spec

=============================================================================
