------------------------------ MODULE UploadService ------------------------------
(***************************************************************************)
(* How an upload is accepted, refused and deleted: UploadService of        *)
(* app/services/uploads.py over the uploads and ingestion_jobs tables, the *)
(* storage provider and the broker.                                        *)
(*                                                                         *)
(* Several requests run at once, each with a database session of its own.  *)
(* One step is one commit, one query, one storage call or one message.     *)
(***************************************************************************)
EXTENDS Integers, FiniteSets

CONSTANTS
  Uploads,     \* the upload identifiers that requests are given
  Contents,    \* what a file may contain, up to its SHA-256
  NoContent,   \* the NULL of uploads.sha256
  Deletable,   \* the uploads a client may delete
  FaultKinds,  \* the kinds of fault that occur
  MaxFaults    \* bound: faults in one behaviour

Faults == {"crash", "database", "storage", "lost"}

ASSUME ContentsAssumption == NoContent \notin Contents
ASSUME DeletableAssumption == Deletable \subseteq Uploads
ASSUME FaultsAssumption == FaultKinds \subseteq Faults /\ MaxFaults \in Nat

VARIABLES
  row,      \* uploads.status, "none" without a row; "queued" once accepted
  sha,      \* uploads.sha256
  file,     \* the object in the storage
  job,      \* whether the upload has its ingestion job
  chunked,  \* whether chunks and documents refer to its jobs
  sent,     \* messages given to the broker
  request,  \* the progress of the request that receives the upload
  body,     \* the content of its stream
  delete,   \* the progress of a request that deletes it
  faults    \* faults that occurred

tables == <<row, sha, job, chunked>>
vars == <<tables, file, sent, request, body, delete, faults>>

RowStatuses == {"none", "uploading", "queued"}
FileStates == {"none", "partial", "whole"}
RequestPcs == {"new", "write", "stream", "check", "accept", "finish", "mark", "start",
               "cleanFile", "cleanRow", "cleanRowOnly", "accepted", "rejected", "leaking", "dead"}
Ended == {"accepted", "rejected", "leaking", "dead"}
Messages == {"mark_queued", "start_pipeline"} \X Uploads

\* The exception that receive raises. After "database" the session of the
\* request is unusable until a rollback.
Errors == {"none", "invalid", "duplicate", "database"}
Requests == [pc : RequestPcs, error : Errors]

\* Once the object is removed, the jobs are listed, then deleted with the row.
DeletePcs == {"idle", "list", "withJob", "withoutJob"}

\* The hash is committed together with the status that accepts the upload.
HashOfQueued == \A u \in Uploads : row[u] = "queued" <=> sha[u] # NoContent

TypeOK ==
  /\ row \in [Uploads -> RowStatuses]
  /\ sha \in [Uploads -> Contents \union {NoContent}]
  /\ file \in [Uploads -> FileStates]
  /\ job \in [Uploads -> BOOLEAN]
  /\ chunked \in [Uploads -> BOOLEAN]
  /\ sent \subseteq Messages
  /\ request \in [Uploads -> Requests]
  /\ body \in [Uploads -> Contents]
  /\ delete \in [Uploads -> DeletePcs]
  /\ faults \in 0 .. MaxFaults
  /\ HashOfQueued

Init ==
  /\ row = [u \in Uploads |-> "none"]
  /\ sha = [u \in Uploads |-> NoContent]
  /\ file = [u \in Uploads |-> "none"]
  /\ job = [u \in Uploads |-> FALSE]
  /\ chunked = [u \in Uploads |-> FALSE]
  /\ sent = {}
  /\ request = [u \in Uploads |-> [pc |-> "new", error |-> "none"]]
  /\ body \in [Uploads -> Contents]
  /\ delete = [u \in Uploads |-> "idle"]
  /\ faults = 0

-----------------------------------------------------------------------------
(* Helpers.                                                                *)

At(u, pc) == request[u].pc = pc
Goto(u, pc) == request' = [request EXCEPT ![u] = [pc |-> pc, error |-> request[u].error]]
Raise(u, error) == request' = [request EXCEPT ![u] = [pc |-> "cleanFile", error |-> error]]

\* The other uploads that have the same SHA-256, as the database shows them.
Duplicates(u) == {v \in Uploads \ {u} : row[v] # "none" /\ sha[v] = body[u]}

Fault(kind) ==
  /\ kind \in FaultKinds
  /\ faults < MaxFaults
  /\ faults' = faults + 1

-----------------------------------------------------------------------------
(* UploadService.receive.                                                  *)

Create(u) ==
  /\ At(u, "new")
  /\ row' = [row EXCEPT ![u] = "uploading"]
  /\ Goto(u, "write")
  /\ UNCHANGED <<sha, job, chunked, file, sent, body, delete, faults>>

\* The storage opens the object, which creates it.
OpenFile(u) ==
  /\ At(u, "write")
  /\ file' = [file EXCEPT ![u] = "partial"]
  /\ Goto(u, "stream")
  /\ UNCHANGED <<tables, sent, body, delete, faults>>

\* Mutant: the hash is recorded with the progress, before the checks.
ReadStreamHashes(u) ==
  /\ At(u, "stream")
  /\ file[u] = "partial"
  /\ file' = [file EXCEPT ![u] = "whole"]
  /\ sha' = [sha EXCEPT ![u] = body[u]]
  /\ Goto(u, "check")
  /\ UNCHANGED <<row, job, chunked, sent, body, delete, faults>>

\* The stream ends and the object has its trailer ...
ReadStream(u) ==
  /\ At(u, "stream")
  /\ file[u] = "partial"
  /\ file' = [file EXCEPT ![u] = "whole"]
  /\ Goto(u, "check")
  /\ UNCHANGED <<tables, sent, body, delete, faults>>

\* ... or it is refused: no PDF, too large, cut short, or deleted meanwhile.
RefuseStream(u) ==
  /\ At(u, "stream")
  /\ Raise(u, "invalid")
  /\ UNCHANGED <<tables, file, sent, body, delete, faults>>

\* get_by_sha256.
CheckDuplicate(u) ==
  /\ At(u, "check")
  /\ IF Duplicates(u) = {} THEN Goto(u, "accept") ELSE Raise(u, "duplicate")
  /\ UNCHANGED <<tables, file, sent, body, delete, faults>>

\* Mutant: the index on uploads.sha256 is not unique.
AcceptTwice(u) ==
  /\ At(u, "accept")
  /\ row' = [row EXCEPT ![u] = "queued"]
  /\ sha' = [sha EXCEPT ![u] = body[u]]
  /\ job' = [job EXCEPT ![u] = TRUE]
  /\ Goto(u, "finish")
  /\ UNCHANGED <<chunked, file, sent, body, delete, faults>>

\* create_for_upload commits the new job together with the upload's changes.
\* The unique index on sha256 refuses a second row, and a row that was deleted
\* meanwhile cannot be updated: the flush fails and the session is unusable
\* until a rollback.
Accept(u) ==
  /\ At(u, "accept")
  /\ IF Duplicates(u) = {} /\ row[u] = "uploading"
       THEN /\ row' = [row EXCEPT ![u] = "queued"]
            /\ sha' = [sha EXCEPT ![u] = body[u]]
            /\ job' = [job EXCEPT ![u] = TRUE]
            /\ Goto(u, "finish")
       ELSE Raise(u, "database") /\ UNCHANGED <<row, sha, job>>
  /\ UNCHANGED <<chunked, file, sent, body, delete, faults>>

\* The log entry is committed and the row read again, which a delete that came
\* in between makes fail.
Finish(u) ==
  /\ At(u, "finish")
  /\ IF row[u] = "none" THEN Raise(u, "database") ELSE Goto(u, "mark")
  /\ UNCHANGED <<tables, file, sent, body, delete, faults>>

\* _dispatch_job sends mark_queued, then start_ingestion_pipeline_task; that
\* one of them was not sent is only logged.
Send(u, pc, name, next) ==
  /\ At(u, pc)
  /\ sent' = sent \union {<<name, u>>}
  /\ Goto(u, next)
  /\ UNCHANGED <<tables, file, body, delete, faults>>

DispatchMark(u) == Send(u, "mark", "mark_queued", "start")
DispatchStart(u) == Send(u, "start", "start_pipeline", "accepted")

MessageLost(u) ==
  /\ request[u].pc \in {"mark", "start"}
  /\ Fault("lost")
  /\ Goto(u, IF At(u, "mark") THEN "start" ELSE "accepted")
  /\ UNCHANGED <<tables, file, sent, body, delete>>

-----------------------------------------------------------------------------
(* _cleanup_upload.                                                        *)

\* Mutant: the row is deleted although the file could not be.
CleanFileForgotten(u) ==
  /\ At(u, "cleanFile")
  /\ Goto(u, "cleanRow")
  /\ UNCHANGED <<tables, file, sent, body, delete, faults>>

CleanFile(u) ==
  /\ At(u, "cleanFile")
  /\ file' = [file EXCEPT ![u] = "none"]
  /\ Goto(u, "cleanRow")
  /\ UNCHANGED <<tables, sent, body, delete, faults>>

\* A storage that fails is only logged, and the object stays.
CleanFileFails(u) ==
  /\ At(u, "cleanFile")
  /\ Fault("storage")
  /\ Goto(u, "cleanRowOnly")
  /\ UNCHANGED <<tables, file, sent, body, delete>>

\* The row is deleted through the request's own session: where that still
\* waits for a rollback, the deletion fails, which is only logged.
CleanRow(u) ==
  /\ request[u].pc \in {"cleanRow", "cleanRowOnly"}
  /\ IF request[u].error = "database"
       THEN UNCHANGED <<row, sha>>
       ELSE row' = [row EXCEPT ![u] = "none"] /\ sha' = [sha EXCEPT ![u] = NoContent]
  /\ Goto(u, IF At(u, "cleanRow") THEN "rejected" ELSE "leaking")
  /\ UNCHANGED <<job, chunked, file, sent, body, delete, faults>>

-----------------------------------------------------------------------------
(* UploadService.delete.                                                   *)

\* The row is read and the object removed ...
DeleteFile(u) ==
  /\ delete[u] = "idle"
  /\ u \in Deletable
  /\ row[u] # "none"
  /\ file' = [file EXCEPT ![u] = "none"]
  /\ delete' = [delete EXCEPT ![u] = "list"]
  /\ UNCHANGED <<tables, sent, request, body, faults>>

\* ... the jobs are listed ...
DeleteList(u) ==
  /\ delete[u] = "list"
  /\ delete' = [delete EXCEPT ![u] = IF job[u] THEN "withJob" ELSE "withoutJob"]
  /\ UNCHANGED <<tables, file, sent, request, body, faults>>

\* ... and deleted together with the row, unless a foreign key refuses it: of
\* the chunks or documents to a job, or of a job committed since to the upload.
DeleteRow(u) ==
  /\ delete[u] \in {"withJob", "withoutJob"}
  /\ IF chunked[u] \/ (job[u] /\ delete[u] = "withoutJob")
       THEN UNCHANGED <<row, sha, job>>
       ELSE /\ row' = [row EXCEPT ![u] = "none"]
            /\ sha' = [sha EXCEPT ![u] = NoContent]
            /\ job' = [job EXCEPT ![u] = FALSE]
  /\ delete' = [delete EXCEPT ![u] = "idle"]
  /\ UNCHANGED <<chunked, file, sent, request, body, faults>>

-----------------------------------------------------------------------------
(* The environment.                                                        *)

\* The workers ingest an upload whose pipeline was started.
Ingest(u) ==
  /\ <<"start_pipeline", u>> \in sent
  /\ job[u] /\ file[u] = "whole" /\ ~chunked[u]
  /\ chunked' = [chunked EXCEPT ![u] = TRUE]
  /\ UNCHANGED <<row, sha, job, file, sent, request, body, delete, faults>>

\* A statement of receive fails.
DatabaseFault(u) ==
  /\ request[u].pc \in {"stream", "check", "accept", "finish"}
  /\ Fault("database")
  /\ Raise(u, "database")
  /\ UNCHANGED <<tables, file, sent, body, delete>>

\* The web process dies while it receives or deletes u.
Crash(u) ==
  /\ Fault("crash")
  /\ \/ /\ request[u].pc \notin Ended \union {"new"}
        /\ Goto(u, "dead")
        /\ UNCHANGED delete
     \/ /\ delete[u] # "idle"
        /\ delete' = [delete EXCEPT ![u] = "idle"]
        /\ UNCHANGED request
  /\ UNCHANGED <<tables, file, sent, body>>

Receive(u) ==
  \/ Create(u) \/ OpenFile(u) \/ ReadStream(u) \/ RefuseStream(u) \/ CheckDuplicate(u)
  \/ Accept(u) \/ Finish(u) \/ DispatchMark(u) \/ DispatchStart(u)
  \/ CleanFile(u) \/ CleanRow(u)

Delete(u) == DeleteFile(u) \/ DeleteList(u) \/ DeleteRow(u)

RequestFault(u) == MessageLost(u) \/ CleanFileFails(u) \/ DatabaseFault(u) \/ Crash(u)

Next == \E u \in Uploads : Receive(u) \/ Delete(u) \/ Ingest(u) \/ RequestFault(u)

Spec == Init /\ [][Next]_vars

-----------------------------------------------------------------------------
(* Properties.                                                             *)

\* The uploads that no client may delete.
Kept == Uploads \ Deletable

\* No object of theirs is left in the storage that no row names, whatever dies
\* when, unless the storage refused to remove it: it is created after its row
\* and removed before it. (A deletion may overtake the request that receives
\* the upload.)
FileHasRow == \A u \in Kept : file[u] # "none" => row[u] # "none" \/ At(u, "leaking")

\* A rejected stream whose object the storage removed leaves none, whether its
\* session is broken, its row gone or a deletion under way when it is refused.
RejectedFileIsGone == \A u \in Uploads : At(u, "rejected") => file[u] = "none"

\* A content is accepted once: two uploads that are received together do not
\* both pass, though neither sees the other in get_by_sha256.
AcceptedOnce ==
  \A u, v \in Kept : At(u, "accepted") /\ At(v, "accepted") /\ body[u] = body[v] => u = v

\* A stream is refused as a "duplicate file already uploaded" (receive) only
\* because of an upload that is accepted and has its file: two that arrive
\* together do not refuse each other, and one that fails refuses none, unless
\* it failed after its row was accepted, in a session that cannot clean it up.
DuplicateIsStored ==
  \A u \in Uploads : request[u].error = "duplicate" =>
    \E v \in Uploads \ {u} :
      /\ body[v] = body[u]
      /\ \/ v \in Deletable
         \/ row[v] = "queued" /\ (file[v] = "whole" \/ request[v].error = "database")

=============================================================================
