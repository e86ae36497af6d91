--------------------------- MODULE UploadServiceProofs ---------------------------
(***************************************************************************)
(* Proofs about UploadService, for any number of uploads and contents: the *)
(* type invariant, and what receive promises while nothing is deleted.     *)
(***************************************************************************)
EXTENDS UploadService, TLAPS

USE DEF RowStatuses, FileStates, RequestPcs, Ended, Messages, Errors, Requests, DeletePcs

-----------------------------------------------------------------------------
(* The type invariant.                                                     *)

\* A request that has not begun has no row, so that Create overwrites none.
NewHasNoRow == \A u \in Uploads : At(u, "new") => row[u] = "none"

TypeInv == TypeOK /\ NewHasNoRow

LEMMA TypeInit == Init => TypeInv
  BY ContentsAssumption, FaultsAssumption DEF Init, TypeInv, TypeOK, HashOfQueued, NewHasNoRow

\* What every step of receive's own control needs: Goto and Raise keep the type.
LEMMA ControlType ==
  ASSUME NEW u \in Uploads, request \in [Uploads -> Requests],
         NEW pc \in RequestPcs, NEW error \in Errors
  PROVE  /\ Goto(u, pc) => /\ request' \in [Uploads -> Requests]
                           /\ pc # "new" => \A v \in Uploads : At(v, "new")' => At(v, "new") /\ v # u
         /\ Raise(u, error) => /\ request' \in [Uploads -> Requests]
                               /\ \A v \in Uploads : At(v, "new")' => At(v, "new") /\ v # u
  BY DEF Goto, Raise, At

LEMMA FaultType ==
  ASSUME faults \in 0 .. MaxFaults, NEW kind, Fault(kind)
  PROVE  faults' \in 0 .. MaxFaults
  BY FaultsAssumption DEF Fault

LEMMA ReceiveType ==
  ASSUME TypeInv, NEW u \in Uploads, Receive(u)
  PROVE  TypeInv'
<1> USE DEF TypeInv, TypeOK, HashOfQueued, NewHasNoRow, At, tables
<1>1. CASE Create(u)
  <2>1. /\ request' \in [Uploads -> Requests]
        /\ \A v \in Uploads : At(v, "new")' => At(v, "new") /\ v # u
    BY <1>1, ControlType DEF Create
  <2>2. /\ row[u] = "none" /\ row' = [row EXCEPT ![u] = "uploading"]
        /\ UNCHANGED <<sha, job, chunked, file, sent, body, delete, faults>>
    BY <1>1 DEF Create
  <2> QED
    BY <2>1, <2>2
<1>2. CASE OpenFile(u)
  BY <1>2, ControlType DEF OpenFile
<1>3. CASE ReadStream(u)
  BY <1>3, ControlType DEF ReadStream
<1>4. CASE RefuseStream(u)
  BY <1>4, ControlType DEF RefuseStream
<1>5. CASE CheckDuplicate(u)
  BY <1>5, ControlType DEF CheckDuplicate
<1>6. CASE Accept(u)
  <2>1. /\ request' \in [Uploads -> Requests]
        /\ \A v \in Uploads : request'[v].pc = "new" => request[v].pc = "new" /\ v # u
    BY <1>6 DEF Accept, Goto, Raise
  <2>2. /\ row' \in [Uploads -> RowStatuses]
        /\ sha' \in [Uploads -> Contents \union {NoContent}]
        /\ job' \in [Uploads -> BOOLEAN]
    <3>1. CASE Duplicates(u) = {} /\ row[u] = "uploading"
      <4>1. /\ row' = [row EXCEPT ![u] = "queued"]
            /\ sha' = [sha EXCEPT ![u] = body[u]]
            /\ job' = [job EXCEPT ![u] = TRUE]
        BY <1>6, <3>1 DEF Accept
      <4> QED
        BY <4>1
    <3>2. CASE ~(Duplicates(u) = {} /\ row[u] = "uploading")
      BY <1>6, <3>2 DEF Accept
    <3> QED
      BY <3>1, <3>2
  <2>3. \A v \in Uploads : row'[v] = "queued" <=> sha'[v] # NoContent
    BY <1>6, ContentsAssumption DEF Accept
  <2>4. \A v \in Uploads \ {u} : row'[v] = row[v]
    BY <1>6 DEF Accept
  <2>5. UNCHANGED <<chunked, file, sent, body, delete, faults>>
    BY <1>6 DEF Accept
  <2> QED
    BY <2>1, <2>2, <2>3, <2>4, <2>5
<1>7. CASE Finish(u)
  BY <1>7, ControlType DEF Finish
<1>8. CASE DispatchMark(u)
  <2>1. /\ request' \in [Uploads -> Requests]
        /\ \A v \in Uploads : request'[v].pc = "new" => request[v].pc = "new"
    BY <1>8 DEF DispatchMark, Send, Goto
  <2>2. sent' \subseteq Messages
    BY <1>8, <<"mark_queued", u>> \in Messages DEF DispatchMark, Send
  <2>3. UNCHANGED <<row, sha, job, chunked, file, body, delete, faults>>
    BY <1>8 DEF DispatchMark, Send
  <2> QED
    BY <2>1, <2>2, <2>3
<1>9. CASE DispatchStart(u)
  <2>1. /\ request' \in [Uploads -> Requests]
        /\ \A v \in Uploads : request'[v].pc = "new" => request[v].pc = "new"
    BY <1>9 DEF DispatchStart, Send, Goto
  <2>2. sent' \subseteq Messages
    BY <1>9, <<"start_pipeline", u>> \in Messages DEF DispatchStart, Send
  <2>3. UNCHANGED <<row, sha, job, chunked, file, body, delete, faults>>
    BY <1>9 DEF DispatchStart, Send
  <2> QED
    BY <2>1, <2>2, <2>3
<1>10. CASE CleanFile(u)
  BY <1>10, ControlType DEF CleanFile
<1>11. CASE CleanRow(u)
  <2>1. /\ request' \in [Uploads -> Requests]
        /\ \A v \in Uploads : request'[v].pc = "new" => request[v].pc = "new"
    BY <1>11 DEF CleanRow, Goto
  <2>2. /\ row' \in [Uploads -> RowStatuses]
        /\ sha' \in [Uploads -> Contents \union {NoContent}]
        /\ \A v \in Uploads : row'[v] = "queued" <=> sha'[v] # NoContent
        /\ \A v \in Uploads : row[v] = "none" => row'[v] = "none"
    <3>1. CASE request[u].error = "database"
      BY <1>11, <3>1 DEF CleanRow
    <3>2. CASE request[u].error # "database"
      <4>1. row' = [row EXCEPT ![u] = "none"] /\ sha' = [sha EXCEPT ![u] = NoContent]
        BY <1>11, <3>2 DEF CleanRow
      <4> QED
        BY <4>1
    <3> QED
      BY <3>1, <3>2
  <2>3. UNCHANGED <<job, chunked, file, sent, body, delete, faults>>
    BY <1>11 DEF CleanRow
  <2> QED
    BY <2>1, <2>2, <2>3
<1> QED
  BY <1>1, <1>2, <1>3, <1>4, <1>5, <1>6, <1>7, <1>8, <1>9, <1>10, <1>11 DEF Receive

LEMMA DeleteType ==
  ASSUME TypeInv, NEW u \in Uploads, Delete(u) \/ Ingest(u)
  PROVE  TypeInv'
<1> USE DEF TypeInv, TypeOK, HashOfQueued, NewHasNoRow, At, tables
<1>1. CASE DeleteFile(u)
  BY <1>1 DEF DeleteFile
<1>2. CASE DeleteList(u)
  BY <1>2 DEF DeleteList
<1>3. CASE DeleteRow(u)
  <2>1. /\ delete' = [delete EXCEPT ![u] = "idle"]
        /\ UNCHANGED <<chunked, file, sent, request, body, faults>>
    BY <1>3 DEF DeleteRow
  <2>2. CASE UNCHANGED <<row, sha, job>>
    BY <2>1, <2>2
  <2>3. CASE /\ row' = [row EXCEPT ![u] = "none"]
             /\ sha' = [sha EXCEPT ![u] = NoContent]
             /\ job' = [job EXCEPT ![u] = FALSE]
    BY <2>1, <2>3
  <2> QED
    BY <1>3, <2>2, <2>3 DEF DeleteRow
<1>4. CASE Ingest(u)
  BY <1>4 DEF Ingest
<1> QED
  BY <1>1, <1>2, <1>3, <1>4 DEF Delete

LEMMA RequestFaultType ==
  ASSUME TypeInv, NEW u \in Uploads, RequestFault(u)
  PROVE  TypeInv'
<1> USE DEF TypeInv, TypeOK, HashOfQueued, NewHasNoRow, At, tables
<1>1. CASE MessageLost(u)
  BY <1>1, ControlType, FaultType DEF MessageLost
<1>2. CASE CleanFileFails(u)
  BY <1>2, ControlType, FaultType DEF CleanFileFails
<1>3. CASE DatabaseFault(u)
  BY <1>3, ControlType, FaultType DEF DatabaseFault
<1>4. CASE Crash(u)
  <2>1. faults' \in 0 .. MaxFaults
    BY <1>4, FaultType DEF Crash
  <2>2. /\ request' \in [Uploads -> Requests]
        /\ \A v \in Uploads : request'[v].pc = "new" => request[v].pc = "new"
        /\ delete' \in [Uploads -> DeletePcs]
    <3>1. \/ Goto(u, "dead") /\ UNCHANGED delete
          \/ delete' = [delete EXCEPT ![u] = "idle"] /\ UNCHANGED request
      BY <1>4 DEF Crash
    <3>2. CASE Goto(u, "dead") /\ UNCHANGED delete
      BY <3>2 DEF Goto
    <3>3. CASE delete' = [delete EXCEPT ![u] = "idle"] /\ UNCHANGED request
      BY <3>3
    <3> QED
      BY <3>1, <3>2, <3>3
  <2>3. UNCHANGED <<row, sha, job, chunked, file, sent, body>>
    BY <1>4 DEF Crash
  <2> QED
    BY <2>1, <2>2, <2>3
<1> QED
  BY <1>1, <1>2, <1>3, <1>4 DEF RequestFault

LEMMA TypeStep == TypeInv /\ [Next]_vars => TypeInv'
<1> SUFFICES ASSUME TypeInv, [Next]_vars PROVE TypeInv'
  OBVIOUS
<1>1. CASE UNCHANGED vars
  BY <1>1 DEF vars, tables, TypeInv, TypeOK, HashOfQueued, NewHasNoRow, At
<1>2. CASE Next
  BY <1>2, ReceiveType, DeleteType, RequestFaultType DEF Next
<1> QED
  BY <1>1, <1>2

\* Every variable keeps its type, and the hash of a row is committed together
\* with the status that accepts it (UploadService.receive).
THEOREM TypeCorrect == Spec => []TypeOK
<1>1. TypeInv => TypeOK
  BY DEF TypeInv
<1> QED
  BY <1>1, TypeInit, TypeStep, PTL DEF Spec

-----------------------------------------------------------------------------
(* What receive promises to the uploads nobody deletes.                    *)

\* Where a request stands, and the row it has committed by then.
ReceiveInv ==
  \A u \in Kept :
    /\ delete[u] = "idle"
    /\ At(u, "new") => row[u] = "none" /\ file[u] = "none"
    /\ request[u].pc \in {"write", "stream", "check", "accept"} => row[u] = "uploading"
    /\ request[u].pc \in {"finish", "mark", "start", "accepted"} => row[u] = "queued"
    /\ row[u] = "queued" => sha[u] = body[u]

LEMMA CheckDuplicateMoves ==
  ASSUME NEW u \in Uploads, CheckDuplicate(u)
  PROVE  \E pc \in {"accept", "cleanFile"}, error \in {request[u].error, "duplicate"} :
           request' = [request EXCEPT ![u] = [pc |-> pc, error |-> error]]
<1>1. CASE Duplicates(u) = {}
  BY <1>1 DEF CheckDuplicate, Goto
<1>2. CASE Duplicates(u) # {}
  BY <1>2 DEF CheckDuplicate, Raise
<1> QED
  BY <1>1, <1>2

LEMMA AcceptMoves ==
  ASSUME NEW u \in Uploads, Accept(u)
  PROVE  \/ /\ request' = [request EXCEPT ![u] = [pc |-> "finish", error |-> request[u].error]]
            /\ row' = [row EXCEPT ![u] = "queued"]
            /\ sha' = [sha EXCEPT ![u] = body[u]]
            /\ Duplicates(u) = {}
         \/ /\ request' = [request EXCEPT ![u] = [pc |-> "cleanFile", error |-> "database"]]
            /\ UNCHANGED <<row, sha>>
<1>1. CASE Duplicates(u) = {} /\ row[u] = "uploading"
  BY <1>1 DEF Accept, Goto
<1>2. CASE ~(Duplicates(u) = {} /\ row[u] = "uploading")
  BY <1>2 DEF Accept, Raise
<1> QED
  BY <1>1, <1>2

LEMMA DeleteSparesKept ==
  ASSUME TypeInv, ReceiveInv, NEW u \in Uploads, Delete(u), NEW v \in Kept
  PROVE  /\ UNCHANGED <<request, body>>
         /\ row'[v] = row[v] /\ sha'[v] = sha[v] /\ file'[v] = file[v] /\ delete'[v] = delete[v]
<1>1. u # v
  BY DEF Delete, DeleteFile, DeleteList, DeleteRow, ReceiveInv, Kept
<1>2. v \in Uploads
  BY DEF Kept
<1>3. CASE DeleteFile(u)
  BY <1>1, <1>2, <1>3 DEF DeleteFile, TypeInv, TypeOK, tables
<1>4. CASE DeleteList(u)
  BY <1>1, <1>2, <1>4 DEF DeleteList, TypeInv, TypeOK, tables
<1>5. CASE DeleteRow(u)
  BY <1>1, <1>2, <1>5 DEF DeleteRow, TypeInv, TypeOK
<1> QED
  BY <1>3, <1>4, <1>5 DEF Delete

LEMMA ReceiveInvInit == Init => ReceiveInv
  BY DEF Init, ReceiveInv, At, Kept

LEMMA ReceiveInvStep ==
  ASSUME TypeInv, ReceiveInv, [Next]_vars
  PROVE  ReceiveInv'
<1> USE DEF ReceiveInv, At, Kept
<1>1. CASE UNCHANGED vars
  BY <1>1 DEF vars, tables
<1>2. ASSUME NEW u \in Uploads, Receive(u) PROVE ReceiveInv'
  <2> USE DEF TypeInv, TypeOK, tables
  <2>1. CASE Create(u)
    BY <2>1 DEF Create, Goto
  <2>2. CASE OpenFile(u)
    BY <2>2 DEF OpenFile, Goto
  <2>3. CASE ReadStream(u)
    BY <2>3 DEF ReadStream, Goto
  <2>4. CASE RefuseStream(u)
    BY <2>4 DEF RefuseStream, Raise
  <2>5. CASE CheckDuplicate(u)
    <3>1. PICK pc \in {"accept", "cleanFile"}, error \in {request[u].error, "duplicate"} :
            request' = [request EXCEPT ![u] = [pc |-> pc, error |-> error]]
      BY <2>5, CheckDuplicateMoves
    <3>2. request[u].pc = "check" /\ UNCHANGED <<row, sha, file, body, delete>>
      BY <2>5 DEF CheckDuplicate
    <3> QED
      BY <3>1, <3>2
  <2>6. CASE Accept(u)
    <3>1. UNCHANGED <<file, body, delete>>
      BY <2>6 DEF Accept
    <3>2. CASE /\ request' = [request EXCEPT ![u] = [pc |-> "finish", error |-> request[u].error]]
               /\ row' = [row EXCEPT ![u] = "queued"]
               /\ sha' = [sha EXCEPT ![u] = body[u]]
      BY <2>6, <3>1, <3>2 DEF Accept
    <3>3. CASE /\ request' = [request EXCEPT ![u] = [pc |-> "cleanFile", error |-> "database"]]
               /\ UNCHANGED <<row, sha>>
      BY <3>1, <3>3
    <3> QED
      BY <2>6, <3>2, <3>3, AcceptMoves
  <2>7. CASE Finish(u)
    BY <2>7 DEF Finish, Goto, Raise
  <2>8. CASE DispatchMark(u)
    BY <2>8 DEF DispatchMark, Send, Goto
  <2>9. CASE DispatchStart(u)
    BY <2>9 DEF DispatchStart, Send, Goto
  <2>10. CASE CleanFile(u)
    BY <2>10 DEF CleanFile, Goto
  <2>11. CASE CleanRow(u)
    BY <2>11 DEF CleanRow, Goto
  <2> QED
    BY <1>2, <2>1, <2>2, <2>3, <2>4, <2>5, <2>6, <2>7, <2>8, <2>9, <2>10, <2>11 DEF Receive
<1>3. ASSUME NEW u \in Uploads, Delete(u) PROVE ReceiveInv'
  BY <1>3, DeleteSparesKept
<1>4. ASSUME NEW u \in Uploads, Ingest(u) PROVE ReceiveInv'
  BY <1>4 DEF Ingest
<1>5. ASSUME NEW u \in Uploads, RequestFault(u) PROVE ReceiveInv'
  <2> USE DEF TypeInv, TypeOK, tables
  <2>1. CASE MessageLost(u)
    BY <2>1 DEF MessageLost, Goto
  <2>2. CASE CleanFileFails(u)
    BY <2>2 DEF CleanFileFails, Goto
  <2>3. CASE DatabaseFault(u)
    BY <2>3 DEF DatabaseFault, Raise
  <2>4. CASE Crash(u)
    <3>1. UNCHANGED <<row, sha, file, body>>
      BY <2>4 DEF Crash
    <3>2. CASE /\ request[u].pc \notin Ended \union {"new"}
               /\ Goto(u, "dead")
               /\ UNCHANGED delete
      BY <3>1, <3>2 DEF Goto
    <3>3. CASE delete' = [delete EXCEPT ![u] = "idle"] /\ UNCHANGED request
      BY <3>1, <3>3
    <3> QED
      BY <2>4, <3>2, <3>3 DEF Crash
  <2> QED
    BY <1>5, <2>1, <2>2, <2>3, <2>4 DEF RequestFault
<1> QED
  BY <1>1, <1>2, <1>3, <1>4, <1>5 DEF Next

-----------------------------------------------------------------------------
(* No orphan objects.                                                      *)

\* A row is deleted only when its object is gone.
FilesInv ==
  /\ FileHasRow
  /\ \A u \in Kept : At(u, "cleanRow") => file[u] = "none"

LEMMA FilesInvInit == Init => FilesInv
  BY DEF Init, FilesInv, FileHasRow, At, Kept

LEMMA FilesInvStep ==
  ASSUME TypeInv, ReceiveInv, FilesInv, [Next]_vars
  PROVE  FilesInv'
<1> USE DEF FilesInv, FileHasRow, At, Kept
<1>1. CASE UNCHANGED vars
  BY <1>1 DEF vars, tables
<1>2. ASSUME NEW u \in Uploads, Receive(u) PROVE FilesInv'
  <2> USE DEF TypeInv, TypeOK, tables
  <2>1. CASE Create(u)
    BY <2>1 DEF Create, Goto
  <2>2. CASE OpenFile(u)
    BY <2>2 DEF OpenFile, Goto, ReceiveInv
  <2>3. CASE ReadStream(u)
    BY <2>3 DEF ReadStream, Goto
  <2>4. CASE RefuseStream(u)
    BY <2>4 DEF RefuseStream, Raise
  <2>5. CASE CheckDuplicate(u)
    <3>1. \A v \in Uploads :
            /\ request'[v].pc = "cleanRow" => request[v].pc = "cleanRow"
            /\ request[v].pc = "leaking" => request'[v].pc = "leaking"
      <4>1. PICK pc \in {"accept", "cleanFile"}, error \in {request[u].error, "duplicate"} :
              request' = [request EXCEPT ![u] = [pc |-> pc, error |-> error]]
        BY <2>5, CheckDuplicateMoves
      <4>2. request[u].pc = "check"
        BY <2>5 DEF CheckDuplicate
      <4> QED
        BY <4>1, <4>2
    <3>2. UNCHANGED <<row, file>>
      BY <2>5 DEF CheckDuplicate
    <3> QED
      BY <3>1, <3>2
  <2>6. CASE Accept(u)
    <3>1. \A v \in Uploads :
            /\ request'[v].pc = "cleanRow" => request[v].pc = "cleanRow"
            /\ request[v].pc = "leaking" => request'[v].pc = "leaking"
      BY <2>6, AcceptMoves DEF Accept
    <3>2. /\ UNCHANGED file
          /\ \A v \in Uploads : row'[v] = "none" => row[v] = "none"
      BY <2>6 DEF Accept
    <3> QED
      BY <3>1, <3>2
  <2>7. CASE Finish(u)
    BY <2>7 DEF Finish, Goto, Raise
  <2>8. CASE DispatchMark(u)
    BY <2>8 DEF DispatchMark, Send, Goto
  <2>9. CASE DispatchStart(u)
    BY <2>9 DEF DispatchStart, Send, Goto
  <2>10. CASE CleanFile(u)
    BY <2>10 DEF CleanFile, Goto
  <2>11. CASE CleanRow(u)
    BY <2>11 DEF CleanRow, Goto
  <2> QED
    BY <1>2, <2>1, <2>2, <2>3, <2>4, <2>5, <2>6, <2>7, <2>8, <2>9, <2>10, <2>11 DEF Receive
<1>3. ASSUME NEW u \in Uploads, Delete(u) PROVE FilesInv'
  BY <1>3, DeleteSparesKept
<1>4. ASSUME NEW u \in Uploads, Ingest(u) PROVE FilesInv'
  BY <1>4 DEF Ingest
<1>5. ASSUME NEW u \in Uploads, RequestFault(u) PROVE FilesInv'
  <2> USE DEF TypeInv, TypeOK, tables
  <2>1. CASE MessageLost(u)
    BY <2>1 DEF MessageLost, Goto
  <2>2. CASE CleanFileFails(u)
    BY <2>2 DEF CleanFileFails, Goto
  <2>3. CASE DatabaseFault(u)
    BY <2>3 DEF DatabaseFault, Raise
  <2>4. CASE Crash(u)
    <3>1. UNCHANGED <<row, file>>
      BY <2>4 DEF Crash
    <3>2. \/ /\ request[u].pc \notin Ended \union {"new"}
             /\ Goto(u, "dead")
          \/ UNCHANGED request
      BY <2>4 DEF Crash
    <3>3. CASE request[u].pc \notin Ended \union {"new"} /\ Goto(u, "dead")
      BY <3>1, <3>3 DEF Goto
    <3>4. CASE UNCHANGED request
      BY <3>1, <3>4
    <3> QED
      BY <3>2, <3>3, <3>4
  <2> QED
    BY <1>5, <2>1, <2>2, <2>3, <2>4 DEF RequestFault
<1> QED
  BY <1>1, <1>2, <1>3, <1>4, <1>5 DEF Next

\* A crash or a database fault at any point of receive leaves no object of an
\* upload nobody deletes without its row; only a storage that refuses to remove
\* the object does (_cleanup_upload).
THEOREM FilesHaveRows == Spec => []FileHasRow
<1>1. Init => TypeInv /\ ReceiveInv /\ FilesInv
  BY TypeInit, ReceiveInvInit, FilesInvInit
<1>2. TypeInv /\ ReceiveInv /\ FilesInv /\ [Next]_vars => (TypeInv /\ ReceiveInv /\ FilesInv)'
  BY TypeStep, ReceiveInvStep, FilesInvStep
<1>3. FilesInv => FileHasRow
  BY DEF FilesInv
<1> QED
  BY <1>1, <1>2, <1>3, PTL DEF Spec

-----------------------------------------------------------------------------
(* Rejected streams leave no object.                                       *)

\* Nothing writes the object of a request that has cleaned it up.
GoneInv ==
  \A u \in Uploads : request[u].pc \in {"cleanRow", "rejected"} => file[u] = "none"

LEMMA GoneInvStep ==
  ASSUME TypeInv, GoneInv, [Next]_vars
  PROVE  GoneInv'
<1> USE DEF GoneInv, At, TypeInv, TypeOK, tables
<1>1. CASE UNCHANGED vars
  BY <1>1 DEF vars
<1>2. ASSUME NEW u \in Uploads, Receive(u) PROVE GoneInv'
  <2>1. CASE Create(u)
    BY <2>1 DEF Create, Goto
  <2>2. CASE OpenFile(u)
    BY <2>2 DEF OpenFile, Goto
  <2>3. CASE ReadStream(u)
    BY <2>3 DEF ReadStream, Goto
  <2>4. CASE RefuseStream(u)
    BY <2>4 DEF RefuseStream, Raise
  <2>5. CASE CheckDuplicate(u)
    <3>1. PICK pc \in {"accept", "cleanFile"}, error \in {request[u].error, "duplicate"} :
            request' = [request EXCEPT ![u] = [pc |-> pc, error |-> error]]
      BY <2>5, CheckDuplicateMoves
    <3>2. UNCHANGED file
      BY <2>5 DEF CheckDuplicate
    <3> QED
      BY <3>1, <3>2
  <2>6. CASE Accept(u)
    <3>1. UNCHANGED file
      BY <2>6 DEF Accept
    <3>2. \A v \in Uploads :
            request'[v].pc \in {"cleanRow", "rejected"} => request[v].pc \in {"cleanRow", "rejected"}
      <4>1. \E pc \in {"finish", "cleanFile"}, error \in Errors :
              request' = [request EXCEPT ![u] = [pc |-> pc, error |-> error]]
        BY <2>6, AcceptMoves
      <4> QED
        BY <4>1
    <3> QED
      BY <3>1, <3>2
  <2>7. CASE Finish(u)
    BY <2>7 DEF Finish, Goto, Raise
  <2>8. CASE DispatchMark(u)
    BY <2>8 DEF DispatchMark, Send, Goto
  <2>9. CASE DispatchStart(u)
    BY <2>9 DEF DispatchStart, Send, Goto
  <2>10. CASE CleanFile(u)
    BY <2>10 DEF CleanFile, Goto
  <2>11. CASE CleanRow(u)
    BY <2>11 DEF CleanRow, Goto
  <2> QED
    BY <1>2, <2>1, <2>2, <2>3, <2>4, <2>5, <2>6, <2>7, <2>8, <2>9, <2>10, <2>11 DEF Receive
<1>3. ASSUME NEW u \in Uploads, Delete(u) \/ Ingest(u) PROVE GoneInv'
  <2>1. CASE DeleteFile(u)
    BY <2>1 DEF DeleteFile
  <2>2. CASE DeleteList(u) \/ DeleteRow(u) \/ Ingest(u)
    BY <2>2 DEF DeleteList, DeleteRow, Ingest
  <2> QED
    BY <1>3, <2>1, <2>2 DEF Delete
<1>4. ASSUME NEW u \in Uploads, RequestFault(u) PROVE GoneInv'
  <2>1. CASE MessageLost(u)
    BY <2>1 DEF MessageLost, Goto
  <2>2. CASE CleanFileFails(u)
    BY <2>2 DEF CleanFileFails, Goto
  <2>3. CASE DatabaseFault(u)
    BY <2>3 DEF DatabaseFault, Raise
  <2>4. CASE Crash(u)
    <3>1. UNCHANGED file
      BY <2>4 DEF Crash
    <3>2. Goto(u, "dead") \/ UNCHANGED request
      BY <2>4 DEF Crash
    <3> QED
      BY <3>1, <3>2 DEF Goto
  <2> QED
    BY <1>4, <2>1, <2>2, <2>3, <2>4 DEF RequestFault
<1> QED
  BY <1>1, <1>2, <1>3, <1>4 DEF Next

\* A rejected stream leaves no object behind, whichever crash, database fault
\* or deletion comes in between, unless the storage refused to remove it
\* (UploadService.receive, _cleanup_upload).
THEOREM RejectedFilesAreGone == Spec => []RejectedFileIsGone
<1>1. Init => TypeInv /\ GoneInv
  BY TypeInit DEF Init, GoneInv
<1>2. TypeInv /\ GoneInv /\ [Next]_vars => (TypeInv /\ GoneInv)'
  BY TypeStep, GoneInvStep
<1>3. GoneInv => RejectedFileIsGone
  BY DEF GoneInv, RejectedFileIsGone, At
<1> QED
  BY <1>1, <1>2, <1>3, PTL DEF Spec

-----------------------------------------------------------------------------
(* A content is accepted once.                                             *)

\* The unique index of uploads.sha256.
UniqueHash ==
  \A u, v \in Uploads : sha[u] = sha[v] /\ sha[u] # NoContent => u = v

LEMMA UniqueHashStep ==
  ASSUME TypeInv, UniqueHash, [Next]_vars
  PROVE  UniqueHash'
<1> USE DEF UniqueHash
<1>1. CASE sha' = sha
  BY <1>1
<1>2. ASSUME NEW u \in Uploads, Accept(u), sha' # sha PROVE UniqueHash'
  <2>1. Duplicates(u) = {} /\ sha' = [sha EXCEPT ![u] = body[u]]
    BY <1>2 DEF Accept
  <2>2. \A v \in Uploads \ {u} : sha[v] # body[u]
    BY <2>1, ContentsAssumption DEF Duplicates, TypeInv, TypeOK, HashOfQueued
  <2> QED
    BY <2>1, <2>2 DEF TypeInv, TypeOK
<1>3. ASSUME NEW u \in Uploads, CleanRow(u) \/ DeleteRow(u), sha' # sha PROVE UniqueHash'
  <2>1. sha' = [sha EXCEPT ![u] = NoContent]
    BY <1>3 DEF CleanRow, DeleteRow
  <2> QED
    BY <2>1 DEF TypeInv, TypeOK
<1>4. ASSUME NEW u \in Uploads, Receive(u) \/ Delete(u) \/ Ingest(u) \/ RequestFault(u)
      PROVE  sha' = sha \/ Accept(u) \/ CleanRow(u) \/ DeleteRow(u)
  <2>1. CASE Receive(u)
    BY <2>1 DEF Receive, Create, OpenFile, ReadStream, RefuseStream, CheckDuplicate, Finish,
                DispatchMark, DispatchStart, Send, CleanFile, tables
  <2>2. CASE Delete(u) \/ Ingest(u)
    BY <2>2 DEF Delete, DeleteFile, DeleteList, Ingest, tables
  <2>3. CASE RequestFault(u)
    BY <2>3 DEF RequestFault, MessageLost, CleanFileFails, DatabaseFault, Crash, tables
  <2> QED
    BY <1>4, <2>1, <2>2, <2>3
<1>5. CASE UNCHANGED vars
  BY <1>5 DEF vars, tables
<1> QED
  BY <1>1, <1>2, <1>3, <1>4, <1>5 DEF Next

\* Of the uploads with the same content at most one is accepted, however their
\* requests interleave and whichever of them fail, unless it may be deleted.
THEOREM ContentAcceptedOnce == Spec => []AcceptedOnce
<1>1. Init => TypeInv /\ ReceiveInv /\ UniqueHash
  BY TypeInit, ReceiveInvInit DEF Init, UniqueHash
<1>2. TypeInv /\ ReceiveInv /\ UniqueHash /\ [Next]_vars => (TypeInv /\ ReceiveInv /\ UniqueHash)'
  BY TypeStep, ReceiveInvStep, UniqueHashStep
<1>3. TypeInv /\ ReceiveInv /\ UniqueHash => AcceptedOnce
  BY ContentsAssumption DEF TypeInv, TypeOK, ReceiveInv, UniqueHash, AcceptedOnce, At, Kept
<1> QED
  BY <1>1, <1>2, <1>3, PTL DEF Spec

-----------------------------------------------------------------------------
(* A duplicate is refused for the sake of an upload that is there.         *)

\* The states of a request that has raised, unless its process died.
Cleaning == {"cleanFile", "cleanRow", "cleanRowOnly", "rejected", "leaking"}

\* The committed hash is that of the stream, and a request raises once.
HashInv ==
  \A u \in Uploads :
    /\ sha[u] # NoContent => sha[u] = body[u]
    /\ request[u].error # "none" => request[u].pc \in Cleaning \union {"dead"}

\* An accepted upload nobody deletes has its object until its own request fails
\* in a broken session, which then keeps the row.
HeldInv ==
  \A u \in Kept :
    /\ request[u].pc \in {"check", "accept", "finish", "mark", "start", "accepted"} => file[u] = "whole"
    /\ row[u] = "queued" => file[u] = "whole" \/ request[u].error = "database"
    /\ row[u] = "queued" /\ request[u].pc \in Cleaning => request[u].error = "database"

LEMMA StoredInit == Init => HashInv /\ HeldInv /\ DuplicateIsStored
  BY DEF Init, HashInv, HeldInv, DuplicateIsStored, Kept

LEMMA HashInvStep ==
  ASSUME TypeInv, HashInv, [Next]_vars
  PROVE  HashInv'
<1> USE DEF HashInv, Cleaning, At
<1>1. CASE UNCHANGED vars
  BY <1>1 DEF vars, tables
<1>2. ASSUME NEW u \in Uploads, Receive(u) PROVE HashInv'
  <2> USE DEF TypeInv, TypeOK, tables
  <2>1. CASE Create(u)
    BY <2>1 DEF Create, Goto
  <2>2. CASE OpenFile(u)
    BY <2>2 DEF OpenFile, Goto
  <2>3. CASE ReadStream(u)
    BY <2>3 DEF ReadStream, Goto
  <2>4. CASE RefuseStream(u)
    BY <2>4 DEF RefuseStream, Raise
  <2>5. CASE CheckDuplicate(u)
    <3>1. CASE Duplicates(u) = {}
      BY <2>5, <3>1 DEF CheckDuplicate, Goto
    <3>2. CASE Duplicates(u) # {}
      BY <2>5, <3>2 DEF CheckDuplicate, Raise
    <3> QED
      BY <3>1, <3>2
  <2>6. CASE Accept(u)
    <3>1. UNCHANGED body /\ request[u].pc = "accept"
      BY <2>6 DEF Accept
    <3>2. CASE /\ request' = [request EXCEPT ![u] = [pc |-> "finish", error |-> request[u].error]]
               /\ row' = [row EXCEPT ![u] = "queued"]
               /\ sha' = [sha EXCEPT ![u] = body[u]]
      BY <3>1, <3>2
    <3>3. CASE /\ request' = [request EXCEPT ![u] = [pc |-> "cleanFile", error |-> "database"]]
               /\ UNCHANGED <<row, sha>>
      BY <3>1, <3>3
    <3> QED
      BY <2>6, <3>2, <3>3, AcceptMoves
  <2>7. CASE Finish(u)
    <3>1. UNCHANGED <<sha, body>>
      BY <2>7 DEF Finish
    <3>2. CASE row[u] = "none"
      BY <2>7, <3>1, <3>2 DEF Finish, Raise
    <3>3. CASE row[u] # "none"
      BY <2>7, <3>1, <3>3 DEF Finish, Goto
    <3> QED
      BY <3>2, <3>3
  <2>8. CASE DispatchMark(u)
    BY <2>8 DEF DispatchMark, Send, Goto
  <2>9. CASE DispatchStart(u)
    BY <2>9 DEF DispatchStart, Send, Goto
  <2>10. CASE CleanFile(u)
    BY <2>10 DEF CleanFile, Goto
  <2>11. CASE CleanRow(u)
    BY <2>11 DEF CleanRow, Goto
  <2> QED
    BY <1>2, <2>1, <2>2, <2>3, <2>4, <2>5, <2>6, <2>7, <2>8, <2>9, <2>10, <2>11 DEF Receive
<1>3. ASSUME NEW u \in Uploads, Delete(u) \/ Ingest(u) PROVE HashInv'
  <2>1. UNCHANGED <<request, body>>
    BY <1>3 DEF Delete, DeleteFile, DeleteList, DeleteRow, Ingest
  <2>2. \A v \in Uploads : sha'[v] \in {sha[v], NoContent}
    BY <1>3 DEF Delete, DeleteFile, DeleteList, DeleteRow, Ingest, TypeInv, TypeOK, tables
  <2> QED
    BY <2>1, <2>2
<1>4. ASSUME NEW u \in Uploads, RequestFault(u) PROVE HashInv'
  <2> USE DEF TypeInv, TypeOK, tables
  <2>1. CASE MessageLost(u)
    BY <2>1 DEF MessageLost, Goto
  <2>2. CASE CleanFileFails(u)
    BY <2>2 DEF CleanFileFails, Goto
  <2>3. CASE DatabaseFault(u)
    BY <2>3 DEF DatabaseFault, Raise
  <2>4. CASE Crash(u)
    <3>1. UNCHANGED <<sha, body>>
      BY <2>4 DEF Crash
    <3>2. Goto(u, "dead") \/ UNCHANGED request
      BY <2>4 DEF Crash
    <3> QED
      BY <3>1, <3>2 DEF Goto
  <2> QED
    BY <1>4, <2>1, <2>2, <2>3, <2>4 DEF RequestFault
<1> QED
  BY <1>1, <1>2, <1>3, <1>4 DEF Next

LEMMA HeldInvStep ==
  ASSUME TypeInv, ReceiveInv, HashInv, HeldInv, [Next]_vars
  PROVE  HeldInv'
<1> USE DEF HeldInv, HashInv, ReceiveInv, Cleaning, At, Kept
<1>1. CASE UNCHANGED vars
  BY <1>1 DEF vars, tables
<1>2. ASSUME NEW u \in Uploads, Receive(u) PROVE HeldInv'
  <2> USE DEF TypeInv, TypeOK, tables
  <2>1. CASE Create(u)
    BY <2>1 DEF Create, Goto
  <2>2. CASE OpenFile(u)
    BY <2>2 DEF OpenFile, Goto
  <2>3. CASE ReadStream(u)
    BY <2>3 DEF ReadStream, Goto
  <2>4. CASE RefuseStream(u)
    BY <2>4 DEF RefuseStream, Raise
  <2>5. CASE CheckDuplicate(u)
    <3>1. CASE Duplicates(u) = {}
      BY <2>5, <3>1 DEF CheckDuplicate, Goto
    <3>2. CASE Duplicates(u) # {}
      BY <2>5, <3>2 DEF CheckDuplicate, Raise
    <3> QED
      BY <3>1, <3>2
  <2>6. CASE Accept(u)
    <3>1. UNCHANGED file /\ request[u].pc = "accept"
      BY <2>6 DEF Accept
    <3>2. CASE /\ request' = [request EXCEPT ![u] = [pc |-> "finish", error |-> request[u].error]]
               /\ row' = [row EXCEPT ![u] = "queued"]
               /\ sha' = [sha EXCEPT ![u] = body[u]]
      BY <3>1, <3>2
    <3>3. CASE /\ request' = [request EXCEPT ![u] = [pc |-> "cleanFile", error |-> "database"]]
               /\ UNCHANGED <<row, sha>>
      BY <3>1, <3>3
    <3> QED
      BY <2>6, <3>2, <3>3, AcceptMoves
  <2>7. CASE Finish(u)
    <3>1. request[u].pc = "finish" /\ UNCHANGED <<row, file>>
      BY <2>7 DEF Finish
    <3>2. CASE row[u] = "none"
      BY <2>7, <3>1, <3>2 DEF Finish, Raise
    <3>3. CASE row[u] # "none"
      BY <2>7, <3>1, <3>3 DEF Finish, Goto
    <3> QED
      BY <3>2, <3>3
  <2>8. CASE DispatchMark(u)
    BY <2>8 DEF DispatchMark, Send, Goto
  <2>9. CASE DispatchStart(u)
    BY <2>9 DEF DispatchStart, Send, Goto
  <2>10. CASE CleanFile(u)
    BY <2>10 DEF CleanFile, Goto
  <2>11. CASE CleanRow(u)
    BY <2>11 DEF CleanRow, Goto
  <2> QED
    BY <1>2, <2>1, <2>2, <2>3, <2>4, <2>5, <2>6, <2>7, <2>8, <2>9, <2>10, <2>11 DEF Receive
<1>3. ASSUME NEW u \in Uploads, Delete(u) PROVE HeldInv'
  BY <1>3, DeleteSparesKept
<1>4. ASSUME NEW u \in Uploads, Ingest(u) PROVE HeldInv'
  BY <1>4 DEF Ingest
<1>5. ASSUME NEW u \in Uploads, RequestFault(u) PROVE HeldInv'
  <2> USE DEF TypeInv, TypeOK, tables
  <2>1. CASE MessageLost(u)
    BY <2>1 DEF MessageLost, Goto
  <2>2. CASE CleanFileFails(u)
    BY <2>2 DEF CleanFileFails, Goto
  <2>3. CASE DatabaseFault(u)
    BY <2>3 DEF DatabaseFault, Raise
  <2>4. CASE Crash(u)
    <3>1. UNCHANGED <<row, file>>
      BY <2>4 DEF Crash
    <3>2. Goto(u, "dead") \/ UNCHANGED request
      BY <2>4 DEF Crash
    <3>3. CASE Goto(u, "dead")
      <4>1. request' = [request EXCEPT ![u] = [pc |-> "dead", error |-> request[u].error]]
        BY <3>3 DEF Goto
      <4>2. ASSUME NEW v \in Uploads
            PROVE  /\ request'[v].error = request[v].error
                   /\ request'[v].pc = request[v].pc \/ request'[v].pc = "dead"
        BY <4>1
      <4> QED
        BY <3>1, <4>2 DEF Kept
    <3>4. CASE UNCHANGED request
      BY <3>1, <3>4
    <3> QED
      BY <3>2, <3>3, <3>4
  <2> QED
    BY <1>5, <2>1, <2>2, <2>3, <2>4 DEF RequestFault
<1> QED
  BY <1>1, <1>2, <1>3, <1>4, <1>5 DEF Next

\* The upload that a refusal names: one a client may delete, or one that is
\* accepted and stored.
Stored(v) ==
  \/ v \in Deletable
  \/ row[v] = "queued" /\ (file[v] = "whole" \/ request[v].error = "database")

\* What is stored stays so: only its own request could undo it, and that keeps
\* the row once it is accepted.
LEMMA StoredStays ==
  ASSUME TypeInv, ReceiveInv, HashInv, HeldInv, [Next]_vars, NEW v \in Uploads, Stored(v)
  PROVE  Stored(v)'
<1> SUFFICES ASSUME v \notin Deletable PROVE row'[v] = "queued"
  <2>1. HeldInv'
    BY HeldInvStep
  <2> QED
    BY <2>1 DEF HeldInv, Kept, Stored
<1>1. v \in Kept /\ row[v] = "queued"
  BY DEF Kept, Stored
<1> USE DEF TypeInv, TypeOK, At, tables
<1>2. CASE UNCHANGED vars
  BY <1>1, <1>2 DEF vars
<1>3. ASSUME NEW u \in Uploads, Receive(u) PROVE row'[v] = "queued"
  <2>1. CASE Create(u)
    BY <1>1, <2>1 DEF Create, ReceiveInv
  <2>2. CASE Accept(u)
    BY <1>1, <2>2, AcceptMoves
  <2>3. CASE CleanRow(u)
    BY <1>1, <2>3 DEF CleanRow, HeldInv, Cleaning
  <2>4. CASE \/ OpenFile(u) \/ ReadStream(u) \/ RefuseStream(u) \/ CheckDuplicate(u) \/ Finish(u)
             \/ DispatchMark(u) \/ DispatchStart(u) \/ CleanFile(u)
    BY <1>1, <2>4 DEF OpenFile, ReadStream, RefuseStream, CheckDuplicate, Finish,
                      DispatchMark, DispatchStart, Send, CleanFile
  <2> QED
    BY <1>3, <2>1, <2>2, <2>3, <2>4 DEF Receive
<1>4. ASSUME NEW u \in Uploads, Delete(u) PROVE row'[v] = "queued"
  BY <1>1, <1>4, DeleteSparesKept
<1>5. ASSUME NEW u \in Uploads, Ingest(u) \/ RequestFault(u) PROVE row'[v] = "queued"
  BY <1>1, <1>5 DEF Ingest, RequestFault, MessageLost, CleanFileFails, DatabaseFault, Crash
<1> QED
  BY <1>2, <1>3, <1>4, <1>5 DEF Next

\* The request that raises "duplicate" has just seen the row of one.
LEMMA RefusedForStored ==
  ASSUME TypeInv, HashInv, HeldInv, [Next]_vars, NEW u \in Uploads,
         request'[u].error = "duplicate", request[u].error # "duplicate"
  PROVE  \E v \in Uploads \ {u} : body[v] = body[u] /\ Stored(v)
<1> USE DEF TypeInv, TypeOK, At, tables
<1>1. ~UNCHANGED vars
  BY DEF vars
<1>2. ASSUME NEW w \in Uploads, Receive(w), ~CheckDuplicate(w) PROVE FALSE
  <2>1. CASE Create(w)
    BY <2>1 DEF Create, Goto
  <2>2. CASE OpenFile(w)
    BY <2>2 DEF OpenFile, Goto
  <2>3. CASE ReadStream(w)
    BY <2>3 DEF ReadStream, Goto
  <2>4. CASE RefuseStream(w)
    BY <2>4 DEF RefuseStream, Raise
  <2>5. CASE Accept(w)
    <3>1. \E pc \in RequestPcs, error \in {request[w].error, "database"} :
            request' = [request EXCEPT ![w] = [pc |-> pc, error |-> error]]
      BY <2>5, AcceptMoves
    <3> QED
      BY <3>1
  <2>6. CASE Finish(w)
    <3>1. CASE row[w] = "none"
      BY <2>6, <3>1 DEF Finish, Raise
    <3>2. CASE row[w] # "none"
      BY <2>6, <3>2 DEF Finish, Goto
    <3> QED
      BY <3>1, <3>2
  <2>7. CASE DispatchMark(w) \/ DispatchStart(w)
    BY <2>7 DEF DispatchMark, DispatchStart, Send, Goto
  <2>8. CASE CleanFile(w)
    BY <2>8 DEF CleanFile, Goto
  <2>9. CASE CleanRow(w)
    BY <2>9 DEF CleanRow, Goto
  <2> QED
    BY <1>2, <2>1, <2>2, <2>3, <2>4, <2>5, <2>6, <2>7, <2>8, <2>9 DEF Receive
<1>3. ASSUME NEW w \in Uploads, Delete(w) \/ Ingest(w) PROVE FALSE
  BY <1>3 DEF Delete, DeleteFile, DeleteList, DeleteRow, Ingest
<1>4. ASSUME NEW w \in Uploads, RequestFault(w) PROVE FALSE
  <2>1. CASE MessageLost(w)
    BY <2>1 DEF MessageLost, Goto
  <2>2. CASE CleanFileFails(w)
    BY <2>2 DEF CleanFileFails, Goto
  <2>3. CASE DatabaseFault(w)
    BY <2>3 DEF DatabaseFault, Raise
  <2>4. CASE Crash(w)
    BY <2>4 DEF Crash, Goto
  <2> QED
    BY <1>4, <2>1, <2>2, <2>3, <2>4 DEF RequestFault
<1>5. PICK w \in Uploads : CheckDuplicate(w)
  BY <1>1, <1>2, <1>3, <1>4 DEF Next
<1>6. w = u /\ Duplicates(u) # {}
  <2>1. CASE Duplicates(w) = {}
    BY <1>5, <2>1 DEF CheckDuplicate, Goto
  <2>2. CASE Duplicates(w) # {}
    BY <1>5, <2>2 DEF CheckDuplicate, Raise
  <2> QED
    BY <2>1, <2>2
<1>7. PICK v \in Uploads \ {u} : sha[v] = body[u]
  BY <1>6 DEF Duplicates
<1>8. sha[v] # NoContent
  BY <1>7, ContentsAssumption
<1>9. row[v] = "queued" /\ body[v] = body[u]
  BY <1>7, <1>8 DEF HashOfQueued, HashInv
<1> QED
  BY <1>9 DEF HeldInv, Kept, Stored

LEMMA DuplicateIsStoredStep ==
  ASSUME TypeInv, ReceiveInv, HashInv, HeldInv, DuplicateIsStored, [Next]_vars
  PROVE  DuplicateIsStored'
<1> SUFFICES ASSUME NEW u \in Uploads, request'[u].error = "duplicate"
             PROVE  \E v \in Uploads \ {u} : body'[v] = body'[u] /\ Stored(v)'
  BY DEF DuplicateIsStored, Stored
<1>1. UNCHANGED body
  <2>1. CASE UNCHANGED vars
    BY <2>1 DEF vars
  <2>2. ASSUME NEW w \in Uploads, Receive(w) PROVE UNCHANGED body
    BY <2>2 DEF Receive, Create, OpenFile, ReadStream, RefuseStream, CheckDuplicate, Accept, Finish,
                DispatchMark, DispatchStart, Send, CleanFile, CleanRow
  <2>3. ASSUME NEW w \in Uploads, Delete(w) \/ Ingest(w) \/ RequestFault(w) PROVE UNCHANGED body
    BY <2>3 DEF Delete, DeleteFile, DeleteList, DeleteRow, Ingest, RequestFault,
                MessageLost, CleanFileFails, DatabaseFault, Crash
  <2> QED
    BY <2>1, <2>2, <2>3 DEF Next
<1>2. PICK v \in Uploads \ {u} : body[v] = body[u] /\ Stored(v)
  BY RefusedForStored DEF DuplicateIsStored, Stored
<1> QED
  BY <1>1, <1>2, StoredStays

\* A stream is refused as a duplicate only because of another upload with the
\* same content that is accepted and stored, whichever requests interleave with
\* it and fail (UploadService.receive, get_by_sha256), unless a client may have
\* deleted that one or its own request failed in a broken session.
THEOREM DuplicatesAreStored == Spec => []DuplicateIsStored
<1>1. Init => TypeInv /\ ReceiveInv /\ HashInv /\ HeldInv /\ DuplicateIsStored
  BY TypeInit, ReceiveInvInit, StoredInit
<1>2. TypeInv /\ ReceiveInv /\ HashInv /\ HeldInv /\ DuplicateIsStored /\ [Next]_vars
        => (TypeInv /\ ReceiveInv /\ HashInv /\ HeldInv /\ DuplicateIsStored)'
  BY TypeStep, ReceiveInvStep, HashInvStep, HeldInvStep, DuplicateIsStoredStep
<1> QED
  BY <1>1, <1>2, PTL DEF Spec

=============================================================================
