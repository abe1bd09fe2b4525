----------------------------- MODULE DocumentStore -----------------------------
(***************************************************************************)
(* Documents live in two stores that share no transaction: a PostgreSQL    *)
(* table of metadata and a directory of blobs.  Upload requests, delete    *)
(* requests, read requests and the cleanup workers change or look at both, *)
(* one store at a time, and any of their calls may fail.  The table        *)
(* blob_cleanup_tasks is the outbox through which a committed delete hands *)
(* its blob to the workers.                                                *)
(*                                                                         *)
(* A document, its upload request, its id and its storage key are one and  *)
(* the same here: each upload draws a fresh random id and key.  The        *)
(* response cache is the subject of module ResponseCache.                  *)
(***************************************************************************)
EXTENDS Naturals, FiniteSets

CONSTANTS
    Document,           \* the uploads that may happen
    File,               \* those of them that carry a file
    Deleter,            \* delete requests
    Reader,             \* read requests
    Worker,             \* cleanup workers (one per running instance)
    BatchSize,          \* tasks a worker claims at once
    AmbiguousCommit,    \* can COMMIT take effect and still be reported as failed?
    MaxCrashes,         \* bound: how many times the process dies
    NoDocument

ASSUME ConstantsAssumption ==
    /\ File \subseteq Document
    /\ BatchSize \in Nat \ {0}
    /\ AmbiguousCommit \in BOOLEAN
    /\ MaxCrashes \in Nat
    /\ NoDocument \notin Document

VARIABLES
    row,                \* row[d]: the row of d in the table documents
    tasks,              \* storage keys with a row in blob_cleanup_tasks
    due,                \* those of them whose next_attempt_at has come
    blobs,              \* storage keys present in the blob directory
    upload,             \* upload[d]: progress of the upload request of d
    deleteStep,         \* deleteStep[c], deleteTarget[c]: progress of a delete
    deleteTarget,
    readStep,           \* readStep[r], readTarget[r]: progress of a read
    readTarget,
    workStep,           \* workStep[w]: what worker w does next
    batch,              \* batch[w]: claimed tasks w has not dealt with yet
    current,            \* current[w]: the one w is dealing with
    crashes

store == << row, tasks, due, blobs >>
deletes == << deleteStep, deleteTarget >>
reads == << readStep, readTarget >>
work == << workStep, batch, current >>
vars == << store, upload, deletes, reads, work, crashes >>

Init ==
    /\ row = [d \in Document |-> "absent"]
    /\ tasks = {} /\ due = {} /\ blobs = {}
    /\ upload = [d \in Document |-> "idle"]
    /\ deleteStep = [c \in Deleter |-> "idle"]
    /\ deleteTarget = [c \in Deleter |-> NoDocument]
    /\ readStep = [r \in Reader |-> "idle"]
    /\ readTarget = [r \in Reader |-> NoDocument]
    /\ workStep = [w \in Worker |-> "idle"]
    /\ batch = [w \in Worker |-> {}]
    /\ current = [w \in Worker |-> NoDocument]
    /\ crashes = 0

--------------------------------------------------------------------------------
(* Upload: the blob first, then the metadata, then the answer. *)

UploadTo(d, from, to) == /\ upload[d] = from
                         /\ upload' = [upload EXCEPT ![d] = to]
                         /\ UNCHANGED << deletes, reads, work, crashes >>

(* The request is malformed or not authorised, validation, the grant       *)
(* lookup or Put fails: Put publishes all or nothing.                      *)
RefuseUpload(d) == UploadTo(d, "idle", "failed") /\ UNCHANGED store

PutBlob(d) == /\ d \in File
              /\ UploadTo(d, "idle", "stored")
              /\ blobs' = blobs \cup {d}
              /\ UNCHANGED << row, tasks, due >>

(* One byte more than allowed was stored: the blob is taken back ... *)
RejectOversized(d) == UploadTo(d, "stored", "oversized") /\ UNCHANGED store

BeforeCreate(d) == IF d \in File THEN "stored" ELSE "idle"

CreateDocument(d) == /\ UploadTo(d, BeforeCreate(d), "created")
                     /\ row' = [row EXCEPT ![d] = "present"]
                     /\ UNCHANGED << tasks, due, blobs >>

(* Create returns an error: rolled back or, when the answer to COMMIT is   *)
(* lost (a cancelled request, a broken connection), possibly committed.    *)
CreateFails(d) ==
    /\ UploadTo(d, BeforeCreate(d), IF d \in File THEN "compensating" ELSE "failed")
    /\ \/ row' = row
       \/ AmbiguousCommit /\ row' = [row EXCEPT ![d] = "present"]
    /\ UNCHANGED << tasks, due, blobs >>

(* Mutation: a request cancelled after Create succeeded is compensated too. *)
TakeBackOnCancel(d) ==
    /\ \/ UploadTo(d, "oversized", "failed")
       \/ UploadTo(d, "compensating", "failed")
       \/ UploadTo(d, "created", "unanswered")
    /\ blobs' \in {blobs, blobs \ {d}}
    /\ UNCHANGED << row, tasks, due >>

(* ... and so is the blob of a document that could not be created.  The    *)
(* removal is best effort: when it fails nobody remembers the blob.        *)
TakeBack(d) ==
    /\ \/ UploadTo(d, "oversized", "failed")
       \/ UploadTo(d, "compensating", "failed")
    /\ blobs' \in {blobs, blobs \ {d}}
    /\ UNCHANGED << row, tasks, due >>

(* The client gets its 200, or the deadline or the connection takes it away. *)
AnswerUpload(d) == /\ \/ UploadTo(d, "created", "acknowledged")
                      \/ UploadTo(d, "created", "unanswered")
                   /\ UNCHANGED store

--------------------------------------------------------------------------------
(* Delete: the row and the outbox task in one transaction, then the blob,  *)
(* then the task.  After the commit nothing but the process dying stops it.*)

DeleteTo(c, from, to) == /\ deleteStep[c] = from
                         /\ deleteStep' = [deleteStep EXCEPT ![c] = to]
                         /\ UNCHANGED << upload, reads, work, crashes >>

LogicalDelete(d) == /\ row[d] = "present"
                    /\ row' = [row EXCEPT ![d] = "deleted"]
                    /\ tasks' = IF d \in File THEN tasks \cup {d} ELSE tasks
                    /\ due' = IF d \in File THEN due \cup {d} ELSE due
                    /\ UNCHANGED blobs

DeleteDocument(c, d) ==
    /\ DeleteTo(c, "idle", IF d \in File THEN "committed" ELSE "done")
    /\ deleteTarget' = [deleteTarget EXCEPT ![c] = d]
    /\ LogicalDelete(d)

(* Mutation: the task is enqueued outside the transaction that deletes. *)
DeleteFailsHalfway(c, d) ==
    /\ DeleteTo(c, "idle", "failed")
    /\ deleteTarget' = [deleteTarget EXCEPT ![c] = d]
    /\ row[d] = "present" /\ d \in File
    /\ tasks' = tasks \cup {d} /\ due' = due \cup {d}
    /\ UNCHANGED << row, blobs >>

(* Not found, not the owner, a database error, or an unreported commit. *)
DeleteFails(c, d) ==
    /\ DeleteTo(c, "idle", "failed")
    /\ deleteTarget' = [deleteTarget EXCEPT ![c] = d]
    /\ \/ UNCHANGED store
       \/ AmbiguousCommit /\ LogicalDelete(d)

(* Mutation: an error of the blob directory is ignored. *)
DeleteBlobIgnoringErrors(c) ==
    /\ DeleteTo(c, "committed", "unlinked")
    /\ blobs' \in {blobs, blobs \ {deleteTarget[c]}}
    /\ UNCHANGED << row, tasks, due, deleteTarget >>

(* A blob that is already gone counts as removed. *)
DeleteBlob(c) ==
    /\ \/ /\ DeleteTo(c, "committed", "unlinked")
          /\ blobs' = blobs \ {deleteTarget[c]}
       \/ DeleteTo(c, "committed", "failed") /\ UNCHANGED blobs
    /\ UNCHANGED << row, tasks, due, deleteTarget >>

DropTask(k) == tasks' = tasks \ {k} /\ due' = due \ {k}

(* An error may still hide a task that was removed. *)
ConfirmDelete(c) ==
    /\ \/ DeleteTo(c, "unlinked", "done") /\ DropTask(deleteTarget[c])
       \/ /\ DeleteTo(c, "unlinked", "failed")
          /\ DropTask(deleteTarget[c]) \/ UNCHANGED << tasks, due >>
    /\ UNCHANGED << row, blobs, deleteTarget >>

--------------------------------------------------------------------------------
(* Read: metadata once to authorise, metadata again, then the blob. *)

ReadTo(r, from, to) == /\ readStep[r] = from
                       /\ readStep' = [readStep EXCEPT ![r] = to]
                       /\ UNCHANGED << store, upload, deletes, work, crashes >>

ReadMetadata(r, d) ==
    /\ ReadTo(r, "idle", IF row[d] = "present" THEN "authorised" ELSE "notFound")
    /\ readTarget' = [readTarget EXCEPT ![r] = d]

GetDocument(r) ==
    LET d == readTarget[r] IN
    /\ ReadTo(r, "authorised", CASE row[d] # "present" -> "notFound"
                                 [] row[d] = "present" /\ d \in File -> "opening"
                                 [] OTHER -> "served")
    /\ UNCHANGED readTarget

(* An opened file outlives its directory entry: what is opened is served.  *)
(* A missing one is an internal error, not a missing document.             *)
OpenBlob(r) ==
    /\ ReadTo(r, "opening", IF readTarget[r] \in blobs THEN "served" ELSE "broken")
    /\ UNCHANGED readTarget

--------------------------------------------------------------------------------
(* Cleanup worker. *)

WorkTo(w, from, to) == /\ workStep[w] = from
                       /\ workStep' = [workStep EXCEPT ![w] = to]
                       /\ UNCHANGED << row, upload, deletes, reads, crashes >>

(* Mutation: a claimed task is leased for ever. *)
TaskNeverBecomesDue(k) == FALSE

(* Time passes: a lease or a backoff ends. *)
TaskBecomesDue(k) == /\ k \in tasks \ due
                     /\ due' = due \cup {k}
                     /\ UNCHANGED << row, tasks, blobs, upload, deletes, reads,
                                     work, crashes >>

(* A claim leases the tasks by moving their next attempt into the future;  *)
(* a claim whose answer is lost leases them to nobody.                     *)
Claim(w, S) ==
    /\ S \subseteq due /\ S # {} /\ Cardinality(S) <= BatchSize
    /\ due' = due \ S
    /\ \/ WorkTo(w, "idle", "batch") /\ batch' = [batch EXCEPT ![w] = S]
       \/ WorkTo(w, "idle", "idle") /\ UNCHANGED batch
    /\ UNCHANGED << tasks, blobs, current >>

(* The claimed tasks come in no particular order. *)
RemoveBlob(w, k) ==
    /\ k \in batch[w]
    /\ current' = [current EXCEPT ![w] = k]
    /\ \/ WorkTo(w, "batch", "confirm") /\ blobs' = blobs \ {k}
       \/ WorkTo(w, "batch", "retry") /\ UNCHANGED blobs
    /\ UNCHANGED << tasks, due, batch >>

NextTask(w, from) ==
    LET rest == batch[w] \ {current[w]} IN
    /\ WorkTo(w, from, IF rest = {} THEN "idle" ELSE "batch")
    /\ batch' = [batch EXCEPT ![w] = rest]
    /\ current' = [current EXCEPT ![w] = NoDocument]
    /\ UNCHANGED blobs

CompleteTask(w) == /\ NextTask(w, "confirm")
                   /\ DropTask(current[w]) \/ UNCHANGED << tasks, due >>

(* Mutation: a failed removal drops the task instead of putting it off. *)
RetryTaskGivesUp(w) == NextTask(w, "retry") /\ DropTask(current[w])

(* The backoff replaces the lease, if the task still exists and the update *)
(* is carried out.                                                         *)
RetryTask(w) == /\ NextTask(w, "retry")
                /\ due' \in {due, due \ {current[w]}}
                /\ UNCHANGED tasks

--------------------------------------------------------------------------------
(* The process dies, or is stopped, and starts again: requests and claimed *)
(* batches are forgotten, both stores stay as they are.                    *)

AfterCrash(step) ==
    IF step \in {"stored", "oversized", "compensating", "committed", "unlinked",
                 "authorised", "opening"}
    THEN "interrupted"
    ELSE IF step = "created" THEN "unanswered" ELSE step

Crash ==
    /\ crashes < MaxCrashes
    /\ crashes' = crashes + 1
    /\ upload' = [d \in Document |-> AfterCrash(upload[d])]
    /\ deleteStep' = [c \in Deleter |-> AfterCrash(deleteStep[c])]
    /\ readStep' = [r \in Reader |-> AfterCrash(readStep[r])]
    /\ workStep' = [w \in Worker |-> "idle"]
    /\ batch' = [w \in Worker |-> {}]
    /\ current' = [w \in Worker |-> NoDocument]
    /\ UNCHANGED << store, deleteTarget, readTarget >>

UploadNext(d) == \/ RefuseUpload(d) \/ PutBlob(d) \/ RejectOversized(d)
                 \/ CreateDocument(d) \/ CreateFails(d) \/ TakeBack(d)
                 \/ AnswerUpload(d)

DeleteNext(c) == \/ \E d \in Document : DeleteDocument(c, d) \/ DeleteFails(c, d)
                 \/ DeleteBlob(c) \/ ConfirmDelete(c)

ReadNext(r) == \/ \E d \in Document : ReadMetadata(r, d)
               \/ GetDocument(r) \/ OpenBlob(r)

WorkNext(w) == \/ \E S \in SUBSET due : Claim(w, S)
               \/ \E k \in batch[w] : RemoveBlob(w, k)
               \/ CompleteTask(w) \/ RetryTask(w)

Next == \/ \E d \in Document : UploadNext(d)
        \/ \E c \in Deleter : DeleteNext(c)
        \/ \E r \in Reader : ReadNext(r)
        \/ \E w \in Worker : WorkNext(w)
        \/ \E k \in File : TaskBecomesDue(k)
        \/ Crash

Spec == Init /\ [][Next]_vars

--------------------------------------------------------------------------------
(* Fairness.  A worker polls for ever and time passes.  The claim takes    *)
(* the longest-due tasks first, so none is overlooked for ever.  The       *)
(* stores are not broken for ever: an operation repeated without end       *)
(* succeeds in the end.  Requests owe nothing: any of them may stall.      *)

ClaimFor(w, k) == \E S \in SUBSET due : k \in S /\ Claim(w, S) /\ batch' # batch
RemoveSucceeds(w, k) == RemoveBlob(w, k) /\ workStep'[w] = "confirm"
CompleteSucceeds(w, k) == current[w] = k /\ CompleteTask(w) /\ k \notin tasks'

CleanupFairness ==
    /\ \A k \in File : WF_vars(TaskBecomesDue(k))
    /\ \A k \in File : SF_vars(\E w \in Worker : ClaimFor(w, k))
    /\ \A w \in Worker : WF_vars(RetryTask(w))
    /\ \A w \in Worker, k \in File : /\ SF_vars(RemoveSucceeds(w, k))
                                     /\ SF_vars(CompleteSucceeds(w, k))

FairSpec == Spec /\ CleanupFairness

--------------------------------------------------------------------------------
(* Properties. *)

UploadStep == {"idle", "stored", "oversized", "created", "compensating",
               "acknowledged", "unanswered", "failed", "interrupted"}
DeleteStep == {"idle", "committed", "unlinked", "done", "failed", "interrupted"}
ReadStep == {"idle", "authorised", "opening", "served", "notFound", "broken",
             "interrupted"}
WorkStep == {"idle", "batch", "confirm", "retry"}

(* Type invariant: the rows, the outbox, the blobs and every actor keep to *)
(* their domains; only tasks that exist are due, only files have tasks,    *)
(* blobs and claims.                                                       *)
TypeOK ==
    /\ row \in [Document -> {"absent", "present", "deleted"}]
    /\ tasks \subseteq File /\ due \subseteq tasks /\ blobs \subseteq File
    /\ upload \in [Document -> UploadStep]
    /\ deleteStep \in [Deleter -> DeleteStep]
    /\ deleteTarget \in [Deleter -> Document \cup {NoDocument}]
    /\ readStep \in [Reader -> ReadStep]
    /\ readTarget \in [Reader -> Document \cup {NoDocument}]
    /\ workStep \in [Worker -> WorkStep]
    /\ batch \in [Worker -> SUBSET File]
    /\ current \in [Worker -> File \cup {NoDocument}]
    /\ crashes \in Nat

(* "Never accessible metadata that points at a missing blob": a file whose *)
(* row is in the table has its blob.  It holds when COMMIT never lies;     *)
(* see AcknowledgedUploadIsDurable for what holds without that.            *)
VisibleFileHasBlob == \A d \in File : row[d] = "present" => d \in blobs

(* A 200 for an upload is a promise: whatever failed, crashed or raced     *)
(* later, the document is there with its content until a delete commits.   *)
AcknowledgedUploadIsDurable ==
    \A d \in Document : upload[d] \in {"acknowledged", "unanswered"} =>
        \/ row[d] = "present" /\ (d \in File => d \in blobs)
        \/ row[d] = "deleted"

(* The outbox never loses a blob: once a delete has committed, its blob is *)
(* either removed or still has its task, through every failure and crash.  *)
DeletedBlobHasTask ==
    \A d \in File : row[d] = "deleted" /\ d \in blobs => d \in tasks

(* No worker and no delete request ever holds the key of a document that   *)
(* can still be read, so a late or repeated cleanup cannot destroy live    *)
(* content.                                                                *)
CleanupOnlyTouchesDeleted ==
    /\ \A k \in tasks : row[k] = "deleted"
    /\ \A w \in Worker : \A k \in batch[w] : row[k] = "deleted"
    /\ \A c \in Deleter : deleteStep[c] \in {"committed", "unlinked"} =>
          row[deleteTarget[c]] = "deleted"

(* A delete answered with success is final: no row, no blob and no task of *)
(* that document comes back, whatever the workers still hold.              *)
AcknowledgedDeleteIsFinal ==
    \A c \in Deleter : deleteStep[c] = "done" =>
        LET d == deleteTarget[c] IN
        row[d] = "deleted" /\ d \notin blobs /\ d \notin tasks

(* A read that found the metadata but not the blob (status 500) can only   *)
(* have raced a delete, or have met a document whose COMMIT was reported   *)
(* as failed.                                                              *)
BrokenReadIsExplained ==
    \A r \in Reader : readStep[r] = "broken" =>
        \/ row[readTarget[r]] = "deleted"
        \/ AmbiguousCommit /\ upload[readTarget[r]] = "failed"

BlobOutlivesRow(d) ==
    d \in blobs /\ d \notin blobs' =>
        row[d] # "present" \/ (AmbiguousCommit /\ upload[d] = "compensating")

DeletionIsForever(d) == row[d] = "deleted" => row'[d] = "deleted"

(* Action property: physical removal follows logical deletion.  A blob     *)
(* disappears only when its document is not in the table, and the row of a *)
(* deleted document never returns.                                         *)
RemovalFollowsDeletion ==
    [][ \A d \in Document : BlobOutlivesRow(d) /\ DeletionIsForever(d) ]_vars

(* The refinement: how the two stores appear as one document's life. *)
PhaseOf(d) ==
    IF row[d] = "present" THEN "live"
    ELSE IF d \in tasks THEN "doomed"
    ELSE IF d \in blobs THEN "stored"
    ELSE IF row[d] = "absent" /\ upload[d] = "idle" THEN "none" ELSE "gone"

phaseView == [d \in Document |-> PhaseOf(d)]

Lifecycle == INSTANCE DocumentLifecycle WITH phase <- phaseView

(* The stores, the requests and the workers together implement the life of *)
(* a document.  Its fairness is part of the promise: whatever fails in     *)
(* between, a blob whose delete committed is removed in the end, and its   *)
(* task with it.                                                           *)
ImplementsLifecycle == Lifecycle!Spec
================================================================================
