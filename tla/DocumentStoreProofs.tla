-------------------------- MODULE DocumentStoreProofs --------------------------
(***************************************************************************)
(* The safety properties of DocumentStore, for any number of documents,    *)
(* requests, workers and crashes.                                          *)
(***************************************************************************)
EXTENDS DocumentStore, TLAPS

--------------------------------------------------------------------------------
(* The inductive invariant, one part per actor. *)

(* What an upload knows of its row and of its blob.  The last conjunct is  *)
(* the one an unreported COMMIT breaks.                                    *)
UploadInv ==
    \A d \in Document :
        /\ upload[d] \in {"idle", "stored", "oversized"} => row[d] = "absent"
        /\ upload[d] = "idle" => d \notin blobs
        /\ upload[d] = "stored" => d \in blobs
        /\ upload[d] \in {"created", "acknowledged", "unanswered"} => row[d] # "absent"
        /\ upload[d] \in {"compensating", "failed", "interrupted"} =>
              AmbiguousCommit \/ row[d] = "absent"

(* A visible file has its blob, unless its upload took the blob back after *)
(* a COMMIT it was told had failed.                                        *)
FileInv ==
    \A d \in File : row[d] = "present" =>
        d \in blobs \/ (AmbiguousCommit /\ upload[d] = "failed")

(* A worker that confirms or puts off a task still holds it, and confirms  *)
(* only what is gone.                                                      *)
WorkerInv ==
    \A w \in Worker :
        /\ workStep[w] \in {"confirm", "retry"} => current[w] \in batch[w]
        /\ workStep[w] = "confirm" => current[w] \notin blobs

DeleterInv ==
    \A c \in Deleter :
        /\ deleteStep[c] \in {"committed", "unlinked", "done"} =>
              deleteTarget[c] \in Document
        /\ deleteStep[c] = "unlinked" => deleteTarget[c] \notin blobs

ReaderInv ==
    \A r \in Reader :
        /\ readStep[r] \in {"authorised", "opening", "broken"} =>
              readTarget[r] \in Document /\ row[readTarget[r]] # "absent"
        /\ readStep[r] = "opening" => readTarget[r] \in File

Inv == /\ TypeOK
       /\ UploadInv /\ FileInv /\ WorkerInv /\ DeleterInv /\ ReaderInv
       /\ DeletedBlobHasTask /\ CleanupOnlyTouchesDeleted
       /\ AcknowledgedDeleteIsFinal /\ BrokenReadIsExplained

--------------------------------------------------------------------------------
(* The invariant holds at first and every step keeps it. *)

(* The invariant holds of two empty stores and nobody at work. *)
LEMMA InitInv == Init => Inv
  BY ConstantsAssumption
     DEF Init, Inv, TypeOK, UploadStep, DeleteStep, ReadStep, WorkStep, UploadInv,
         FileInv, WorkerInv, DeleterInv, ReaderInv, DeletedBlobHasTask,
         CleanupOnlyTouchesDeleted, AcknowledgedDeleteIsFinal, BrokenReadIsExplained

(* Every step of an upload, a delete, a read or a worker, time and a crash *)
(* keep the invariant.                                                     *)
LEMMA NextInv == Inv /\ [Next]_vars => Inv'
  <1> SUFFICES ASSUME Inv, [Next]_vars PROVE Inv'
    OBVIOUS
  <1> USE ConstantsAssumption DEF Inv, store, deletes, reads, work
  <1>1. ASSUME NEW d \in Document, RefuseUpload(d) PROVE Inv'
    <2>1. TypeOK'
      BY <1>1 DEF RefuseUpload, UploadTo, TypeOK, UploadStep, DeleteStep,
         ReadStep, WorkStep
    <2> QED
      BY <1>1, <2>1 DEF RefuseUpload, UploadTo, TypeOK, UploadInv,
         FileInv, WorkerInv, DeleterInv, ReaderInv, DeletedBlobHasTask,
         CleanupOnlyTouchesDeleted, AcknowledgedDeleteIsFinal,
         BrokenReadIsExplained
  <1>2. ASSUME NEW d \in Document, PutBlob(d) PROVE Inv'
    <2>1. TypeOK'
      BY <1>2 DEF PutBlob, UploadTo, TypeOK, UploadStep, DeleteStep,
         ReadStep, WorkStep
    <2>2. WorkerInv'
      BY <1>2 DEF PutBlob, UploadTo, TypeOK, WorkerInv, UploadInv,
         CleanupOnlyTouchesDeleted
    <2>3. DeleterInv'
      BY <1>2 DEF PutBlob, UploadTo, TypeOK, DeleterInv, UploadInv,
         CleanupOnlyTouchesDeleted
    <2>4. DeletedBlobHasTask'
      BY <1>2 DEF PutBlob, UploadTo, TypeOK, DeletedBlobHasTask, UploadInv
    <2>5. AcknowledgedDeleteIsFinal'
      BY <1>2 DEF PutBlob, UploadTo, TypeOK, AcknowledgedDeleteIsFinal,
         UploadInv, DeleterInv
    <2> QED
      BY <1>2, <2>1, <2>2, <2>3, <2>4, <2>5 DEF PutBlob, UploadTo, TypeOK,
         UploadInv, FileInv, ReaderInv, CleanupOnlyTouchesDeleted,
         BrokenReadIsExplained
  <1>3. ASSUME NEW d \in Document, RejectOversized(d) PROVE Inv'
    <2>1. TypeOK'
      BY <1>3 DEF RejectOversized, UploadTo, TypeOK, UploadStep,
         DeleteStep, ReadStep, WorkStep
    <2> QED
      BY <1>3, <2>1 DEF RejectOversized, UploadTo, TypeOK, UploadInv,
         FileInv, WorkerInv, DeleterInv, ReaderInv, DeletedBlobHasTask,
         CleanupOnlyTouchesDeleted, AcknowledgedDeleteIsFinal,
         BrokenReadIsExplained
  <1>4. ASSUME NEW d \in Document, CreateDocument(d) PROVE Inv'
    <2>1. TypeOK'
      BY <1>4 DEF CreateDocument, UploadTo, BeforeCreate, TypeOK,
         UploadStep, DeleteStep, ReadStep, WorkStep
    <2>2. FileInv'
      BY <1>4 DEF CreateDocument, UploadTo, BeforeCreate, TypeOK, FileInv,
         UploadInv
    <2>3. CleanupOnlyTouchesDeleted'
      BY <1>4 DEF CreateDocument, UploadTo, BeforeCreate, TypeOK,
         CleanupOnlyTouchesDeleted, UploadInv, DeleterInv
    <2>4. AcknowledgedDeleteIsFinal'
      BY <1>4 DEF CreateDocument, UploadTo, BeforeCreate, TypeOK,
         AcknowledgedDeleteIsFinal, UploadInv, DeleterInv
    <2>5. BrokenReadIsExplained'
      BY <1>4 DEF CreateDocument, UploadTo, BeforeCreate, TypeOK,
         BrokenReadIsExplained, ReaderInv, UploadInv
    <2> QED
      BY <1>4, <2>1, <2>2, <2>3, <2>4, <2>5 DEF CreateDocument, UploadTo,
         BeforeCreate, TypeOK, UploadInv, WorkerInv, DeleterInv,
         ReaderInv, DeletedBlobHasTask
  <1>5. ASSUME NEW d \in Document, CreateFails(d) PROVE Inv'
    <2>1. TypeOK'
      BY <1>5 DEF CreateFails, UploadTo, BeforeCreate, TypeOK, UploadStep,
         DeleteStep, ReadStep, WorkStep
    <2>2. FileInv'
      BY <1>5 DEF CreateFails, UploadTo, BeforeCreate, TypeOK, FileInv,
         UploadInv
    <2>3. CleanupOnlyTouchesDeleted'
      BY <1>5 DEF CreateFails, UploadTo, BeforeCreate, TypeOK,
         CleanupOnlyTouchesDeleted, UploadInv, DeleterInv
    <2>4. AcknowledgedDeleteIsFinal'
      BY <1>5 DEF CreateFails, UploadTo, BeforeCreate, TypeOK,
         AcknowledgedDeleteIsFinal, UploadInv, DeleterInv
    <2>5. BrokenReadIsExplained'
      BY <1>5 DEF CreateFails, UploadTo, BeforeCreate, TypeOK,
         BrokenReadIsExplained, ReaderInv, UploadInv
    <2> QED
      BY <1>5, <2>1, <2>2, <2>3, <2>4, <2>5 DEF CreateFails, UploadTo,
         BeforeCreate, TypeOK, UploadInv, WorkerInv, DeleterInv,
         ReaderInv, DeletedBlobHasTask
  <1>6. ASSUME NEW d \in Document, TakeBack(d) PROVE Inv'
    <2>1. TypeOK'
      BY <1>6 DEF TakeBack, UploadTo, TypeOK, UploadStep, DeleteStep,
         ReadStep, WorkStep
    <2>2. FileInv'
      BY <1>6 DEF TakeBack, UploadTo, TypeOK, FileInv, UploadInv
    <2>3. BrokenReadIsExplained'
      BY <1>6 DEF TakeBack, UploadTo, TypeOK, BrokenReadIsExplained,
         ReaderInv
    <2> QED
      BY <1>6, <2>1, <2>2, <2>3 DEF TakeBack, UploadTo, TypeOK, UploadInv,
         WorkerInv, DeleterInv, ReaderInv, DeletedBlobHasTask,
         CleanupOnlyTouchesDeleted, AcknowledgedDeleteIsFinal
  <1>7. ASSUME NEW d \in Document, AnswerUpload(d) PROVE Inv'
    <2>1. TypeOK'
      BY <1>7 DEF AnswerUpload, UploadTo, TypeOK, UploadStep, DeleteStep,
         ReadStep, WorkStep
    <2>2. BrokenReadIsExplained'
      BY <1>7 DEF AnswerUpload, UploadTo, TypeOK, BrokenReadIsExplained,
         ReaderInv
    <2> QED
      BY <1>7, <2>1, <2>2 DEF AnswerUpload, UploadTo, TypeOK, UploadInv,
         FileInv, WorkerInv, DeleterInv, ReaderInv, DeletedBlobHasTask,
         CleanupOnlyTouchesDeleted, AcknowledgedDeleteIsFinal
  <1>8. ASSUME NEW c \in Deleter, NEW d \in Document, DeleteDocument(c, d) PROVE Inv'
    <2>1. TypeOK'
      BY <1>8 DEF DeleteDocument, DeleteTo, LogicalDelete, TypeOK,
         UploadStep, DeleteStep, ReadStep, WorkStep
    <2> QED
      BY <1>8, <2>1 DEF DeleteDocument, DeleteTo, LogicalDelete, TypeOK,
         UploadInv, FileInv, WorkerInv, DeleterInv, ReaderInv,
         DeletedBlobHasTask, CleanupOnlyTouchesDeleted,
         AcknowledgedDeleteIsFinal, BrokenReadIsExplained
  <1>9. ASSUME NEW c \in Deleter, NEW d \in Document, DeleteFails(c, d) PROVE Inv'
    <2>1. TypeOK'
      BY <1>9 DEF DeleteFails, DeleteTo, LogicalDelete, TypeOK,
         UploadStep, DeleteStep, ReadStep, WorkStep
    <2>2. CleanupOnlyTouchesDeleted'
      BY <1>9 DEF DeleteFails, DeleteTo, LogicalDelete, TypeOK,
         CleanupOnlyTouchesDeleted, DeleterInv
    <2>3. AcknowledgedDeleteIsFinal'
      BY <1>9 DEF DeleteFails, DeleteTo, LogicalDelete, TypeOK,
         AcknowledgedDeleteIsFinal, DeleterInv
    <2>4. BrokenReadIsExplained'
      BY <1>9 DEF DeleteFails, DeleteTo, LogicalDelete, TypeOK,
         BrokenReadIsExplained, ReaderInv
    <2> QED
      BY <1>9, <2>1, <2>2, <2>3, <2>4 DEF DeleteFails, DeleteTo,
         LogicalDelete, TypeOK, UploadInv, FileInv, WorkerInv, DeleterInv,
         ReaderInv, DeletedBlobHasTask
  <1>10. ASSUME NEW c \in Deleter, DeleteBlob(c) PROVE Inv'
    <2>1. TypeOK'
      BY <1>10 DEF DeleteBlob, DeleteTo, TypeOK, UploadStep, DeleteStep,
         ReadStep, WorkStep
    <2>2. UploadInv'
      BY <1>10 DEF DeleteBlob, DeleteTo, TypeOK, UploadInv, DeleterInv,
         CleanupOnlyTouchesDeleted
    <2>3. FileInv'
      BY <1>10 DEF DeleteBlob, DeleteTo, TypeOK, FileInv, DeleterInv,
         CleanupOnlyTouchesDeleted
    <2> QED
      BY <1>10, <2>1, <2>2, <2>3 DEF DeleteBlob, DeleteTo, TypeOK,
         WorkerInv, DeleterInv, ReaderInv, DeletedBlobHasTask,
         CleanupOnlyTouchesDeleted, AcknowledgedDeleteIsFinal,
         BrokenReadIsExplained
  <1>11. ASSUME NEW c \in Deleter, ConfirmDelete(c) PROVE Inv'
    <2>1. TypeOK'
      BY <1>11 DEF ConfirmDelete, DeleteTo, DropTask, TypeOK, UploadStep,
         DeleteStep, ReadStep, WorkStep
    <2>2. DeletedBlobHasTask'
      BY <1>11 DEF ConfirmDelete, DeleteTo, DropTask, TypeOK,
         DeletedBlobHasTask, DeleterInv, CleanupOnlyTouchesDeleted
    <2>3. AcknowledgedDeleteIsFinal'
      BY <1>11 DEF ConfirmDelete, DeleteTo, DropTask, TypeOK,
         AcknowledgedDeleteIsFinal, DeleterInv, CleanupOnlyTouchesDeleted
    <2> QED
      BY <1>11, <2>1, <2>2, <2>3 DEF ConfirmDelete, DeleteTo, DropTask,
         TypeOK, UploadInv, FileInv, WorkerInv, DeleterInv, ReaderInv,
         CleanupOnlyTouchesDeleted, BrokenReadIsExplained
  <1>12. ASSUME NEW r \in Reader, NEW d \in Document, ReadMetadata(r, d) PROVE Inv'
    <2>1. TypeOK'
      BY <1>12 DEF ReadMetadata, ReadTo, TypeOK, UploadStep, DeleteStep,
         ReadStep, WorkStep
    <2> QED
      BY <1>12, <2>1 DEF ReadMetadata, ReadTo, TypeOK, UploadInv, FileInv,
         WorkerInv, DeleterInv, ReaderInv, DeletedBlobHasTask,
         CleanupOnlyTouchesDeleted, AcknowledgedDeleteIsFinal,
         BrokenReadIsExplained
  <1>13. ASSUME NEW r \in Reader, GetDocument(r) PROVE Inv'
    <2>1. TypeOK'
      BY <1>13 DEF GetDocument, ReadTo, TypeOK, UploadStep, DeleteStep,
         ReadStep, WorkStep
    <2> QED
      BY <1>13, <2>1 DEF GetDocument, ReadTo, TypeOK, UploadInv, FileInv,
         WorkerInv, DeleterInv, ReaderInv, DeletedBlobHasTask,
         CleanupOnlyTouchesDeleted, AcknowledgedDeleteIsFinal,
         BrokenReadIsExplained
  <1>14. ASSUME NEW r \in Reader, OpenBlob(r) PROVE Inv'
    <2>1. TypeOK'
      BY <1>14 DEF OpenBlob, ReadTo, TypeOK, UploadStep, DeleteStep,
         ReadStep, WorkStep
    <2>2. BrokenReadIsExplained'
      BY <1>14 DEF OpenBlob, ReadTo, TypeOK, BrokenReadIsExplained,
         ReaderInv, FileInv
    <2> QED
      BY <1>14, <2>1, <2>2 DEF OpenBlob, ReadTo, TypeOK, UploadInv,
         FileInv, WorkerInv, DeleterInv, ReaderInv, DeletedBlobHasTask,
         CleanupOnlyTouchesDeleted, AcknowledgedDeleteIsFinal
  <1>15. ASSUME NEW w \in Worker, NEW S \in SUBSET due, Claim(w, S) PROVE Inv'
    <2>1. TypeOK'
      BY <1>15 DEF Claim, WorkTo, TypeOK, UploadStep, DeleteStep,
         ReadStep, WorkStep
    <2> QED
      BY <1>15, <2>1 DEF Claim, WorkTo, TypeOK, UploadInv, FileInv,
         WorkerInv, DeleterInv, ReaderInv, DeletedBlobHasTask,
         CleanupOnlyTouchesDeleted, AcknowledgedDeleteIsFinal,
         BrokenReadIsExplained
  <1>16. ASSUME NEW w \in Worker, NEW k \in batch[w], RemoveBlob(w, k) PROVE Inv'
    <2>1. TypeOK'
      BY <1>16 DEF RemoveBlob, WorkTo, TypeOK, UploadStep, DeleteStep,
         ReadStep, WorkStep
    <2>2. UploadInv'
      BY <1>16 DEF RemoveBlob, WorkTo, TypeOK, UploadInv,
         CleanupOnlyTouchesDeleted
    <2>3. FileInv'
      BY <1>16 DEF RemoveBlob, WorkTo, TypeOK, FileInv,
         CleanupOnlyTouchesDeleted
    <2> QED
      BY <1>16, <2>1, <2>2, <2>3 DEF RemoveBlob, WorkTo, TypeOK,
         WorkerInv, DeleterInv, ReaderInv, DeletedBlobHasTask,
         CleanupOnlyTouchesDeleted, AcknowledgedDeleteIsFinal,
         BrokenReadIsExplained
  <1>17. ASSUME NEW w \in Worker, CompleteTask(w) PROVE Inv'
    <2>1. TypeOK'
      BY <1>17 DEF CompleteTask, WorkTo, NextTask, DropTask, TypeOK,
         UploadStep, DeleteStep, ReadStep, WorkStep
    <2>2. DeletedBlobHasTask'
      BY <1>17 DEF CompleteTask, WorkTo, NextTask, DropTask, TypeOK,
         DeletedBlobHasTask, WorkerInv
    <2> QED
      BY <1>17, <2>1, <2>2 DEF CompleteTask, WorkTo, NextTask, DropTask,
         TypeOK, UploadInv, FileInv, WorkerInv, DeleterInv, ReaderInv,
         CleanupOnlyTouchesDeleted, AcknowledgedDeleteIsFinal,
         BrokenReadIsExplained
  <1>18. ASSUME NEW w \in Worker, RetryTask(w) PROVE Inv'
    <2>1. TypeOK'
      BY <1>18 DEF RetryTask, WorkTo, NextTask, TypeOK, UploadStep,
         DeleteStep, ReadStep, WorkStep
    <2> QED
      BY <1>18, <2>1 DEF RetryTask, WorkTo, NextTask, TypeOK, UploadInv,
         FileInv, WorkerInv, DeleterInv, ReaderInv, DeletedBlobHasTask,
         CleanupOnlyTouchesDeleted, AcknowledgedDeleteIsFinal,
         BrokenReadIsExplained
  <1>19. ASSUME NEW k \in File, TaskBecomesDue(k) PROVE Inv'
    <2>1. TypeOK'
      BY <1>19 DEF TaskBecomesDue, TypeOK, UploadStep, DeleteStep,
         ReadStep, WorkStep
    <2> QED
      BY <1>19, <2>1 DEF TaskBecomesDue, TypeOK, UploadInv, FileInv,
         WorkerInv, DeleterInv, ReaderInv, DeletedBlobHasTask,
         CleanupOnlyTouchesDeleted, AcknowledgedDeleteIsFinal,
         BrokenReadIsExplained
  <1>20. ASSUME Crash PROVE Inv'
    <2>1. TypeOK'
      BY <1>20 DEF Crash, AfterCrash, TypeOK, UploadStep, DeleteStep,
         ReadStep, WorkStep
    <2>2. UploadInv'
      <3> SUFFICES ASSUME NEW d \in Document PROVE UploadInv!(d)'
        BY DEF UploadInv
      <3>1. upload'[d] = AfterCrash(upload[d]) /\ upload[d] \in UploadStep
        BY <1>20 DEF Crash, TypeOK
      <3> QED
        BY <1>20, <3>1 DEF Crash, AfterCrash, TypeOK, UploadStep, UploadInv
    <2>3. BrokenReadIsExplained'
      BY <1>20 DEF Crash, AfterCrash, TypeOK, BrokenReadIsExplained,
         ReaderInv
    <2> QED
      BY <1>20, <2>1, <2>2, <2>3 DEF Crash, AfterCrash, TypeOK, FileInv,
         WorkerInv, DeleterInv, ReaderInv, DeletedBlobHasTask,
         CleanupOnlyTouchesDeleted, AcknowledgedDeleteIsFinal
  <1>21. CASE UNCHANGED vars
    BY <1>21 DEF vars, TypeOK, UploadInv, FileInv, WorkerInv, DeleterInv,
       ReaderInv, DeletedBlobHasTask, CleanupOnlyTouchesDeleted,
       AcknowledgedDeleteIsFinal, BrokenReadIsExplained
  <1> QED BY <1>1, <1>2, <1>3, <1>4, <1>5, <1>6, <1>7, <1>8, <1>9, <1>10,
        <1>11, <1>12, <1>13, <1>14, <1>15, <1>16, <1>17, <1>18, <1>19, <1>20,
        <1>21 DEF Next, UploadNext, DeleteNext, ReadNext, WorkNext

--------------------------------------------------------------------------------
(* What holds in every behaviour. *)

(* The inductive invariant holds throughout every execution. *)
THEOREM Invariance == Spec => []Inv
  BY InitInv, NextInv, PTL DEF Spec

(* Every reachable state is well-formed. *)
THEOREM TypeCorrectness == Spec => []TypeOK
  <1>1. Inv => TypeOK
    BY DEF Inv
  <1> QED BY <1>1, Invariance, PTL

(* The outbox never loses the blob of a deleted document. *)
THEOREM OutboxIsComplete == Spec => []DeletedBlobHasTask
  <1>1. Inv => DeletedBlobHasTask
    BY DEF Inv
  <1> QED BY <1>1, Invariance, PTL

(* Cleanup holds no key of a document that can still be read. *)
THEOREM CleanupIsSafe == Spec => []CleanupOnlyTouchesDeleted
  <1>1. Inv => CleanupOnlyTouchesDeleted
    BY DEF Inv
  <1> QED BY <1>1, Invariance, PTL

(* Nothing of a document comes back after its delete was acknowledged. *)
THEOREM DeleteIsFinal == Spec => []AcknowledgedDeleteIsFinal
  <1>1. Inv => AcknowledgedDeleteIsFinal
    BY DEF Inv
  <1> QED BY <1>1, Invariance, PTL

(* A status 500 for a missing blob has one of two known causes. *)
THEOREM BrokenReadsAreExplained == Spec => []BrokenReadIsExplained
  <1>1. Inv => BrokenReadIsExplained
    BY DEF Inv
  <1> QED BY <1>1, Invariance, PTL

(* What an acknowledged upload promised holds until a delete commits. *)
THEOREM UploadIsDurable == Spec => []AcknowledgedUploadIsDurable
  <1>1. Inv => AcknowledgedUploadIsDurable
    BY ConstantsAssumption
       DEF Inv, TypeOK, UploadInv, FileInv, AcknowledgedUploadIsDurable
  <1> QED BY <1>1, Invariance, PTL

(* Where COMMIT reports truthfully, visible metadata never points at a     *)
(* missing blob.                                                           *)
THEOREM VisibleFilesHaveBlobs ==
  ASSUME ~AmbiguousCommit PROVE Spec => []VisibleFileHasBlob
  <1>1. Inv => VisibleFileHasBlob
    BY DEF Inv, FileInv, VisibleFileHasBlob
  <1> QED BY <1>1, Invariance, PTL

(* Physical removal follows logical deletion, and deletion is for ever.    *)
THEOREM RemovalIsOrdered == Spec => RemovalFollowsDeletion
  <1>1. ASSUME Inv, [Next]_vars, NEW d \in Document
        PROVE  BlobOutlivesRow(d) /\ DeletionIsForever(d)
    <2> USE <1>1, ConstantsAssumption
        DEF Inv, TypeOK, store, deletes, reads, work, BlobOutlivesRow,
            DeletionIsForever
    <2>1. ASSUME NEW e \in Document, UploadNext(e)
          PROVE  BlobOutlivesRow(d) /\ DeletionIsForever(d)
      BY <2>1 DEF UploadNext, RefuseUpload, PutBlob, RejectOversized,
         CreateDocument, CreateFails, TakeBack, AnswerUpload, UploadTo,
         BeforeCreate, UploadInv
    <2>2. ASSUME NEW c \in Deleter, DeleteNext(c)
          PROVE  BlobOutlivesRow(d) /\ DeletionIsForever(d)
      BY <2>2 DEF DeleteNext, DeleteDocument, DeleteFails, DeleteBlob,
         ConfirmDelete, DeleteTo, LogicalDelete, CleanupOnlyTouchesDeleted
    <2>3. ASSUME NEW r \in Reader, ReadNext(r)
          PROVE  BlobOutlivesRow(d) /\ DeletionIsForever(d)
      BY <2>3 DEF ReadNext, ReadMetadata, GetDocument, OpenBlob, ReadTo
    <2>4. ASSUME NEW w \in Worker, WorkNext(w)
          PROVE  BlobOutlivesRow(d) /\ DeletionIsForever(d)
      BY <2>4 DEF WorkNext, Claim, RemoveBlob, CompleteTask, RetryTask,
         NextTask, WorkTo, CleanupOnlyTouchesDeleted
    <2>5. CASE \E k \in File : TaskBecomesDue(k)
      BY <2>5 DEF TaskBecomesDue
    <2>6. CASE Crash
      BY <2>6 DEF Crash
    <2>7. CASE UNCHANGED vars
      BY <2>7 DEF vars
    <2> QED BY <2>1, <2>2, <2>3, <2>4, <2>5, <2>6, <2>7 DEF Next
  <1>2. Inv /\ [Next]_vars =>
           [\A d \in Document : BlobOutlivesRow(d) /\ DeletionIsForever(d)]_vars
    BY <1>1
  <1> QED BY <1>2, Invariance, PTL DEF Spec, RemovalFollowsDeletion

--------------------------------------------------------------------------------
(* Refinement: every step is a step in the life of at most one document.   *)

(* The stages document d may reach in one step. *)
NextPhases(d) ==
    CASE PhaseOf(d) = "none" -> {IF d \in File THEN "stored" ELSE "live", "gone"}
      [] PhaseOf(d) = "stored" -> {"live", "gone"}
      [] PhaseOf(d) = "live" -> {IF d \in File THEN "doomed" ELSE "gone"}
      [] PhaseOf(d) = "doomed" -> {"gone"}
      [] OTHER -> {}

LifeStep(d) ==
    /\ PhaseOf(d)' = PhaseOf(d) \/ PhaseOf(d)' \in NextPhases(d)
    /\ \A e \in Document \ {d} : PhaseOf(e)' = PhaseOf(e)

Quiet == \A e \in Document : PhaseOf(e)' = PhaseOf(e)

(* A step that changes the phase of one document, from one stage of its    *)
(* life to the next, is a step of the abstract specification.              *)
LEMMA LifeStepRefines ==
  ASSUME TypeOK, NEW d \in Document, LifeStep(d)
  PROVE  [Lifecycle!Next]_phaseView
  <1> DEFINE to == PhaseOf(d)'
  <1>1. phaseView' = [phaseView EXCEPT ![d] = to]
    BY DEF phaseView, LifeStep
  <1>2. phaseView[d] = PhaseOf(d)
    BY DEF phaseView
  <1>3. CASE to = PhaseOf(d)
    <2>1. phaseView' = phaseView
      BY <1>3 DEF phaseView, LifeStep
    <2> QED BY <2>1
  <1>4. CASE to # PhaseOf(d)
    <2>1. to \in NextPhases(d)
      BY <1>4 DEF LifeStep
    <2> HIDE DEF to
    <2>2. CASE PhaseOf(d) = "none"
      BY <1>1, <1>2, <2>1, <2>2
         DEF NextPhases, Lifecycle!Next, Lifecycle!Store, Lifecycle!Publish,
             Lifecycle!GiveUp, Lifecycle!Move
    <2>3. CASE PhaseOf(d) = "stored"
      <3>1. d \in File
        BY <2>3 DEF PhaseOf, TypeOK
      <3> QED
        BY <1>1, <1>2, <2>1, <2>3, <3>1
           DEF NextPhases, Lifecycle!Next, Lifecycle!Publish, Lifecycle!GiveUp,
               Lifecycle!Move
    <2>4. CASE PhaseOf(d) = "live"
      BY <1>1, <1>2, <2>1, <2>4
         DEF NextPhases, Lifecycle!Next, Lifecycle!Delete, Lifecycle!Move
    <2>5. CASE PhaseOf(d) = "doomed"
      BY <1>1, <1>2, <2>1, <2>5
         DEF NextPhases, Lifecycle!Next, Lifecycle!Reclaim, Lifecycle!Move
    <2> QED
      BY <2>1, <2>2, <2>3, <2>4, <2>5 DEF NextPhases, PhaseOf
  <1> QED BY <1>3, <1>4

(* A step that changes no phase is a stutter of the abstract specification. *)
LEMMA QuietRefines == ASSUME Quiet PROVE [Lifecycle!Next]_phaseView
  BY DEF Quiet, phaseView

(* Every step of the two stores, their requests and workers is one step of *)
(* one document's life, or none.                                           *)
LEMMA StepRefines == Inv /\ [Next]_vars => [Lifecycle!Next]_phaseView
  <1> SUFFICES ASSUME Inv, [Next]_vars PROVE [Lifecycle!Next]_phaseView
    OBVIOUS
  <1> USE ConstantsAssumption DEF store, deletes, reads, work
  <1>0. TypeOK
    BY DEF Inv
  <1>1. ASSUME NEW d \in Document, UploadNext(d)
        PROVE  [Lifecycle!Next]_phaseView
    <2> USE DEF Inv, TypeOK, UploadTo, BeforeCreate, LifeStep, NextPhases, PhaseOf
    <2>1. CASE RefuseUpload(d)
      <3>1. LifeStep(d)
        BY <2>1 DEF RefuseUpload, UploadInv, CleanupOnlyTouchesDeleted
      <3> QED BY <1>0, <3>1, LifeStepRefines
    <2>2. CASE PutBlob(d)
      <3>1. LifeStep(d)
        BY <2>2 DEF PutBlob, UploadInv, CleanupOnlyTouchesDeleted
      <3> QED BY <1>0, <3>1, LifeStepRefines
    <2>3. CASE RejectOversized(d) \/ AnswerUpload(d)
      <3>1. Quiet
        BY <2>3 DEF RejectOversized, AnswerUpload, Quiet
      <3> QED BY <3>1, QuietRefines
    <2>4. CASE CreateDocument(d)
      <3>1. LifeStep(d)
        BY <2>4 DEF CreateDocument, UploadInv, CleanupOnlyTouchesDeleted
      <3> QED BY <1>0, <3>1, LifeStepRefines
    <2>5. CASE CreateFails(d)
      <3>1. LifeStep(d)
        BY <2>5 DEF CreateFails, UploadInv, CleanupOnlyTouchesDeleted
      <3> QED BY <1>0, <3>1, LifeStepRefines
    <2>6. CASE TakeBack(d)
      <3>1. LifeStep(d)
        BY <2>6 DEF TakeBack, DeletedBlobHasTask
      <3> QED BY <1>0, <3>1, LifeStepRefines
    <2> QED
      BY <1>1, <2>1, <2>2, <2>3, <2>4, <2>5, <2>6 DEF UploadNext
  <1>2. ASSUME NEW c \in Deleter, NEW d \in Document,
               DeleteDocument(c, d) \/ DeleteFails(c, d)
        PROVE  [Lifecycle!Next]_phaseView
    <2>1. LifeStep(d)
      BY <1>0, <1>2
         DEF Inv, TypeOK, DeleteDocument, DeleteFails, DeleteTo,
             LogicalDelete, LifeStep, NextPhases, PhaseOf, UploadInv
    <2> QED BY <1>0, <2>1, LifeStepRefines
  <1>3. ASSUME NEW c \in Deleter, DeleteBlob(c)
        PROVE  [Lifecycle!Next]_phaseView
    <2>1. Quiet
      BY <1>0, <1>3
         DEF Inv, TypeOK, DeleteBlob, DeleteTo, DeleterInv, Quiet, PhaseOf,
             CleanupOnlyTouchesDeleted, DeletedBlobHasTask
    <2> QED BY <2>1, QuietRefines
  <1>4. ASSUME NEW c \in Deleter, ConfirmDelete(c)
        PROVE  [Lifecycle!Next]_phaseView
    <2>1. PICK d \in Document :
             /\ row[d] = "deleted" /\ d \notin blobs
             /\ row' = row /\ blobs' = blobs /\ upload' = upload
             /\ tasks' \in {tasks, tasks \ {d}}
      BY <1>0, <1>4
         DEF Inv, TypeOK, ConfirmDelete, DeleteTo, DropTask, DeleterInv,
             CleanupOnlyTouchesDeleted
    <2>2. LifeStep(d)
      BY <2>1 DEF LifeStep, NextPhases, PhaseOf
    <2> QED BY <1>0, <2>2, LifeStepRefines
  <1>5. ASSUME NEW r \in Reader, ReadNext(r)
        PROVE  [Lifecycle!Next]_phaseView
    <2>1. Quiet
      BY <1>5 DEF ReadNext, ReadMetadata, GetDocument, OpenBlob, ReadTo,
         Quiet, PhaseOf
    <2> QED BY <2>1, QuietRefines
  <1>6. ASSUME NEW w \in Worker, NEW S \in SUBSET due, Claim(w, S)
        PROVE  [Lifecycle!Next]_phaseView
    <2>1. Quiet
      BY <1>6 DEF Claim, WorkTo, Quiet, PhaseOf
    <2> QED BY <2>1, QuietRefines
  <1>7. ASSUME NEW w \in Worker, NEW k \in batch[w], RemoveBlob(w, k)
        PROVE  [Lifecycle!Next]_phaseView
    <2>1. Quiet
      BY <1>0, <1>7
         DEF Inv, TypeOK, RemoveBlob, WorkTo, Quiet, PhaseOf,
             CleanupOnlyTouchesDeleted, DeletedBlobHasTask
    <2> QED BY <2>1, QuietRefines
  <1>8. ASSUME NEW w \in Worker, CompleteTask(w)
        PROVE  [Lifecycle!Next]_phaseView
    <2>1. PICK k \in File :
             /\ row[k] = "deleted" /\ k \notin blobs
             /\ row' = row /\ blobs' = blobs /\ upload' = upload
             /\ tasks' \in {tasks, tasks \ {k}}
      BY <1>0, <1>8
         DEF Inv, TypeOK, CompleteTask, NextTask, WorkTo, DropTask,
             WorkerInv, CleanupOnlyTouchesDeleted
    <2>2. k \in Document /\ LifeStep(k)
      BY <2>1 DEF LifeStep, NextPhases, PhaseOf
    <2> QED BY <1>0, <2>2, LifeStepRefines
  <1>9. ASSUME NEW w \in Worker, RetryTask(w)
        PROVE  [Lifecycle!Next]_phaseView
    <2>1. Quiet
      BY <1>9 DEF RetryTask, NextTask, WorkTo, Quiet, PhaseOf
    <2> QED BY <2>1, QuietRefines
  <1>10. CASE \E k \in File : TaskBecomesDue(k)
    <2>1. Quiet
      BY <1>10 DEF TaskBecomesDue, Quiet, PhaseOf
    <2> QED BY <2>1, QuietRefines
  <1>11. CASE Crash
    <2>1. Quiet
      BY <1>0, <1>11 DEF Crash, AfterCrash, TypeOK, Quiet, PhaseOf
    <2> QED BY <2>1, QuietRefines
  <1>12. CASE UNCHANGED vars
    <2>1. Quiet
      BY <1>12 DEF vars, Quiet, PhaseOf
    <2> QED BY <2>1, QuietRefines
  <1> QED
    BY <1>1, <1>2, <1>3, <1>4, <1>5, <1>6, <1>7, <1>8, <1>9, <1>10, <1>11,
       <1>12 DEF Next, DeleteNext, WorkNext

(* The two stores, with every request and worker, implement the safety     *)
(* part of DocumentLifecycle.  That the doomed are reclaimed is liveness,  *)
(* which TLC checks.                                                       *)
THEOREM StoreRefinesLifecycle ==
  Spec => Lifecycle!Init /\ [][Lifecycle!Next]_phaseView
  <1>1. Init => Lifecycle!Init
    BY DEF Init, Lifecycle!Init, phaseView, PhaseOf
  <1> QED BY <1>1, StepRefines, Invariance, PTL DEF Spec

================================================================================
