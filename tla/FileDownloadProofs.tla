--------------------------- MODULE FileDownloadProofs ---------------------------
(***************************************************************************)
(* The safety of FileDownload for any number of requests and a blob of any *)
(* length, whatever its metadata say of it.  That a download ends needs    *)
(* fairness and is left to model checking.                                 *)
(***************************************************************************)
EXTENDS FileDownload, TLAPS

--------------------------------------------------------------------------------
(* The inductive invariant. *)

Before == {"idle", "metadata", "key", "lookup", "keep", "get", "open", "begin"}
Copying == {"read", "reading", "write", "copied", "waiting"}

(* What a request has read has been sent and, if the body can be kept,     *)
(* captured as far as there was room; the rest is remembered as overflow.  *)
(* A copy that ended without an error has sent the whole blob.             *)
CopyInv ==
    \A r \in Request :
        /\ step[r] \in Before =>
              /\ position[r] = 0 /\ captured[r] = 0 /\ sent[r] = 0
              /\ ~overflow[r] /\ ~failed[r] /\ status[r] = 0
        /\ step[r] \in {"read", "reading"} => sent[r] = position[r] /\ ~failed[r]
        /\ step[r] = "write" => position[r] = sent[r] + 1 /\ ~failed[r]
        /\ step[r] \in Copying /\ ~failed[r] /\ fits /\ ~overflow[r] => captured[r] = sent[r]
        /\ step[r] \in {"copied", "waiting", "close"} /\ ~failed[r] => sent[r] = length

(* Only a GET copies, only a HEAD keeps metadata alone. *)
MethodInv ==
    \A r \in Request : /\ step[r] \in {"get", "open", "begin", "close"} \cup Copying => ~head[r]
                       /\ step[r] = "keep" => head[r]

(* The blob is open or closed once, by one of two goroutines. *)
ClosingInv ==
    \A r \in Request :
        /\ step[r] \in Before \ {"begin"} => reader[r] = "none"
        /\ step[r] \in Before => closer[r] = "none" /\ closed[r] = 0
        /\ step[r] \in {"begin", "close"} \cup Copying => reader[r] # "none"
        /\ step[r] \in Copying => closer[r] # "none"
        /\ step[r] = "close" => closer[r] = "finished"
        /\ reader[r] = "none" => closer[r] = "none"
        /\ step[r] # "done" /\ closer[r] \in {"none", "watching"} => reader[r] # "closed"
        /\ closed[r] = IF reader[r] = "closed" THEN 1 ELSE 0

(* A document that was deleted before the request is not found. *)
LateInv ==
    /\ visible <=> deleteStep = "idle"
    /\ deleteStep \in {"idle", "committed"} => epoch = 0
    /\ \A r \in Request :
          tooLate[r] => /\ deleteStep = "done" /\ step[r] \in {"metadata", "done"}
                        /\ status[r] # 200

Inv == /\ TypeOK /\ BodiesAreWhole /\ NothingIsLeftOpen
       /\ CopyInv /\ MethodInv /\ ClosingInv /\ LateInv

--------------------------------------------------------------------------------
(* The invariant holds at first and every step keeps it. *)

(* No request has begun. *)
LEMMA InitInv == Init => Inv
  BY DownloadAssumption
     DEF Init, Inv, TypeOK, Steps, Before, Copying, CachedBodyIsWhole, BodiesAreWhole, NothingIsLeftOpen,
         CopyInv, MethodInv, ClosingInv, LateInv

(* A new entry replaces what there was under its key. *)
LEMMA OneEntryForAKey ==
    ASSUME TypeOK, NEW r \in Request,
           NEW new \in [epoch : {key[r]}, omitted : BOOLEAN, body : 0..Chunks],
           cache' = (cache \ Found(r)) \cup {new}
    PROVE  /\ cache' \subseteq [epoch : 0..1, omitted : BOOLEAN, body : 0..Chunks]
           /\ \A e, f \in cache' : e.epoch = f.epoch => e = f
  <1>1. new \in [epoch : 0..1, omitted : BOOLEAN, body : 0..Chunks] /\ new.epoch = key[r]
    BY DEF TypeOK
  <1> QED
    BY <1>1 DEF Found, TypeOK

(* The row is gone. *)
LEMMA CommitDeleteInv == ASSUME Inv, CommitDelete PROVE Inv'
  <1>1. TypeOK'
    BY DEF CommitDelete, DeleteTo, request, copying, closing, Inv, TypeOK
  <1>2. BodiesAreWhole'
    BY DEF CommitDelete, DeleteTo, request, copying, Inv, BodiesAreWhole, CachedBodyIsWhole
  <1>3. NothingIsLeftOpen'
    BY DEF CommitDelete, DeleteTo, closing, Inv, NothingIsLeftOpen
  <1>4. CopyInv'
    BY DEF CommitDelete, DeleteTo, copying, Inv, CopyInv
  <1>5. MethodInv'
    BY DEF CommitDelete, DeleteTo, request, Inv, MethodInv
  <1>6. ClosingInv'
    BY DEF CommitDelete, DeleteTo, closing, Inv, ClosingInv
  <1>7. LateInv'
    BY DEF CommitDelete, DeleteTo, request, Inv, LateInv
  <1> QED
    BY <1>1, <1>2, <1>3, <1>4, <1>5, <1>6, <1>7 DEF Inv

(* Keys change. *)
LEMMA AdvanceEpochInv == ASSUME Inv, AdvanceEpoch PROVE Inv'
  <1>1. TypeOK'
    BY DEF AdvanceEpoch, DeleteTo, request, copying, closing, Inv, TypeOK, LateInv
  <1>2. BodiesAreWhole'
    BY DEF AdvanceEpoch, DeleteTo, request, copying, Inv, BodiesAreWhole, CachedBodyIsWhole
  <1>3. NothingIsLeftOpen'
    BY DEF AdvanceEpoch, DeleteTo, closing, Inv, NothingIsLeftOpen
  <1>4. CopyInv'
    BY DEF AdvanceEpoch, DeleteTo, copying, Inv, CopyInv
  <1>5. MethodInv'
    BY DEF AdvanceEpoch, DeleteTo, request, Inv, MethodInv
  <1>6. ClosingInv'
    BY DEF AdvanceEpoch, DeleteTo, closing, Inv, ClosingInv
  <1>7. LateInv'
    BY DEF AdvanceEpoch, DeleteTo, request, Inv, LateInv
  <1> QED
    BY <1>1, <1>2, <1>3, <1>4, <1>5, <1>6, <1>7 DEF Inv

(* The entries are gone. *)
LEMMA InvalidateInv == ASSUME Inv, Invalidate PROVE Inv'
  <1>1. TypeOK'
    BY DEF Invalidate, DeleteTo, request, copying, closing, Inv, TypeOK
  <1>2. BodiesAreWhole'
    BY DEF Invalidate, DeleteTo, request, copying, Inv, BodiesAreWhole, CachedBodyIsWhole
  <1>3. NothingIsLeftOpen'
    BY DEF Invalidate, DeleteTo, closing, Inv, NothingIsLeftOpen
  <1>4. CopyInv'
    BY DEF Invalidate, DeleteTo, copying, Inv, CopyInv
  <1>5. MethodInv'
    BY DEF Invalidate, DeleteTo, request, Inv, MethodInv
  <1>6. ClosingInv'
    BY DEF Invalidate, DeleteTo, closing, Inv, ClosingInv
  <1>7. LateInv'
    BY DEF Invalidate, DeleteTo, request, Inv, LateInv
  <1> QED
    BY <1>1, <1>2, <1>3, <1>4, <1>5, <1>6, <1>7 DEF Inv

(* The delete is answered. *)
LEMMA RemoveBlobInv == ASSUME Inv, RemoveBlob PROVE Inv'
  <1>1. TypeOK'
    BY DEF RemoveBlob, DeleteTo, request, copying, closing, Inv, TypeOK
  <1>2. BodiesAreWhole'
    BY DEF RemoveBlob, DeleteTo, request, copying, Inv, BodiesAreWhole, CachedBodyIsWhole
  <1>3. NothingIsLeftOpen'
    BY DEF RemoveBlob, DeleteTo, closing, Inv, NothingIsLeftOpen
  <1>4. CopyInv'
    BY DEF RemoveBlob, DeleteTo, copying, Inv, CopyInv
  <1>5. MethodInv'
    BY DEF RemoveBlob, DeleteTo, request, Inv, MethodInv
  <1>6. ClosingInv'
    BY DEF RemoveBlob, DeleteTo, closing, Inv, ClosingInv
  <1>7. LateInv'
    BY DEF RemoveBlob, DeleteTo, request, Inv, LateInv
  <1> QED
    BY <1>1, <1>2, <1>3, <1>4, <1>5, <1>6, <1>7 DEF Inv

(* The worker removes the blob. *)
LEMMA CleanUpInv == ASSUME Inv, CleanUp PROVE Inv'
  <1>1. TypeOK'
    BY DEF CleanUp, request, copying, closing, Inv, TypeOK
  <1>2. BodiesAreWhole'
    BY DEF CleanUp, request, copying, Inv, BodiesAreWhole, CachedBodyIsWhole
  <1>3. NothingIsLeftOpen'
    BY DEF CleanUp, closing, Inv, NothingIsLeftOpen
  <1>4. CopyInv'
    BY DEF CleanUp, copying, Inv, CopyInv
  <1>5. MethodInv'
    BY DEF CleanUp, request, Inv, MethodInv
  <1>6. ClosingInv'
    BY DEF CleanUp, closing, Inv, ClosingInv
  <1>7. LateInv'
    BY DEF CleanUp, request, Inv, LateInv
  <1> QED
    BY <1>1, <1>2, <1>3, <1>4, <1>5, <1>6, <1>7 DEF Inv

(* An entry is gone. *)
LEMMA VanishInv == ASSUME Inv, Vanish PROVE Inv'
  <1>1. TypeOK'
    BY DEF Vanish, document, request, copying, closing, Inv, TypeOK
  <1>2. BodiesAreWhole'
    BY DEF Vanish, document, request, copying, Inv, BodiesAreWhole, CachedBodyIsWhole
  <1>3. NothingIsLeftOpen'
    BY DEF Vanish, closing, Inv, NothingIsLeftOpen
  <1>4. CopyInv'
    BY DEF Vanish, document, copying, Inv, CopyInv
  <1>5. MethodInv'
    BY DEF Vanish, request, Inv, MethodInv
  <1>6. ClosingInv'
    BY DEF Vanish, closing, Inv, ClosingInv
  <1>7. LateInv'
    BY DEF Vanish, document, request, Inv, LateInv
  <1> QED
    BY <1>1, <1>2, <1>3, <1>4, <1>5, <1>6, <1>7 DEF Inv

(* A request begins. *)
LEMMA StartInv == ASSUME Inv, NEW r \in Request, Start(r) PROVE Inv'
  <1>1. TypeOK'
    BY DEF Start, StepTo, copying, closing, document, Inv, TypeOK, Steps
  <1>2. BodiesAreWhole'
    BY DEF Start, StepTo, document, copying, Inv, BodiesAreWhole, CachedBodyIsWhole
  <1>3. NothingIsLeftOpen'
    BY DEF Start, StepTo, closing, Inv, NothingIsLeftOpen
  <1>4. CopyInv'
    BY DEF Start, StepTo, copying, document, Inv, CopyInv, Before, Copying
  <1>5. MethodInv'
    BY DEF Start, StepTo, Inv, MethodInv, Copying
  <1>6. ClosingInv'
    BY DEF Start, StepTo, closing, Inv, ClosingInv, Before, Copying
  <1>7. LateInv'
    BY DEF Start, StepTo, document, Inv, TypeOK, LateInv, CopyInv, Before
  <1> QED
    BY <1>1, <1>2, <1>3, <1>4, <1>5, <1>6, <1>7 DEF Inv

(* Access is checked. *)
LEMMA GetMetadataInv == ASSUME Inv, NEW r \in Request, GetMetadata(r) PROVE Inv'
  <1>1. TypeOK'
    BY DEF GetMetadata, StepTo, Answer, request, copying, closing, document, Inv, TypeOK, Steps
  <1>2. BodiesAreWhole'
    BY DEF GetMetadata, StepTo, Answer, document, request, copying, Inv, TypeOK, BodiesAreWhole,
       CachedBodyIsWhole
  <1>3. NothingIsLeftOpen'
    BY DEF GetMetadata, StepTo, closing, Inv, TypeOK, NothingIsLeftOpen, ClosingInv, Before
  <1>4. CopyInv'
    BY DEF GetMetadata, StepTo, Answer, copying, document, Inv, TypeOK, CopyInv, Before, Copying
  <1>5. MethodInv'
    BY DEF GetMetadata, StepTo, request, Inv, TypeOK, MethodInv, Copying
  <1>6. ClosingInv'
    BY DEF GetMetadata, StepTo, closing, Inv, TypeOK, ClosingInv, Before, Copying
  <1>7. LateInv'
    BY DEF GetMetadata, StepTo, Answer, request, document, Inv, TypeOK, LateInv
  <1> QED
    BY <1>1, <1>2, <1>3, <1>4, <1>5, <1>6, <1>7 DEF Inv

(* The key is made. *)
LEMMA ComputeKeyInv == ASSUME Inv, NEW r \in Request, ComputeKey(r) PROVE Inv'
  <1>1. TypeOK'
    BY DEF ComputeKey, StepTo, copying, closing, document, Inv, TypeOK, Steps
  <1>2. BodiesAreWhole'
    BY DEF ComputeKey, StepTo, document, copying, Inv, BodiesAreWhole, CachedBodyIsWhole
  <1>3. NothingIsLeftOpen'
    BY DEF ComputeKey, StepTo, closing, Inv, NothingIsLeftOpen
  <1>4. CopyInv'
    BY DEF ComputeKey, StepTo, copying, document, Inv, CopyInv, Before, Copying
  <1>5. MethodInv'
    BY DEF ComputeKey, StepTo, Inv, MethodInv, Copying
  <1>6. ClosingInv'
    BY DEF ComputeKey, StepTo, closing, Inv, ClosingInv, Before, Copying
  <1>7. LateInv'
    BY DEF ComputeKey, StepTo, document, Inv, LateInv
  <1> QED
    BY <1>1, <1>2, <1>3, <1>4, <1>5, <1>6, <1>7 DEF Inv

(* A complete entry answers, or a HEAD any. *)
LEMMA LookUpInv == ASSUME Inv, NEW r \in Request, LookUp(r) PROVE Inv'
  <1>1. TypeOK'
    <2>1. \A e \in cache : ~e.omitted => e.body = length
      BY DEF Inv, TypeOK, BodiesAreWhole, CachedBodyIsWhole
    <2>2. sent' \in [Request -> 0..length]
      BY <2>1 DEF LookUp, Found, Inv, TypeOK
    <2>3. step' \in [Request -> Steps] /\ status' \in [Request -> {0, 200, 404, 500}]
      BY DEF LookUp, StepTo, Answer, Inv, TypeOK, Steps
    <2> QED
      BY <2>2, <2>3 DEF LookUp, StepTo, request, closing, document, Inv, TypeOK
  <1>2. BodiesAreWhole'
    <2>1. \A e \in cache : ~e.omitted => e.body = length
      BY DEF Inv, TypeOK, BodiesAreWhole, CachedBodyIsWhole
    <2> QED
      BY <2>1 DEF LookUp, Found, StepTo, Answer, document, request, Inv, TypeOK, BodiesAreWhole,
                  CachedBodyIsWhole
  <1>3. NothingIsLeftOpen'
    BY DEF LookUp, StepTo, closing, Inv, TypeOK, NothingIsLeftOpen, ClosingInv, Before
  <1>4. CopyInv'
    BY DEF LookUp, StepTo, Answer, document, Inv, TypeOK, CopyInv, Before, Copying
  <1>5. MethodInv'
    BY DEF LookUp, StepTo, request, Inv, TypeOK, MethodInv, Copying
  <1>6. ClosingInv'
    BY DEF LookUp, StepTo, closing, Inv, TypeOK, ClosingInv, Before, Copying
  <1>7. LateInv'
    BY DEF LookUp, StepTo, Answer, request, document, Inv, TypeOK, LateInv
  <1> QED
    BY <1>1, <1>2, <1>3, <1>4, <1>5, <1>6, <1>7 DEF Inv

(* A HEAD keeps the headers. *)
LEMMA KeepMetadataInv == ASSUME Inv, NEW r \in Request, KeepMetadata(r) PROVE Inv'
  <1>1. TypeOK'
    <2>1. /\ cache' \subseteq [epoch : 0..1, omitted : BOOLEAN, body : 0..Chunks]
          /\ \A e, f \in cache' : e.epoch = f.epoch => e = f
      <3>1. [epoch |-> key[r], omitted |-> TRUE, body |-> 0]
              \in [epoch : {key[r]}, omitted : BOOLEAN, body : 0..Chunks]
        BY DownloadAssumption
      <3>2. TypeOK
        BY DEF Inv
      <3> QED
        BY <3>1, <3>2, OneEntryForAKey DEF KeepMetadata, WithHeaders
    <2> QED
      BY <2>1 DEF KeepMetadata, StepTo, Answer, request, copying, closing, document, Inv, TypeOK, Steps
  <1>2. BodiesAreWhole'
    <2>1. CachedBodyIsWhole'
      BY DEF KeepMetadata, WithHeaders, StepTo, document, Inv, BodiesAreWhole, CachedBodyIsWhole
    <2> QED
      BY <2>1 DEF KeepMetadata, StepTo, Answer, document, request, copying, Inv, TypeOK, MethodInv,
                  BodiesAreWhole
  <1>3. NothingIsLeftOpen'
    BY DEF KeepMetadata, StepTo, closing, Inv, NothingIsLeftOpen, ClosingInv, Before
  <1>4. CopyInv'
    BY DEF KeepMetadata, StepTo, Answer, copying, document, Inv, TypeOK, CopyInv, Before, Copying
  <1>5. MethodInv'
    BY DEF KeepMetadata, StepTo, request, Inv, MethodInv, Copying
  <1>6. ClosingInv'
    BY DEF KeepMetadata, StepTo, closing, Inv, ClosingInv, Before, Copying
  <1>7. LateInv'
    BY DEF KeepMetadata, StepTo, Answer, request, document, Inv, LateInv
  <1> QED
    BY <1>1, <1>2, <1>3, <1>4, <1>5, <1>6, <1>7 DEF Inv

(* The metadata are read again. *)
LEMMA GetDocumentInv == ASSUME Inv, NEW r \in Request, GetDocument(r) PROVE Inv'
  <1>1. TypeOK'
    BY DEF GetDocument, StepTo, Answer, request, copying, closing, document, Inv, TypeOK, Steps
  <1>2. BodiesAreWhole'
    BY DEF GetDocument, StepTo, Answer, document, request, copying, Inv, TypeOK, BodiesAreWhole,
       CachedBodyIsWhole
  <1>3. NothingIsLeftOpen'
    BY DEF GetDocument, StepTo, closing, Inv, TypeOK, NothingIsLeftOpen, ClosingInv, Before
  <1>4. CopyInv'
    BY DEF GetDocument, StepTo, Answer, copying, document, Inv, TypeOK, CopyInv, Before, Copying
  <1>5. MethodInv'
    BY DEF GetDocument, StepTo, request, Inv, TypeOK, MethodInv
  <1>6. ClosingInv'
    BY DEF GetDocument, StepTo, closing, Inv, TypeOK, ClosingInv, Before, Copying
  <1>7. LateInv'
    BY DEF GetDocument, StepTo, Answer, request, document, Inv, TypeOK, LateInv
  <1> QED
    BY <1>1, <1>2, <1>3, <1>4, <1>5, <1>6, <1>7 DEF Inv

(* The blob is opened. *)
LEMMA OpenBlobInv == ASSUME Inv, NEW r \in Request, OpenBlob(r) PROVE Inv'
  <1>1. TypeOK'
    BY DEF OpenBlob, StepTo, Answer, request, copying, document, Inv, TypeOK, Steps
  <1>2. BodiesAreWhole'
    BY DEF OpenBlob, StepTo, Answer, document, request, copying, Inv, TypeOK, BodiesAreWhole,
       CachedBodyIsWhole
  <1>3. NothingIsLeftOpen'
    BY DEF OpenBlob, StepTo, Inv, TypeOK, NothingIsLeftOpen, ClosingInv, Before
  <1>4. CopyInv'
    BY DEF OpenBlob, StepTo, Answer, copying, document, Inv, TypeOK, CopyInv, Before, Copying
  <1>5. MethodInv'
    BY DEF OpenBlob, StepTo, request, Inv, TypeOK, MethodInv
  <1>6. ClosingInv'
    BY DEF OpenBlob, StepTo, Inv, TypeOK, ClosingInv, Before, Copying
  <1>7. LateInv'
    BY DEF OpenBlob, StepTo, Answer, request, document, Inv, TypeOK, LateInv
  <1> QED
    BY <1>1, <1>2, <1>3, <1>4, <1>5, <1>6, <1>7 DEF Inv

(* The copy begins. *)
LEMMA BeginStreamInv == ASSUME Inv, NEW r \in Request, BeginStream(r) PROVE Inv'
  <1>1. TypeOK'
    <2>1. /\ cache' \subseteq [epoch : 0..1, omitted : BOOLEAN, body : 0..Chunks]
          /\ \A e, f \in cache' : e.epoch = f.epoch => e = f
      <3>1. [epoch |-> key[r], omitted |-> TRUE, body |-> 0]
              \in [epoch : {key[r]}, omitted : BOOLEAN, body : 0..Chunks]
        BY DownloadAssumption
      <3>2. CASE cache' = cache
        BY <3>2 DEF Inv, TypeOK
      <3>3. CASE cache' = WithHeaders(r)
        <4>1. TypeOK
          BY DEF Inv
        <4> QED
          BY <3>1, <3>3, <4>1, OneEntryForAKey DEF WithHeaders
      <3> QED
        BY <3>2, <3>3 DEF BeginStream
    <2> QED
      BY <2>1 DEF BeginStream, StepTo, Answer, request, copying, document, Inv, TypeOK, Steps
  <1>2. BodiesAreWhole'
    <2>1. CachedBodyIsWhole'
      BY DEF BeginStream, WithHeaders, StepTo, document, Inv, BodiesAreWhole, CachedBodyIsWhole
    <2> QED
      BY <2>1 DEF BeginStream, StepTo, Answer, document, request, copying, Inv, TypeOK,
                  BodiesAreWhole
  <1>3. NothingIsLeftOpen'
    BY DEF BeginStream, StepTo, Inv, NothingIsLeftOpen
  <1>4. CopyInv'
    BY DEF BeginStream, StepTo, Answer, copying, document, Inv, TypeOK, CopyInv, Before, Copying
  <1>5. MethodInv'
    BY DEF BeginStream, StepTo, request, Inv, MethodInv
  <1>6. ClosingInv'
    BY DEF BeginStream, StepTo, Inv, TypeOK, ClosingInv, Before
  <1>7. LateInv'
    BY DEF BeginStream, StepTo, Answer, request, document, Inv, LateInv
  <1> QED
    BY <1>1, <1>2, <1>3, <1>4, <1>5, <1>6, <1>7 DEF Inv

(* The context is looked at. *)
LEMMA BeginReadInv == ASSUME Inv, NEW r \in Request, BeginRead(r) PROVE Inv'
  <1>1. TypeOK'
    <2>1. /\ UNCHANGED << fits, visible, blob, length, deleteStep, epoch, cache, status, head, key,
                         cancelled, tooLate, reader, closed, closer >>
          /\ UNCHANGED << position, captured, overflow, sent >>
          /\ \E s \in {"copied", "reading"} : step' = [step EXCEPT ![r] = s]
          /\ \E b \in BOOLEAN : failed' = failed \/ failed' = [failed EXCEPT ![r] = b]
      BY DEF BeginRead, StepTo, EndCopy, Fail, request, copying, closing, document
    <2>2. step' \in [Request -> Steps] /\ failed' \in [Request -> BOOLEAN]
      <3>1. step \in [Request -> Steps] /\ failed \in [Request -> BOOLEAN]
        BY DEF Inv, TypeOK
      <3>2. \E s \in Steps : step' = [step EXCEPT ![r] = s]
        BY <2>1 DEF Steps
      <3> QED
        BY <2>1, <3>1, <3>2
    <2> QED
      BY <2>1, <2>2 DEF Inv, TypeOK
  <1>2. BodiesAreWhole'
    BY DEF BeginRead, StepTo, EndCopy, Fail, document, request, copying, Inv, TypeOK, BodiesAreWhole,
       CachedBodyIsWhole
  <1>3. NothingIsLeftOpen'
    BY DEF BeginRead, StepTo, EndCopy, closing, Inv, TypeOK, NothingIsLeftOpen
  <1>4. CopyInv'
    BY DEF BeginRead, StepTo, EndCopy, Fail, copying, document, Inv, TypeOK, CopyInv, Before, Copying
  <1>5. MethodInv'
    BY DEF BeginRead, StepTo, EndCopy, request, Inv, TypeOK, MethodInv, Copying
  <1>6. ClosingInv'
    BY DEF BeginRead, StepTo, EndCopy, closing, Inv, TypeOK, ClosingInv, Before, Copying
  <1>7. LateInv'
    BY DEF BeginRead, StepTo, EndCopy, request, document, Inv, TypeOK, LateInv
  <1> QED
    BY <1>1, <1>2, <1>3, <1>4, <1>5, <1>6, <1>7 DEF Inv

(* A chunk is read, or the last one was. *)
LEMMA EndReadInv == ASSUME Inv, NEW r \in Request, EndRead(r) PROVE Inv'
  <1>1. TypeOK'
    <2>1. /\ UNCHANGED << fits, visible, blob, length, deleteStep, epoch, cache, status, head, key,
                         cancelled, tooLate, reader, closed, closer >>
          /\ UNCHANGED << captured, overflow, sent >>
          /\ \E s \in {"copied", "write"} : step' = [step EXCEPT ![r] = s]
          /\ failed' = failed \/ failed' = [failed EXCEPT ![r] = TRUE]
          /\ \/ position' = position
             \/ position[r] < length /\ position' = [position EXCEPT ![r] = position[r] + 1]
      BY DEF EndRead, StepTo, EndCopy, Fail, request, closing, document
    <2>2. step' \in [Request -> Steps] /\ failed' \in [Request -> BOOLEAN]
      <3>1. step \in [Request -> Steps] /\ failed \in [Request -> BOOLEAN]
        BY DEF Inv, TypeOK
      <3>2. \E s \in Steps : step' = [step EXCEPT ![r] = s]
        BY <2>1 DEF Steps
      <3> QED
        BY <2>1, <3>1, <3>2
    <2>3. position' \in [Request -> 0..length]
      BY <2>1 DEF Inv, TypeOK
    <2> QED
      BY <2>1, <2>2, <2>3 DEF Inv, TypeOK
  <1>2. BodiesAreWhole'
    BY DEF EndRead, StepTo, EndCopy, Fail, document, request, Inv, TypeOK, BodiesAreWhole,
       CachedBodyIsWhole
  <1>3. NothingIsLeftOpen'
    BY DEF EndRead, StepTo, EndCopy, closing, Inv, TypeOK, NothingIsLeftOpen
  <1>4. CopyInv'
    BY DEF EndRead, StepTo, EndCopy, Fail, document, Inv, TypeOK, CopyInv, Before, Copying
  <1>5. MethodInv'
    BY DEF EndRead, StepTo, EndCopy, request, Inv, TypeOK, MethodInv, Copying
  <1>6. ClosingInv'
    BY DEF EndRead, StepTo, EndCopy, closing, Inv, TypeOK, ClosingInv, Before, Copying
  <1>7. LateInv'
    BY DEF EndRead, StepTo, EndCopy, request, document, Inv, TypeOK, LateInv
  <1> QED
    BY <1>1, <1>2, <1>3, <1>4, <1>5, <1>6, <1>7 DEF Inv

(* A chunk is sent and captured. *)
LEMMA WriteChunkInv == ASSUME Inv, NEW r \in Request, WriteChunk(r) PROVE Inv'
  <1>1. TypeOK'
    <2>1. /\ UNCHANGED << fits, visible, blob, length, deleteStep, epoch, cache, status, head, key,
                         cancelled, tooLate, reader, closed, closer >>
          /\ UNCHANGED position
          /\ step[r] = "write" /\ \E s \in {"copied", "read"} : step' = [step EXCEPT ![r] = s]
          /\ failed' = failed \/ failed' = [failed EXCEPT ![r] = TRUE]
          /\ sent' = sent \/ sent' = [sent EXCEPT ![r] = sent[r] + 1]
          /\ \/ captured' = captured
             \/ captured[r] < Chunks /\ captured' = [captured EXCEPT ![r] = captured[r] + 1]
          /\ overflow' = overflow \/ overflow' = [overflow EXCEPT ![r] = TRUE]
      BY DEF WriteChunk, StepTo, EndCopy, Capture, Fail, request, closing, document
    <2>2. /\ step' \in [Request -> Steps] /\ failed' \in [Request -> BOOLEAN]
          /\ overflow' \in [Request -> BOOLEAN]
      <3>1. /\ step \in [Request -> Steps] /\ failed \in [Request -> BOOLEAN]
            /\ overflow \in [Request -> BOOLEAN]
        BY DEF Inv, TypeOK
      <3>2. \E s \in Steps : step' = [step EXCEPT ![r] = s]
        BY <2>1 DEF Steps
      <3> QED
        BY <2>1, <3>1, <3>2
    <2>3. sent' \in [Request -> 0..length]
      <3>1. position[r] \in 0..length /\ sent[r] \in 0..length /\ position[r] = sent[r] + 1
        BY <2>1 DEF Inv, TypeOK, CopyInv
      <3>2. sent[r] + 1 \in 0..length
        BY <3>1 DEF Inv, TypeOK
      <3> QED
        BY <2>1, <3>2 DEF Inv, TypeOK
    <2>4. captured' \in [Request -> 0..Chunks]
      BY <2>1, DownloadAssumption DEF Inv, TypeOK
    <2> QED
      BY <2>1, <2>2, <2>3, <2>4 DEF Inv, TypeOK
  <1>2. BodiesAreWhole'
    BY DEF WriteChunk, StepTo, EndCopy, Fail, document, request, Inv, TypeOK, BodiesAreWhole,
       CachedBodyIsWhole
  <1>3. NothingIsLeftOpen'
    BY DEF WriteChunk, StepTo, EndCopy, closing, Inv, TypeOK, NothingIsLeftOpen
  <1>4. CopyInv'
    BY DownloadAssumption DEF WriteChunk, StepTo, EndCopy, Capture, Fail, document, Inv, TypeOK,
       CopyInv, Before, Copying
  <1>5. MethodInv'
    BY DEF WriteChunk, StepTo, EndCopy, request, Inv, TypeOK, MethodInv, Copying
  <1>6. ClosingInv'
    BY DEF WriteChunk, StepTo, EndCopy, closing, Inv, TypeOK, ClosingInv, Before, Copying
  <1>7. LateInv'
    BY DEF WriteChunk, StepTo, EndCopy, request, document, Inv, TypeOK, LateInv
  <1> QED
    BY <1>1, <1>2, <1>3, <1>4, <1>5, <1>6, <1>7 DEF Inv

(* The copy has ended. *)
LEMMA StopCloseInv == ASSUME Inv, NEW r \in Request, StopClose(r) PROVE Inv'
  <1>1. TypeOK'
    BY DEF StopClose, StepTo, request, copying, closing, document, Inv, TypeOK, Steps
  <1>2. BodiesAreWhole'
    BY DEF StopClose, StepTo, document, request, copying, Inv, BodiesAreWhole, CachedBodyIsWhole
  <1>3. NothingIsLeftOpen'
    BY DEF StopClose, StepTo, closing, Inv, NothingIsLeftOpen
  <1>4. CopyInv'
    BY DEF StopClose, StepTo, copying, document, Inv, CopyInv, Before, Copying
  <1>5. MethodInv'
    BY DEF StopClose, StepTo, request, Inv, MethodInv, Copying
  <1>6. ClosingInv'
    BY DEF StopClose, StepTo, closing, Inv, ClosingInv, Before, Copying
  <1>7. LateInv'
    BY DEF StopClose, StepTo, request, document, Inv, LateInv
  <1> QED
    BY <1>1, <1>2, <1>3, <1>4, <1>5, <1>6, <1>7 DEF Inv

(* A complete body is kept. *)
LEMMA KeepInv == ASSUME Inv, NEW r \in Request, Keep(r) PROVE Inv'
  <1>1. TypeOK'
    <2>1. /\ cache' \subseteq [epoch : 0..1, omitted : BOOLEAN, body : 0..Chunks]
          /\ \A e, f \in cache' : e.epoch = f.epoch => e = f
      <3>1. [epoch |-> key[r], omitted |-> FALSE, body |-> captured[r]]
              \in [epoch : {key[r]}, omitted : BOOLEAN, body : 0..Chunks]
        BY DEF Inv, TypeOK
      <3>2. CASE cache' = cache
        BY <3>2 DEF Inv, TypeOK
      <3>3. CASE cache' = WithBody(r)
        <4>1. TypeOK
          BY DEF Inv
        <4> QED
          BY <3>1, <3>3, <4>1, OneEntryForAKey DEF WithBody
      <3> QED
        BY <3>2, <3>3 DEF Keep, KeepIf
    <2> QED
      BY <2>1 DEF Keep, KeepIf, StepTo, request, copying, closing, document, Inv, TypeOK, Steps
  <1>2. BodiesAreWhole'
    <2>1. fits /\ ~failed[r] /\ ~overflow[r] /\ captured[r] = Chunks /\ step[r] = "waiting"
             => Chunks = length
      BY DEF Inv, CopyInv, Copying
    <2>2. CachedBodyIsWhole'
      BY <2>1 DEF Keep, KeepIf, WithBody, StepTo, document, Inv, BodiesAreWhole, CachedBodyIsWhole
    <2> QED
      BY <2>2 DEF Keep, KeepIf, StepTo, document, request, copying, Inv, TypeOK, BodiesAreWhole
  <1>3. NothingIsLeftOpen'
    BY DEF Keep, KeepIf, StepTo, closing, Inv, NothingIsLeftOpen
  <1>4. CopyInv'
    BY DEF Keep, KeepIf, StepTo, copying, document, Inv, CopyInv, Before, Copying
  <1>5. MethodInv'
    BY DEF Keep, KeepIf, StepTo, request, Inv, MethodInv, Copying
  <1>6. ClosingInv'
    BY DEF Keep, KeepIf, StepTo, closing, Inv, ClosingInv, Before
  <1>7. LateInv'
    BY DEF Keep, KeepIf, StepTo, request, document, Inv, LateInv
  <1> QED
    BY <1>1, <1>2, <1>3, <1>4, <1>5, <1>6, <1>7 DEF Inv

(* The handler closes the blob. *)
LEMMA CloseReaderInv == ASSUME Inv, NEW r \in Request, CloseReader(r) PROVE Inv'
  <1>1. TypeOK'
    BY DEF CloseReader, StepTo, CloseOnce, request, copying, document, Inv, TypeOK, Steps
  <1>2. BodiesAreWhole'
    BY DEF CloseReader, StepTo, document, request, copying, Inv, BodiesAreWhole,
       CachedBodyIsWhole, CopyInv
  <1>3. NothingIsLeftOpen'
    BY DEF CloseReader, StepTo, CloseOnce, Inv, TypeOK, NothingIsLeftOpen, ClosingInv
  <1>4. CopyInv'
    BY DEF CloseReader, StepTo, copying, document, Inv, CopyInv, Before, Copying
  <1>5. MethodInv'
    BY DEF CloseReader, StepTo, request, Inv, MethodInv
  <1>6. ClosingInv'
    BY DEF CloseReader, StepTo, CloseOnce, Inv, TypeOK, ClosingInv, Before
  <1>7. LateInv'
    BY DEF CloseReader, StepTo, request, document, Inv, LateInv
  <1> QED
    BY <1>1, <1>2, <1>3, <1>4, <1>5, <1>6, <1>7 DEF Inv

(* The goroutine ends, perhaps after closing the blob. *)
LEMMA WatchInv == ASSUME Inv, NEW r \in Request, Watch(r) PROVE Inv'
  <1>1. TypeOK'
    BY DEF Watch, CloseOnce, document, request, copying, Inv, TypeOK
  <1>2. BodiesAreWhole'
    BY DEF Watch, document, request, copying, Inv, BodiesAreWhole, CachedBodyIsWhole
  <1>3. NothingIsLeftOpen'
    BY DEF Watch, CloseOnce, Inv, TypeOK, NothingIsLeftOpen
  <1>4. CopyInv'
    BY DEF Watch, document, copying, Inv, CopyInv
  <1>5. MethodInv'
    BY DEF Watch, request, Inv, MethodInv
  <1>6. ClosingInv'
    BY DEF Watch, CloseOnce, Inv, TypeOK, ClosingInv
  <1>7. LateInv'
    BY DEF Watch, document, request, Inv, LateInv
  <1> QED
    BY <1>1, <1>2, <1>3, <1>4, <1>5, <1>6, <1>7 DEF Inv

(* The context ends. *)
LEMMA CancelInv == ASSUME Inv, NEW r \in Request, Cancel(r) PROVE Inv'
  <1>1. TypeOK'
    BY DEF Cancel, document, copying, closing, Inv, TypeOK
  <1>2. BodiesAreWhole'
    BY DEF Cancel, document, copying, Inv, BodiesAreWhole, CachedBodyIsWhole
  <1>3. NothingIsLeftOpen'
    BY DEF Cancel, closing, Inv, NothingIsLeftOpen
  <1>4. CopyInv'
    BY DEF Cancel, document, copying, Inv, CopyInv
  <1>5. MethodInv'
    BY DEF Cancel, Inv, MethodInv
  <1>6. ClosingInv'
    BY DEF Cancel, closing, Inv, ClosingInv
  <1>7. LateInv'
    BY DEF Cancel, document, Inv, LateInv
  <1> QED
    BY <1>1, <1>2, <1>3, <1>4, <1>5, <1>6, <1>7 DEF Inv

(* Every step keeps the invariant. *)
LEMMA NextInv == Inv /\ [Next]_vars => Inv'
  <1> SUFFICES ASSUME Inv, [Next]_vars PROVE Inv'
    OBVIOUS
  <1>1. CASE CommitDelete \/ AdvanceEpoch \/ Invalidate \/ RemoveBlob \/ CleanUp \/ Vanish
    BY <1>1, CommitDeleteInv, AdvanceEpochInv, InvalidateInv, RemoveBlobInv, CleanUpInv, VanishInv
  <1>2. ASSUME NEW r \in Request, Handle(r) PROVE Inv'
    BY <1>2, GetMetadataInv, ComputeKeyInv, LookUpInv, KeepMetadataInv, GetDocumentInv, OpenBlobInv,
       BeginStreamInv, BeginReadInv, WriteChunkInv, StopCloseInv, KeepInv, CloseReaderInv DEF Handle
  <1>3. ASSUME NEW r \in Request, Start(r) \/ EndRead(r) \/ Watch(r) \/ Cancel(r) PROVE Inv'
    BY <1>3, StartInv, EndReadInv, WatchInv, CancelInv
  <1>4. CASE UNCHANGED vars
    BY <1>4 DEF vars, document, request, copying, closing, Inv, TypeOK, BodiesAreWhole, CachedBodyIsWhole,
                NothingIsLeftOpen, CopyInv, MethodInv, ClosingInv, LateInv
  <1> QED
    BY <1>1, <1>2, <1>3, <1>4 DEF Next

--------------------------------------------------------------------------------
(* The theorems. *)

(* The inductive invariant holds throughout every execution. *)
THEOREM Invariance == Spec => []Inv
  BY InitInv, NextInv, PTL DEF Spec

(* Every variable keeps its type. *)
THEOREM TypeCorrectness == Spec => []TypeOK
  BY Invariance, PTL DEF Inv

(* However downloads, HEADs, deletes and deadlines interleave, no part of  *)
(* a body is cached, and none is served as the whole.                      *)
THEOREM BodiesStayWhole == Spec => []BodiesAreWhole
  BY Invariance, PTL DEF Inv

(* A handler that has returned leaves neither a blob nor a goroutine.      *)
THEOREM NothingStaysOpen == Spec => []NothingIsLeftOpen
  BY Invariance, PTL DEF Inv

(* A document whose DELETE was answered is never served again.             *)
THEOREM DeletionIsFinal == Spec => []DeletedStaysDeleted
  <1>1. Inv => DeletedStaysDeleted
    BY DEF Inv, LateInv, DeletedStaysDeleted
  <1> QED
    BY <1>1, Invariance, PTL
================================================================================
