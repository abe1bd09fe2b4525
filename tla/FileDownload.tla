------------------------------ MODULE FileDownload ------------------------------
(***************************************************************************)
(* GET and HEAD requests for one file document, with the cache of its      *)
(* responses, while the document may be deleted.                           *)
(*                                                                         *)
(* A download copies the blob, chunk by chunk, to the client and, when the *)
(* cache could keep it, to a capture.  The capture has room for the size   *)
(* that the metadata tell; the blob may turn out shorter or longer than    *)
(* that.  A second goroutine closes the blob when the request's context    *)
(* ends, because a read may block until then.                              *)
(* An entry of the cache holds the headers, and all or none of the body.   *)
(* The bounds of the cache are the subject of module MemoryCache, and the  *)
(* answers that are not a 200 or do not come from the handler that of      *)
(* ResponseLifecycle; here a write of a handler is refused after the       *)
(* deadline.                                                               *)
(***************************************************************************)
EXTENDS Naturals

CONSTANTS
    Request,
    Chunks,             \* SizeBytes of the metadata
    Lengths             \* lengths the blob may have

ASSUME DownloadAssumption == Chunks \in Nat /\ Lengths \subseteq Nat

VARIABLES
    fits,               \* EntryFits of this document: its body can be cached
    visible,            \* the row of the document is in the table
    blob,               \* its blob is in the directory
    length,             \* length of the blob
    deleteStep,         \* progress of the delete request
    epoch,              \* handler.cacheEpoch
    cache,              \* entries tagged with the document
    step,               \* step[r]: progress of the handler's goroutine
    head,               \* head[r]: the method is HEAD
    key,                \* key[r]: the epoch in its cache key
    status,             \* status[r]: the handler's answer, 0 before it
    reader,             \* reader[r]: the blob it has opened
    closed,             \* closed[r]: how often the blob was closed
    position,           \* position[r]: chunks read
    captured,           \* captured[r]: chunks captured, if it captures
    overflow,           \* overflow[r]: the capture had no room for a chunk
    sent,               \* sent[r]: chunks sent to the client
    failed,             \* failed[r]: the copy ended with an error
    closer,             \* closer[r]: the goroutine of closeReaderOnCancellation
    cancelled,          \* cancelled[r]: the context has ended
    tooLate             \* history: the delete was answered before r began

document == << fits, visible, blob, length, deleteStep, epoch >>
request == << head, key, cancelled, tooLate >>
copying == << position, captured, overflow, sent, failed >>
closing == << reader, closed, closer >>
vars == << document, cache, step, status, request, copying, closing >>

Init ==
    /\ fits \in BOOLEAN /\ length \in Lengths
    /\ visible = TRUE /\ blob = TRUE /\ deleteStep = "idle" /\ epoch = 0 /\ cache = {}
    /\ step = [r \in Request |-> "idle"]
    /\ head \in [Request -> BOOLEAN]
    /\ key = [r \in Request |-> 0]
    /\ status = [r \in Request |-> 0]
    /\ reader = [r \in Request |-> "none"]
    /\ closed = [r \in Request |-> 0]
    /\ position = [r \in Request |-> 0]
    /\ captured = [r \in Request |-> 0]
    /\ overflow = [r \in Request |-> FALSE]
    /\ sent = [r \in Request |-> 0]
    /\ failed = [r \in Request |-> FALSE]
    /\ closer = [r \in Request |-> "none"]
    /\ cancelled = [r \in Request |-> FALSE]
    /\ tooLate = [r \in Request |-> FALSE]

--------------------------------------------------------------------------------
(* The delete request: commit, epoch, tag, blob, answer. *)

DeleteTo(from, to) == /\ deleteStep = from /\ deleteStep' = to
                      /\ UNCHANGED << fits, length, step, status, request, copying, closing >>

CommitDelete == /\ DeleteTo("idle", "committed") /\ visible' = FALSE
                /\ UNCHANGED << blob, epoch, cache >>

AdvanceEpoch == /\ DeleteTo("committed", "advanced") /\ epoch' = epoch + 1
                /\ UNCHANGED << visible, blob, cache >>

Invalidate == /\ DeleteTo("advanced", "invalidated") /\ cache' = {}
              /\ UNCHANGED << visible, blob, epoch >>

RemoveBlob == /\ DeleteTo("invalidated", "done") /\ blob' = FALSE
              /\ UNCHANGED << visible, epoch, cache >>

(* The cleanup worker may be there first. *)
CleanUp == /\ ~visible /\ blob' = FALSE
           /\ UNCHANGED << fits, visible, length, deleteStep, epoch, cache >>
           /\ UNCHANGED << step, status, request, copying, closing >>

--------------------------------------------------------------------------------
(* A request, up to the answer or to the copy. *)

StepTo(r, from, to) == /\ step[r] = from
                       /\ step' = [step EXCEPT ![r] = to]
                       /\ UNCHANGED document

Answer(r, s) == status' = [status EXCEPT ![r] = s]

Start(r) == /\ StepTo(r, "idle", "metadata")
            /\ tooLate' = [tooLate EXCEPT ![r] = deleteStep = "done"]
            /\ UNCHANGED << cache, status, head, key, cancelled, copying, closing >>

(* Mutation: the query finds deleted documents as well. *)
GetMetadataOfDeleted(r) ==
    /\ \/ StepTo(r, "metadata", "key") /\ UNCHANGED status
       \/ StepTo(r, "metadata", "done") /\ Answer(r, 500)
    /\ UNCHANGED << cache, request, copying, closing >>

(* Access is checked before the cache is asked, and may fail. *)
GetMetadata(r) ==
    /\ \/ visible /\ StepTo(r, "metadata", "key") /\ UNCHANGED status
       \/ ~visible /\ StepTo(r, "metadata", "done") /\ Answer(r, 404)
       \/ StepTo(r, "metadata", "done") /\ Answer(r, 500)
    /\ UNCHANGED << cache, request, copying, closing >>

ComputeKey(r) == /\ StepTo(r, "key", "lookup")
                 /\ key' = [key EXCEPT ![r] = epoch]
                 /\ UNCHANGED << cache, status, head, cancelled, tooLate, copying, closing >>

Found(r) == {e \in cache : e.epoch = key[r]}

(* The cache after Set, for the headers alone ... *)
WithHeaders(r) ==
    (cache \ Found(r)) \cup {[epoch |-> key[r], omitted |-> TRUE, body |-> 0]}

(* ... or with what was captured. *)
WithBody(r) ==
    (cache \ Found(r)) \cup {[epoch |-> key[r], omitted |-> FALSE, body |-> captured[r]]}

(* A HEAD is answered from any entry, a GET from one with the body; what   *)
(* it writes comes to nothing when the deadline has passed.                *)
LookUp(r) ==
    /\ \/ /\ \E e \in Found(r) :
                /\ head[r] \/ ~e.omitted
                /\ sent' = [sent EXCEPT ![r] = IF head[r] \/ cancelled[r] THEN 0 ELSE e.body]
          /\ StepTo(r, "lookup", "done") /\ Answer(r, 200)
       \/ /\ \A e \in Found(r) : ~head[r] /\ e.omitted
          /\ StepTo(r, "lookup", IF head[r] THEN "keep" ELSE "get")
          /\ UNCHANGED << status, sent >>
    /\ UNCHANGED << cache, request, position, captured, overflow, failed, closing >>

(* A HEAD that found nothing makes an entry of the metadata it has, which  *)
(* replaces what a download may have stored by now.                        *)
KeepMetadata(r) ==
    /\ StepTo(r, "keep", "done") /\ Answer(r, 200)
    /\ cache' = WithHeaders(r)
    /\ UNCHANGED << request, copying, closing >>

(* The service looks at the metadata once more ... *)
GetDocument(r) ==
    /\ \/ visible /\ StepTo(r, "get", "open") /\ UNCHANGED status
       \/ ~visible /\ StepTo(r, "get", "done") /\ Answer(r, 404)
       \/ StepTo(r, "get", "done") /\ Answer(r, 500)
    /\ UNCHANGED << cache, request, copying, closing >>

(* ... and opens the blob. *)
OpenBlob(r) ==
    /\ \/ /\ blob /\ StepTo(r, "open", "begin")
          /\ reader' = [reader EXCEPT ![r] = "open"]
          /\ UNCHANGED status
       \/ StepTo(r, "open", "done") /\ Answer(r, 500) /\ UNCHANGED reader
    /\ UNCHANGED << cache, request, copying, closed, closer >>

--------------------------------------------------------------------------------
(* The copy. *)

(* The headers alone are kept when the body would not fit. *)
BeginStream(r) ==
    /\ StepTo(r, "begin", "read")
    /\ cache' = IF fits THEN cache ELSE WithHeaders(r)
    /\ Answer(r, 200)
    /\ closer' = [closer EXCEPT ![r] = "watching"]
    /\ UNCHANGED << request, copying, reader, closed >>

EndCopy(r, from) == /\ StepTo(r, from, "copied")
                    /\ UNCHANGED << position, captured, overflow, sent >>

Fail(r) == failed' = [failed EXCEPT ![r] = TRUE]

(* Every read looks at the context first, ... *)
BeginRead(r) ==
    /\ \/ cancelled[r] /\ EndCopy(r, "read") /\ Fail(r)
       \/ ~cancelled[r] /\ StepTo(r, "read", "reading") /\ UNCHANGED copying
    /\ UNCHANGED << cache, status, request, closing >>

(* ... and then reads, or finds the end, or fails: the more so when the    *)
(* blob is closed meanwhile.                                               *)
EndRead(r) ==
    /\ \/ /\ position[r] < length
          /\ StepTo(r, "reading", "write")
          /\ position' = [position EXCEPT ![r] = @ + 1]
          /\ UNCHANGED << captured, overflow, sent, failed >>
       \/ position[r] = length /\ EndCopy(r, "reading") /\ UNCHANGED failed
       \/ EndCopy(r, "reading") /\ Fail(r)
    /\ UNCHANGED << cache, status, request, closing >>

(* What the capture has room for it keeps, the rest it drops. *)
Capture(r) ==
    \/ ~fits /\ UNCHANGED << captured, overflow >>
    \/ /\ fits /\ captured[r] < Chunks
       /\ captured' = [captured EXCEPT ![r] = @ + 1]
       /\ UNCHANGED overflow
    \/ /\ fits /\ captured[r] = Chunks
       /\ overflow' = [overflow EXCEPT ![r] = TRUE]
       /\ UNCHANGED captured

(* A chunk is sent before it is captured, and may be refused: one that     *)
(* exceeds the declared length, too, by a writer that looks at it.         *)
WriteChunk(r) ==
    /\ \/ /\ StepTo(r, "write", "read")
          /\ sent' = [sent EXCEPT ![r] = @ + 1]
          /\ Capture(r)
          /\ UNCHANGED << position, failed >>
       \/ EndCopy(r, "write") /\ Fail(r)
    /\ UNCHANGED << cache, status, request, closing >>

StopClose(r) == /\ StepTo(r, "copied", "waiting")
                /\ UNCHANGED << cache, status, request, copying, closing >>

(* The end of a copy, when the watching goroutine is gone. *)
KeepIf(r, whole) ==
    /\ StepTo(r, "waiting", "close")
    /\ closer[r] = "finished"
    /\ cache' = IF whole THEN WithBody(r) ELSE cache
    /\ UNCHANGED << status, request, copying, closing >>

(* Mutations: one of the three checks is missing. *)
KeepBrokenOff(r) == KeepIf(r, fits /\ ~overflow[r] /\ captured[r] = Chunks)
KeepCutOff(r) == KeepIf(r, fits /\ ~failed[r] /\ captured[r] = Chunks)
KeepShort(r) == KeepIf(r, fits /\ ~failed[r] /\ ~overflow[r])

(* A body captured whole is kept, whether or not the context has ended by  *)
(* then: the copy ended without an error, the capture had room for it, and *)
(* it is as long as the metadata say.                                      *)
Keep(r) == KeepIf(r, fits /\ ~failed[r] /\ ~overflow[r] /\ captured[r] = Chunks)

(* Mutation: the blob is closed by whoever comes by. *)
CloseAgain(r) == /\ reader' = [reader EXCEPT ![r] = "closed"]
                 /\ closed' = [closed EXCEPT ![r] = @ + 1]

CloseOnce(r) == /\ reader' = [reader EXCEPT ![r] = "closed"]
                /\ closed' = [closed EXCEPT ![r] = IF reader[r] = "closed" THEN @ ELSE @ + 1]

CloseReader(r) == /\ StepTo(r, "close", "done")
                  /\ CloseOnce(r)
                  /\ UNCHANGED << cache, status, request, copying, closer >>

(* Mutation: the goroutine waits for the end of the copy alone. *)
WatchEndOnly(r) ==
    /\ closer[r] = "watching" /\ closer' = [closer EXCEPT ![r] = "finished"]
    /\ step[r] = "waiting" /\ UNCHANGED << reader, closed >>
    /\ UNCHANGED << document, cache, step, status, request, copying >>

(* closeReaderOnCancellation: whichever comes first. *)
Watch(r) ==
    /\ closer[r] = "watching" /\ closer' = [closer EXCEPT ![r] = "finished"]
    /\ \/ cancelled[r] /\ CloseOnce(r)
       \/ step[r] = "waiting" /\ UNCHANGED << reader, closed >>
    /\ UNCHANGED << document, cache, step, status, request, copying >>

(* The deadline, or the client's departure. *)
Cancel(r) ==
    /\ step[r] \notin {"idle", "done"} /\ ~cancelled[r]
    /\ cancelled' = [cancelled EXCEPT ![r] = TRUE]
    /\ UNCHANGED << document, cache, step, status, head, key, tooLate, copying, closing >>

(* An entry expires, gives way to others, or was not kept for its size. *)
Vanish ==
    /\ \E e \in cache : cache' = cache \ {e}
    /\ UNCHANGED << document, step, status, request, copying, closing >>

--------------------------------------------------------------------------------

Handle(r) == \/ GetMetadata(r) \/ ComputeKey(r) \/ LookUp(r) \/ KeepMetadata(r) \/ GetDocument(r) \/ OpenBlob(r)
             \/ BeginStream(r) \/ BeginRead(r) \/ WriteChunk(r)
             \/ StopClose(r) \/ Keep(r) \/ CloseReader(r)

Next == \/ CommitDelete \/ AdvanceEpoch \/ Invalidate \/ RemoveBlob \/ CleanUp \/ Vanish
        \/ \E r \in Request : Start(r) \/ Handle(r) \/ EndRead(r) \/ Watch(r) \/ Cancel(r)

Spec == Init /\ [][Next]_vars

(* Goroutines are scheduled, the calls they make on the database and the   *)
(* connection end with the context or the write timeout, and the deadline  *)
(* passes.  A read of an open blob may block for ever.                     *)
FairSpec ==
    /\ Spec
    /\ \A r \in Request :
          /\ WF_vars(Handle(r))
          /\ WF_vars(Watch(r))
          /\ WF_vars(Cancel(r))
          /\ WF_vars(reader[r] = "closed" /\ EndRead(r))

--------------------------------------------------------------------------------
(* Properties *)

Steps == {"idle", "metadata", "key", "lookup", "keep", "get", "open", "begin", "read", "reading",
          "write", "copied", "waiting", "close", "done"}

(* Every variable has values of its kind, no more is captured than the     *)
(* metadata tell, and there is at most one entry for a key.                *)
TypeOK ==
    /\ fits \in BOOLEAN /\ visible \in BOOLEAN /\ blob \in BOOLEAN
    /\ deleteStep \in {"idle", "committed", "advanced", "invalidated", "done"}
    /\ epoch \in 0..1
    /\ length \in Nat
    /\ cache \subseteq [epoch : 0..1, omitted : BOOLEAN, body : 0..Chunks]
    /\ \A e, f \in cache : e.epoch = f.epoch => e = f
    /\ step \in [Request -> Steps]
    /\ head \in [Request -> BOOLEAN]
    /\ key \in [Request -> 0..1]
    /\ status \in [Request -> {0, 200, 404, 500}]
    /\ reader \in [Request -> {"none", "open", "closed"}]
    /\ closed \in [Request -> Nat]
    /\ position \in [Request -> 0..length]
    /\ captured \in [Request -> 0..Chunks]
    /\ overflow \in [Request -> BOOLEAN]
    /\ sent \in [Request -> 0..length]
    /\ failed \in [Request -> BOOLEAN]
    /\ closer \in [Request -> {"none", "watching", "finished"}]
    /\ cancelled \in [Request -> BOOLEAN]
    /\ tooLate \in [Request -> BOOLEAN]

(* A body in the cache is the whole blob, and as long as its metadata tell, *)
(* however the download that made it ended: the beginning of a blob that is *)
(* longer, or all of one that is shorter, is not kept (read_handler.go:153, *)
(* 179-200).                                                               *)
CachedBodyIsWhole ==
    \A e \in cache : IF e.omitted THEN e.body = 0 ELSE e.body = Chunks /\ Chunks = length

(* A GET that answers 200, and whose copy neither failed nor was overtaken *)
(* by the end of its context, has sent the whole blob, from the directory  *)
(* or from the cache: an entry made for HEAD is never enough, and no entry *)
(* has a part of the body only.                                            *)
BodiesAreWhole ==
    /\ CachedBodyIsWhole
    /\ \A r \in Request :
          step[r] = "done" /\ ~head[r] /\ status[r] = 200 /\ ~failed[r] /\ ~cancelled[r]
              => sent[r] = length

(* When the handler returns, the blob it opened has been closed exactly    *)
(* once, by itself or by the goroutine that watches the context, and that  *)
(* goroutine has ended (read_handler.go:247-289).                          *)
NothingIsLeftOpen ==
    \A r \in Request :
        step[r] = "done" =>
            /\ reader[r] # "open"
            /\ closed[r] = IF reader[r] = "none" THEN 0 ELSE 1
            /\ closer[r] # "watching"

(* After the answer to a DELETE, no request that comes later is answered   *)
(* with the document: not by a cached body, not by the entry a slower      *)
(* download stores only then, not by a HEAD.                               *)
DeletedStaysDeleted == \A r \in Request : tooLate[r] => status[r] # 200

(* A download ends, even when the blob cannot be read any more: the end of *)
(* its context closes the blob under the blocked read.                     *)
DownloadEnds == \A r \in Request : step[r] = "metadata" ~> step[r] = "done"
================================================================================
