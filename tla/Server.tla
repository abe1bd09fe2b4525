--------------------------------- MODULE Server ---------------------------------
(***************************************************************************)
(* One instance of the service from its start to its end: run in           *)
(* cmd/server, the cleanup worker it starts, and the upload requests it    *)
(* serves, which share the pool of database connections and the directory  *)
(* of blobs.                                                               *)
(*                                                                         *)
(* run waits for a signal or for the listener to fail.  After a signal it  *)
(* stops the worker and waits for the connections, for as long as the      *)
(* grace period lasts.  Then it undoes its start in the reverse order: it  *)
(* waits for the worker and closes the pool, which waits for connections   *)
(* in use.  The goroutine of a handler is not waited for: it may outlive   *)
(* the answer that the deadline has given to its client, and the process.  *)
(* The instance may be killed, and the power may fail, at any time.        *)
(*                                                                         *)
(* The handler of an upload writes the blob (module FileStorage) and then  *)
(* commits the row.  Here COMMIT reports truthfully; DocumentStore has the *)
(* requests' whole protocol, ResponseLifecycle the answer.                 *)
(***************************************************************************)
EXTENDS FileStorage

VARIABLES
    main,               \* progress of run
    outcome,            \* why it left the select: drained, forced or failed
    pool,               \* the pool of connections is open or closed
    worker,             \* progress of the worker
    workerStopped,      \* workerCtx is cancelled
    handler,            \* handler[u]: progress of the handler's goroutine
    cancelled,          \* cancelled[u]: its context is cancelled
    connection,         \* connection[u]: what the client has got
    row,                \* row[u]: the row of its document is committed
    powerFailed

process == << main, outcome, pool >>
working == << worker, workerStopped >>
serving == << handler, cancelled, connection, row >>
vars == << storage, process, working, serving, powerFailed >>

Init ==
    /\ StorageInit
    /\ main = "serving" /\ outcome = "none" /\ pool = "open"
    /\ worker = "query" /\ workerStopped = FALSE
    /\ handler = [u \in Upload |-> "idle"]
    /\ cancelled = [u \in Upload |-> FALSE]
    /\ connection = [u \in Upload |-> "none"]
    /\ row = [u \in Upload |-> FALSE]
    /\ powerFailed = FALSE

Ended == main \in {"exited", "killed"}

--------------------------------------------------------------------------------
(* The handler of an upload. *)

Handles(u, from, to) == /\ ~Ended
                        /\ handler[u] = from
                        /\ handler' = [handler EXCEPT ![u] = to]
                        /\ UNCHANGED << process, working, powerFailed >>

(* A connection is accepted while the listener is open. *)
Accept(u) == /\ main = "serving"
             /\ Handles(u, "idle", "put")
             /\ PutTo(u, "idle", "create")
             /\ connection' = [connection EXCEPT ![u] = "open"]
             /\ UNCHANGED << temporary, content, entry, cancelled, row >>

PutStepOf(u) == /\ Handles(u, "put", "put")
                /\ PutNext(u, cancelled[u])
                /\ UNCHANGED << cancelled, connection, row >>

(* An oversized blob is taken back. *)
PutReturns(u) ==
    /\ \/ putStep[u] = "stored" /\ Handles(u, "put", "create")
       \/ putStep[u] = "stored" /\ Handles(u, "put", "undo")
       \/ putStep[u] = "refused" /\ Handles(u, "put", "end")
    /\ UNCHANGED << storage, cancelled, connection, row >>

(* A transaction needs a connection of the pool. *)
BeginCreate(u) ==
    /\ \/ pool = "open" /\ ~cancelled[u] /\ Handles(u, "create", "transaction")
       \/ Handles(u, "create", "undo")
    /\ UNCHANGED << storage, cancelled, connection, row >>

Commit(u) ==
    /\ \/ /\ Handles(u, "transaction", "end")
          /\ row' = [row EXCEPT ![u] = TRUE]
       \/ Handles(u, "transaction", "undo") /\ UNCHANGED row
    /\ UNCHANGED << storage, cancelled, connection >>

(* Mutation: the handler of a client that is gone takes the blob back. *)
TakeBackWhenCancelled(u) ==
    /\ \/ Handles(u, "undo", "end")
       \/ cancelled[u] /\ Handles(u, "end", "end")
    /\ Delete(u) \/ UNCHANGED storage
    /\ UNCHANGED << cancelled, connection, row >>

(* The context does not matter here, and the error is only reported. *)
TakeBack(u) == /\ Handles(u, "undo", "end")
               /\ Delete(u) \/ UNCHANGED storage
               /\ UNCHANGED << cancelled, connection, row >>

(* The deadline passes, or the client is gone. *)
Cancel(u) == /\ ~Ended /\ connection[u] \in {"open", "cut"} /\ ~cancelled[u]
             /\ cancelled' = [cancelled EXCEPT ![u] = TRUE]
             /\ UNCHANGED << storage, process, working, handler, connection, row, powerFailed >>

(* serveHTTP answers for the handler that has returned, or for the         *)
(* deadline, which comes first, and cancels the context.                   *)
Answer(u) ==
    /\ ~Ended /\ connection[u] = "open"
    /\ handler[u] = "end" \/ cancelled[u]
    /\ connection' = [connection EXCEPT ![u] = IF row[u] /\ ~cancelled[u] THEN "ok" ELSE "error"]
    /\ cancelled' = [cancelled EXCEPT ![u] = TRUE]
    /\ UNCHANGED << storage, process, working, handler, row, powerFailed >>

UploadNext(u) == \/ PutStepOf(u) \/ PutReturns(u) \/ BeginCreate(u) \/ Commit(u)
                 \/ TakeBack(u)

--------------------------------------------------------------------------------
(* The cleanup worker, as run sees it: a statement, a removal or a pause.  *)
(* Once it is stopped, what it is at is the last thing it does.            *)

WorkTo(from, to) == /\ ~Ended /\ worker = from /\ worker' = to
                    /\ UNCHANGED << storage, process, workerStopped, serving, powerFailed >>

(* Mutation: the worker does not look at its context. *)
WorkOn == pool = "open" /\ \E from, to \in {"query", "remove", "pause"} : WorkTo(from, to)

Work == \/ ~workerStopped /\ pool = "open" /\ (WorkTo("pause", "query") \/ WorkTo("remove", "query"))
        \/ WorkTo("query", "remove") \/ WorkTo("query", "pause")
        \/ workerStopped /\ \E from \in {"query", "remove", "pause"} : WorkTo(from, "done")

--------------------------------------------------------------------------------
(* run *)

MainTo(from, to) == /\ main = from /\ main' = to
                    /\ UNCHANGED << storage, serving, worker, powerFailed >>

(* The listener fails: run returns, whatever is being served. *)
ListenFails == /\ MainTo("serving", "deferred") /\ outcome' = "failed"
               /\ UNCHANGED << pool, workerStopped >>

Signal == /\ MainTo("serving", "draining") /\ workerStopped' = TRUE
          /\ UNCHANGED << pool, outcome >>

Idle == \A u \in Upload : connection[u] # "open"

(* Mutation: the listener is closed and nobody is waited for. *)
ShutdownAtOnce == /\ MainTo("draining", "deferred") /\ outcome' = "drained"
                  /\ UNCHANGED << pool, workerStopped >>

(* server.Shutdown returns when every connection is idle ... *)
ShutdownReturns == /\ Idle
                   /\ MainTo("draining", "deferred") /\ outcome' = "drained"
                   /\ UNCHANGED << pool, workerStopped >>

(* ... or at the end of the grace period, and server.Close cuts them off.  *)
GraceEnds ==
    /\ main = "draining" /\ main' = "deferred" /\ outcome' = "forced"
    /\ connection' = [u \in Upload |-> IF connection[u] = "open" THEN "cut" ELSE connection[u]]
    /\ UNCHANGED << storage, pool, working, handler, cancelled, row, powerFailed >>

StopWorker == /\ MainTo("deferred", "joining") /\ workerStopped' = TRUE
              /\ UNCHANGED << pool, outcome >>

(* Mutation: run does not wait for workerDone. *)
ClosePoolAtOnce == /\ MainTo("joining", "closing") /\ pool' = "closed"
                   /\ UNCHANGED << outcome, workerStopped >>

ClosePool == /\ worker = "done"
             /\ MainTo("joining", "closing") /\ pool' = "closed"
             /\ UNCHANGED << outcome, workerStopped >>

Borrowed == worker = "query" \/ \E u \in Upload : handler[u] = "transaction"

(* pgxpool.Close returns when every connection has come back. *)
Exit == /\ ~Borrowed
        /\ MainTo("closing", "exited")
        /\ UNCHANGED << pool, outcome, workerStopped >>

RunNext == ShutdownReturns \/ GraceEnds \/ StopWorker \/ ClosePool \/ Exit

(* What the process had in its memory is gone. *)
Die == /\ main' = "killed" /\ outcome' = "none" /\ pool' = "closed"
       /\ worker' = "done" /\ workerStopped' = TRUE
       /\ handler' = [u \in Upload |-> "end"]
       /\ cancelled' = [u \in Upload |-> TRUE]
       /\ UNCHANGED << connection, row >>

(* SIGKILL, a panic outside of a handler, a second signal near the end. *)
Kill == /\ ~Ended /\ Die
        /\ putStep' = [u \in Upload |-> "idle"]
        /\ UNCHANGED << temporary, content, entry, powerFailed >>

PowerFails == /\ ~powerFailed /\ powerFailed' = TRUE
              /\ LosePower
              /\ Die

Flush == /\ ~powerFailed
         /\ FlushDirectory
         /\ UNCHANGED << process, working, serving, powerFailed >>

Next == \/ \E u \in Upload : Accept(u) \/ UploadNext(u) \/ Cancel(u) \/ Answer(u)
        \/ Work
        \/ ListenFails \/ Signal \/ RunNext
        \/ Kill \/ PowerFails \/ Flush

(* run goes on and the grace period ends; a removal of the worker returns, *)
(* and a transaction ends when its context does.  Nothing else is owed: no *)
(* signal or connection has to come, a handler may hang for ever.          *)
Fairness == /\ WF_vars(RunNext)
            /\ WF_vars(Work)
            /\ \A u \in Upload : WF_vars(Commit(u))

Spec == Init /\ [][Next]_vars /\ Fairness

--------------------------------------------------------------------------------
(* Properties *)

(* Type invariant: every variable has values of its kind, and the pool is  *)
(* closed only on the way out.                                             *)
TypeOK ==
    /\ putStep \in [Upload -> PutStep]
    /\ temporary \in [Upload -> BOOLEAN]
    /\ content \in [Upload -> {"none", "partial", "whole", "synced"}]
    /\ entry \in [Upload -> {"absent", "linked", "durable", "removed"}]
    /\ main \in {"serving", "draining", "deferred", "joining", "closing", "exited", "killed"}
    /\ outcome \in {"none", "drained", "forced", "failed"}
    /\ pool \in {"open", "closed"}
    /\ pool = "closed" => main \in {"closing", "exited", "killed"}
    /\ worker \in {"query", "remove", "pause", "done"}
    /\ workerStopped \in BOOLEAN
    /\ handler \in [Upload -> {"idle", "put", "create", "transaction", "undo", "end"}]
    /\ cancelled \in [Upload -> BOOLEAN]
    /\ connection \in [Upload -> {"none", "open", "ok", "error", "cut"}]
    /\ row \in [Upload -> BOOLEAN]
    /\ powerFailed \in BOOLEAN

(* "A hard link publishes the completed temporary file": whatever cuts Put *)
(* off, the power included, a key never names a part of a content.         *)
PublishedBlobIsWhole == \A u \in Upload : Published(u) => content[u] # "partial"

(* A committed document has its blob: through deadlines, a pool closed     *)
(* under a handler, forced exits and kills.  Only a power failure may take *)
(* the name of the blob away, since the directory is not synced.           *)
CommittedBlobIsThere == \A u \in Upload : row[u] => Published(u) \/ powerFailed

(* Shutdown waits for active requests: when it came to its end in time,    *)
(* every request that was accepted has its answer, and a client that was   *)
(* told of success has its document.  A handler that is cut off by the     *)
(* exit had been answered for by its deadline.                             *)
DrainedExitOwesNothing ==
    main = "exited" /\ outcome = "drained" =>
        \A u \in Upload :
            /\ connection[u] \in {"none", "ok", "error"}
            /\ connection[u] = "ok" => row[u] /\ handler[u] = "end"
            /\ handler[u] \notin {"idle", "end"} => connection[u] = "error"

(* The pool outlives its users: the worker never meets a closed pool, and  *)
(* run does not end while a transaction is open, even one of a handler     *)
(* that nobody waits for.                                                  *)
PoolOutlivesItsUsers ==
    /\ pool = "closed" => worker = "done"
    /\ main = "exited" => \A u \in Upload : handler[u] # "transaction"

(* A shutdown comes to its end, however requests hang. *)
ShutdownEnds == main # "serving" ~> Ended
================================================================================
