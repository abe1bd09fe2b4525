--------------------------- MODULE ResponseLifecycle ---------------------------
(***************************************************************************)
(* One HTTP request between three actors: the goroutine that runs the      *)
(* route's handler, the goroutine of net/http that waits for it, and the   *)
(* processing deadline.  The response is buffered until the handler        *)
(* returns, unless the handler starts streaming it; the deadline may take  *)
(* it over at any time, while the handler goes on running.                 *)
(*                                                                         *)
(* A handler is any sequence of calls on its ResponseWriter, and each call *)
(* is as many steps as it has reads and writes another goroutine can come  *)
(* between.  The chunks a handler writes are numbered; the JSON bodies of  *)
(* the two errors are known by their codes.  Headers other than the status *)
(* are left out.                                                           *)
(***************************************************************************)
EXTENDS Naturals, Sequences

CONSTANT MaxWrites      \* chunks a handler writes at most

ASSUME WritesAssumption == MaxWrites \in Nat /\ MaxWrites < 500

VARIABLES
    head,               \* the method is HEAD
    deadline,           \* timeoutDone is closed
    state,              \* observedResponse.state
    status,             \* observedResponse.status
    wroteHeader,        \* observedResponse.wroteHeader
    body,               \* observedResponse.body
    streamMu,           \* observedResponse.streamMu is held
    wire,               \* what reached the client
    handlerStep,        \* progress of the handler's goroutine
    code,               \* the argument of its WriteHeader
    serverStep,         \* progress of serveHTTP
    timedOut,           \* serveHTTP.timedOut
    logged,             \* the status serveHTTP logs and counts
    asked               \* history: the response the handler asked for

response == << state, status, wroteHeader, body >>
handling == << handlerStep, code, asked >>
serving == << serverStep, timedOut, logged >>
vars == << head, deadline, response, streamMu, wire, handling, serving >>

Empty == [status |-> 0, body |-> << >>]

Init ==
    /\ head \in BOOLEAN /\ deadline = FALSE
    /\ state = "pending" /\ status = 0 /\ wroteHeader = FALSE /\ body = << >>
    /\ streamMu = FALSE /\ wire = Empty
    /\ handlerStep = "run" /\ code = 0 /\ asked = Empty
    /\ serverStep = "select" /\ timedOut = FALSE /\ logged = 0

(* The processing deadline passes, or the client is gone. *)
DeadlinePasses == /\ ~deadline /\ deadline' = TRUE
                  /\ UNCHANGED << head, response, streamMu, wire, handling, serving >>

OrDefault(s) == IF s = 0 THEN 200 ELSE s

(* net/http sends the first status it is given. *)
Send(s, b) == wire' = [status |-> IF wire.status = 0 THEN s ELSE wire.status,
                       body |-> wire.body \o (IF head THEN << >> ELSE b)]

--------------------------------------------------------------------------------
(* The handler's calls. *)

HandlerTo(from, to) == /\ handlerStep = from
                       /\ handlerStep' = to
                       /\ UNCHANGED << head, deadline, serving >>

FirstStatus(s) ==
    asked' = [asked EXCEPT !.status = IF asked.status = 0 THEN s ELSE asked.status]

(* WriteHeader: the first status counts, and none after the deadline. *)
WriteHeader(s) ==
    /\ \/ /\ deadline \/ wroteHeader
          /\ HandlerTo("run", "run")
          /\ UNCHANGED code
       \/ /\ ~deadline /\ ~wroteHeader
          /\ HandlerTo("run", "header")
          /\ code' = s
    /\ FirstStatus(s)
    /\ UNCHANGED << response, streamMu, wire >>

(* The status is stored some time after the deadline was looked at. *)
StoreStatus ==
    /\ HandlerTo("header", "run") \/ HandlerTo("defaultHeader", "buffer")
    /\ status' = code /\ wroteHeader' = TRUE
    /\ UNCHANGED << state, body, streamMu, wire, code, asked >>

Write ==
    LET chunk == Len(asked.body) + 1 IN
    /\ chunk <= MaxWrites
    /\ asked' = [status |-> OrDefault(asked.status), body |-> Append(asked.body, chunk)]
    /\ \/ deadline /\ HandlerTo("run", "run")
       \/ ~deadline /\ ~wroteHeader /\ HandlerTo("run", "default")
       \/ ~deadline /\ wroteHeader /\ HandlerTo("run", "buffer")
    /\ UNCHANGED << response, streamMu, wire, code >>

(* Write without WriteHeader before: the status is 200. *)
DefaultHeader ==
    /\ \/ deadline /\ HandlerTo("default", "buffer") /\ UNCHANGED code
       \/ ~deadline /\ HandlerTo("default", "defaultHeader") /\ code' = 200
    /\ UNCHANGED << response, streamMu, wire, asked >>

(* A chunk is buffered while the response is pending, refused once the     *)
(* deadline has taken it over, and sent while it streams.                  *)
BufferChunk ==
    /\ \/ /\ head \/ state \in {"timedOut", "streamingTimedOut"}
          /\ HandlerTo("buffer", "run")
          /\ UNCHANGED body
       \/ /\ ~head /\ state = "pending"
          /\ HandlerTo("buffer", "run")
          /\ body' = Append(body, Len(asked.body))
       \/ /\ ~head /\ state = "streaming"
          /\ HandlerTo("buffer", "stream")
          /\ UNCHANGED body
    /\ UNCHANGED << state, status, wroteHeader, streamMu, wire, code, asked >>

(* Mutation: the state seen before the lock is trusted after it. *)
StreamChunkUnchecked == /\ ~streamMu /\ streamMu' = TRUE
                        /\ HandlerTo("stream", "sending")
                        /\ UNCHANGED << response, wire, code, asked >>

StreamChunk ==
    /\ ~streamMu
    /\ \/ /\ state = "streaming" /\ ~deadline
          /\ HandlerTo("stream", "sending")
          /\ streamMu' = TRUE
       \/ /\ state # "streaming" \/ deadline
          /\ HandlerTo("stream", "run")
          /\ UNCHANGED streamMu
    /\ UNCHANGED << response, wire, code, asked >>

SendChunk == /\ HandlerTo("sending", "run")
             /\ Send(200, << Len(asked.body) >>)
             /\ streamMu' = FALSE
             /\ UNCHANGED << response, code, asked >>

(* Mutation: a missing unlock on the early return. *)
StartStreamingKeepsLock ==
    /\ ~streamMu /\ streamMu' = TRUE
    /\ IF deadline THEN HandlerTo("run", "run") ELSE HandlerTo("run", "swap")
    /\ UNCHANGED << response, wire, code, asked >>

(* startStreaming does nothing after the deadline. *)
StartStreaming == /\ ~streamMu /\ ~deadline /\ streamMu' = TRUE
                  /\ HandlerTo("run", "swap")
                  /\ UNCHANGED << response, wire, code, asked >>

(* Only a pending response starts to stream; the mutex is held until its   *)
(* first bytes are sent.                                                   *)
SwapToStreaming ==
    /\ \/ /\ state = "pending" /\ state' = "streaming"
          /\ HandlerTo("swap", "flush")
          /\ UNCHANGED streamMu
       \/ /\ state # "pending" /\ UNCHANGED state
          /\ HandlerTo("swap", "run")
          /\ streamMu' = FALSE
    /\ UNCHANGED << status, wroteHeader, body, wire, code, asked >>

FlushBuffer == /\ HandlerTo("flush", "run")
               /\ status' = OrDefault(status) /\ wroteHeader' = TRUE
               /\ asked' = [asked EXCEPT !.status = OrDefault(@)]
               /\ Send(status', body)
               /\ body' = << >> /\ streamMu' = FALSE
               /\ UNCHANGED << state, code >>

Return == /\ HandlerTo("run", "returned") \/ HandlerTo("run", "panicked")
          /\ UNCHANGED << response, streamMu, wire, code, asked >>

--------------------------------------------------------------------------------
(* serveHTTP. *)

ServerTo(from, to) == /\ serverStep = from
                      /\ serverStep' = to
                      /\ UNCHANGED << head, handling >>

Quiet == UNCHANGED << response, streamMu, wire >>

(* The handler has returned. *)
HandlerDone == /\ handlerStep \in {"returned", "panicked"}
               /\ ServerTo("select", "boundary")
               /\ UNCHANGED << deadline, timedOut, logged >> /\ Quiet

(* The deadline wins the race with the handler's return. *)
DeadlineFirst == /\ deadline /\ timedOut' = TRUE
                 /\ ServerTo("select", "expire")
                 /\ UNCHANGED << deadline, logged >> /\ Quiet

(* Mutation: a handler that has returned is not asked for the time. *)
BoundaryIgnoresDeadline ==
    /\ ServerTo("boundary", IF handlerStep = "panicked" THEN "replace" ELSE "finish")
    /\ UNCHANGED << deadline, timedOut, logged >> /\ Quiet

(* The deadline is preferred when both have happened. *)
Boundary ==
    /\ \/ deadline /\ ServerTo("boundary", "expire") /\ timedOut' = TRUE
       \/ /\ ~deadline /\ UNCHANGED timedOut
          /\ ServerTo("boundary", IF handlerStep = "panicked" THEN "replace" ELSE "finish")
    /\ UNCHANGED << deadline, logged >> /\ Quiet

(* replaceWithInternalError: a pending response is emptied, and the error  *)
(* written to it by the calls a handler would make.                        *)
Replace ==
    /\ \/ state # "pending" /\ ServerTo("replace", "finish")
          /\ UNCHANGED << status, wroteHeader, body >>
       \/ state = "pending" /\ ServerTo("replace", "errorHeader")
          /\ status' = 0 /\ wroteHeader' = FALSE /\ body' = << >>
    /\ UNCHANGED << state, streamMu, wire, deadline, timedOut, logged >>

ErrorHeader ==
    /\ ServerTo("errorHeader", "errorBody")
    /\ IF deadline THEN UNCHANGED << status, wroteHeader >>
                   ELSE status' = 500 /\ wroteHeader' = TRUE
    /\ UNCHANGED << state, body, streamMu, wire, deadline, timedOut, logged >>

ErrorBody ==
    /\ ServerTo("errorBody", "finish")
    /\ body' = IF deadline \/ head THEN body ELSE << 500 >>
    /\ UNCHANGED << state, status, wroteHeader, streamMu, wire, deadline, timedOut, logged >>

(* A pending response is sent whole; a streamed one has been sent. *)
Finish ==
    /\ ~streamMu /\ ServerTo("finish", "log")
    /\ \/ /\ state = "pending" /\ state' = "completed"
          /\ status' = OrDefault(status) /\ wroteHeader' = TRUE
          /\ Send(status', body) /\ body' = << >>
       \/ state # "pending" /\ UNCHANGED << response, wire >>
    /\ UNCHANGED << streamMu, deadline, timedOut, logged >>

(* Mutation: the timeout does not ask whether the response has begun. *)
ExpireAlways == /\ ServerTo("expire", "timeout") /\ state' = "timedOut"
                /\ UNCHANGED << status, wroteHeader, body, streamMu, wire, deadline,
                                timedOut, logged >>

(* timeout: whoever swaps the state first owns a pending response. *)
Expire ==
    /\ \/ state = "pending" /\ state' = "timedOut" /\ ServerTo("expire", "timeout")
       \/ state # "pending" /\ UNCHANGED state /\ ServerTo("expire", "cut")
    /\ UNCHANGED << status, wroteHeader, body, streamMu, wire, deadline, timedOut, logged >>

AnswerTimeout ==
    /\ ~streamMu /\ ServerTo("timeout", "log")
    /\ status' = 503 /\ Send(503, << 503 >>)
    /\ UNCHANGED << state, wroteHeader, body, streamMu, deadline, timedOut, logged >>

(* A stream that has begun is cut, without a word. *)
CutStream ==
    /\ ~streamMu /\ ServerTo("cut", "log")
    /\ state' = IF state = "streaming" THEN "streamingTimedOut" ELSE state
    /\ UNCHANGED << status, wroteHeader, body, streamMu, wire, deadline, timedOut, logged >>

(* The request is logged and its context cancelled. *)
Log == /\ ServerTo("log", "ended")
       /\ logged' = OrDefault(status) /\ deadline' = TRUE
       /\ UNCHANGED timedOut /\ Quiet

--------------------------------------------------------------------------------
HandlerHoldingLock == SendChunk \/ SwapToStreaming \/ FlushBuffer

HandlerNext == \/ \E s \in {200, 404} : WriteHeader(s)
               \/ StoreStatus \/ Write \/ DefaultHeader \/ BufferChunk
               \/ StreamChunk \/ StartStreaming \/ HandlerHoldingLock \/ Return

ServerNext == \/ HandlerDone \/ DeadlineFirst \/ Boundary
              \/ Replace \/ ErrorHeader \/ ErrorBody \/ Finish
              \/ Expire \/ AnswerTimeout \/ CutStream \/ Log

Next == DeadlinePasses \/ HandlerNext \/ ServerNext

Spec == Init /\ [][Next]_vars

(* Nothing is asked of a handler except that its writes to the connection  *)
(* end, which the server's WriteTimeout sees to.                           *)
FairSpec == /\ Spec
            /\ WF_vars(DeadlinePasses) /\ WF_vars(ServerNext)
            /\ WF_vars(HandlerHoldingLock)

--------------------------------------------------------------------------------
(* Properties. *)

Body == Seq(1..MaxWrites \cup {500, 503})
Status == {0, 200, 404, 500, 503}

(* Type invariant: the mutex is held only in the handler's critical steps. *)
TypeOK ==
    /\ head \in BOOLEAN /\ deadline \in BOOLEAN
    /\ state \in {"pending", "streaming", "completed", "timedOut", "streamingTimedOut"}
    /\ status \in Status /\ code \in Status /\ logged \in Status
    /\ wroteHeader \in BOOLEAN /\ timedOut \in BOOLEAN
    /\ body \in Body
    /\ wire \in [status : Status, body : Body]
    /\ asked \in [status : Status, body : Body]
    /\ handlerStep \in {"run", "header", "default", "defaultHeader", "buffer", "stream",
                        "sending", "swap", "flush", "returned", "panicked"}
    /\ serverStep \in {"select", "boundary", "replace", "errorHeader", "errorBody",
                       "finish", "expire", "timeout", "cut", "log", "ended"}
    /\ streamMu \in BOOLEAN /\ (streamMu <=> handlerStep \in {"sending", "swap", "flush"})

(* The client never receives the mixture of two responses: the timeout or  *)
(* the internal error is all there is, or what there is was written by the *)
(* handler, in its order and without gaps, under the handler's status.     *)
(* After a panic there may also be a status without a body, when the       *)
(* deadline comes before the answer to it.                                 *)
WireIsOneResponse ==
    \/ wire = Empty
    \/ wire \in {[status |-> s, body |-> IF head THEN << >> ELSE << s >>] : s \in {500, 503}}
    \/ /\ wire.status = OrDefault(asked.status)
       /\ Len(wire.body) <= Len(asked.body)
       /\ \A i \in 1..Len(wire.body) : wire.body[i] = asked.body[i]
    \/ handlerStep = "panicked" /\ wire.body = << >>

(* Once serveHTTP has given the connection back to net/http, a handler     *)
(* that is still running writes nothing more to it.                        *)
NoWriteAfterEnd == [][serverStep = "ended" => UNCHANGED wire]_vars

(* A request ends, whether its handler does or not. *)
RequestEnds == <>(serverStep = "ended")

(* A request that is reported neither as timed out nor as a panic was      *)
(* answered with everything its handler wrote: no write is refused because *)
(* of the deadline and the rest passed off as a complete response.         *)
CompletedResponseIsWhole ==
    serverStep = "ended" /\ ~timedOut /\ handlerStep = "returned" =>
        /\ wire.status = OrDefault(asked.status)
        /\ ~head => wire.body = asked.body

(* What is logged and counted is what was sent, except that a handler that *)
(* runs on after the timeout may still overwrite the status of a 503.      *)
LoggedStatusIsSent ==
    serverStep = "ended" => logged = wire.status \/ (timedOut /\ wire.status = 503)

(* The client and the log are told the same, and the truth: a response     *)
(* that counts as completed is whole.                                      *)
ReportIsTrue == CompletedResponseIsWhole /\ LoggedStatusIsSent

(* A panic before the response has begun is answered with the internal     *)
(* error.                                                                  *)
PanicIsReported ==
    serverStep = "ended" /\ handlerStep = "panicked" /\ state = "completed" =>
        wire.status = 500
================================================================================
