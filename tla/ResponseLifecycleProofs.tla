------------------------- MODULE ResponseLifecycleProofs -------------------------
(***************************************************************************)
(* What ResponseLifecycle promises of a response, for handlers of any      *)
(* number of writes.  The argument: the state word decides who may write   *)
(* to the connection, and as long as the deadline has not been seen the    *)
(* response holds everything its handler has asked for.                    *)
(***************************************************************************)
EXTENDS ResponseLifecycle, SequenceTheorems, TLAPS

--------------------------------------------------------------------------------
(* The inductive invariant. *)

HandlerOver == handlerStep \in {"returned", "panicked"}

(* Who has taken the response, by the progress of serveHTTP and of the     *)
(* handler.                                                                *)
OwnerInv ==
    /\ timedOut => deadline
    /\ serverStep \in {"expire", "timeout", "cut"} => timedOut
    /\ serverStep \in {"select", "boundary", "replace", "errorHeader", "errorBody",
                       "finish"} => ~timedOut
    /\ serverStep \in {"boundary", "replace", "errorHeader", "errorBody", "finish"} =>
          HandlerOver
    /\ serverStep \in {"replace", "errorHeader", "errorBody"} => handlerStep = "panicked"
    /\ serverStep \in {"select", "boundary", "replace", "finish", "expire"} =>
          state \in {"pending", "streaming"}
    /\ serverStep \in {"errorHeader", "errorBody"} => state = "pending"
    /\ serverStep = "timeout" => state = "timedOut"
    /\ serverStep = "cut" => state = "streaming"
    /\ serverStep \in {"log", "ended"} =>
          /\ handlerStep \notin {"sending", "flush"}
          /\ timedOut => state \in {"timedOut", "streamingTimedOut"}
          /\ ~timedOut => HandlerOver /\ state \in {"completed", "streaming"}
    /\ handlerStep \in {"flush", "sending"} => state = "streaming"
    /\ handlerStep = "stream" => state \in {"streaming", "streamingTimedOut"}

(* The buffer holds, or the client has got, what the handler asked for. *)
Replacing == handlerStep = "panicked" /\ serverStep \in {"errorHeader", "errorBody", "finish"}

Own == state = "streaming" \/ state = "streamingTimedOut" \/ (state = "pending" /\ ~Replacing)

StatusUnderWay == handlerStep \in {"header", "default", "defaultHeader"}

ChunkUnderWay == handlerStep \in {"default", "defaultHeader", "buffer", "stream", "sending"}

(* Nothing has been refused so far: the handler's last look at the         *)
(* deadline, or its return before the last look of serveHTTP, came first.  *)
Settled == \/ ~deadline
           \/ handlerStep \in {"swap", "flush"}
           \/ serverStep \in {"finish", "log", "ended"} /\ ~timedOut /\ handlerStep = "returned"

NumberedInv ==
    /\ Len(asked.body) <= MaxWrites
    /\ ChunkUnderWay => asked.body # << >>
    /\ \A i \in 1..Len(asked.body) : asked.body[i] = i
    /\ Own => \A i \in 1..Len(body) : body[i] = i
    /\ Own => \A i \in 1..Len(wire.body) : wire.body[i] = i

LengthInv == Own =>
    /\ head => body = << >> /\ wire.body = << >>
    /\ Len(wire.body) + Len(body) <= Len(asked.body)
    /\ ~head /\ ChunkUnderWay => Len(wire.body) + Len(body) + 1 = Len(asked.body)
    /\ ~head /\ ~ChunkUnderWay /\ Settled => Len(wire.body) + Len(body) = Len(asked.body)

(* The status, until it is sent. *)
StatusInv ==
    /\ StatusUnderWay /\ state = "pending" => ~wroteHeader /\ status = 0
    /\ handlerStep = "header" => code # 0 /\ code = asked.status
    /\ handlerStep = "default" => asked.status = 200
    /\ handlerStep = "defaultHeader" => asked.status = 200 /\ code = 200
    /\ /\ (state = "pending" /\ ~Replacing) \/ handlerStep = "flush"
       /\ ~StatusUnderWay /\ Settled
       => status = asked.status /\ (wroteHeader <=> status # 0)

(* The connection, by the state of the response. *)
WireInv ==
    /\ state = "pending" \/ handlerStep = "flush" \/ serverStep = "timeout" => wire = Empty
    /\ state \in {"streaming", "streamingTimedOut"} /\ handlerStep # "flush" =>
          /\ body = << >> /\ wroteHeader /\ ~StatusUnderWay
          /\ wire.status # 0 /\ wire.status = status /\ wire.status = asked.status
    /\ state = "timedOut" /\ serverStep # "timeout" =>
          wire = [status |-> 503, body |-> IF head THEN << >> ELSE << 503 >>]

(* The internal error, from the panic to its being sent. *)
ErrorInv ==
    /\ serverStep = "errorHeader" => status = 0 /\ body = << >>
    /\ serverStep = "errorBody" => status \in {0, 500} /\ body = << >>
    /\ serverStep = "errorBody" /\ status = 0 => deadline
    /\ serverStep = "finish" /\ handlerStep = "panicked" /\ state = "pending" =>
          body = << >> \/ (body = << 500 >> /\ status = 500 /\ ~head)

(* What is there when serveHTTP is through. *)
EndInv ==
    /\ state = "completed" =>
          /\ serverStep \in {"log", "ended"}
          /\ wire.status = status /\ status # 0
          /\ handlerStep = "returned" => /\ wire.status = OrDefault(asked.status)
                                         /\ wire.body = IF head THEN << >> ELSE asked.body
          /\ handlerStep = "panicked" =>
                wire.body = << >> \/ (wire.body = << 500 >> /\ wire.status = 500 /\ ~head)
    /\ serverStep = "ended" => logged = wire.status \/ (timedOut /\ wire.status = 503)

ResponseInv == /\ TypeOK /\ OwnerInv /\ NumberedInv /\ LengthInv
               /\ StatusInv /\ WireInv /\ ErrorInv /\ EndInv

--------------------------------------------------------------------------------
(* Bodies: the errors' bodies, a body with a chunk more, and two in a row. *)
LEMMA BodyFacts ==
    /\ << >> \in Body /\ << 500 >> \in Body /\ << 503 >> \in Body
    /\ \A b, c \in Body : b \o c \in Body
    /\ \A b \in Body, n \in 1..MaxWrites : Append(b, n) \in Body /\ << n >> \in Body
  BY DEF Body

(* Nothing has been asked for, buffered or sent. *)
LEMMA InitInv == Init => ResponseInv
  <1> SUFFICES ASSUME Init PROVE ResponseInv
    OBVIOUS
  <1>1. TypeOK
    BY BodyFacts DEF Init, TypeOK, Status, Empty
  <1>2. OwnerInv /\ StatusInv /\ WireInv /\ ErrorInv /\ EndInv
    BY DEF Init, OwnerInv, StatusInv, WireInv, ErrorInv, EndInv, Replacing, Settled,
           StatusUnderWay, HandlerOver, Empty
  <1>3. NumberedInv /\ LengthInv
    BY WritesAssumption DEF Init, NumberedInv, LengthInv, Own, Replacing, ChunkUnderWay,
                            Settled, Empty
  <1> QED
    BY <1>1, <1>2, <1>3 DEF ResponseInv

--------------------------------------------------------------------------------
(* The deadline and the steps of the handler. *)

(* The deadline may pass at any time: what is settled later than it only
   shrinks. *)
LEMMA DeadlinePassesKeepsInv ==
    ASSUME ResponseInv, DeadlinePasses PROVE ResponseInv'
  <1> USE DEF ResponseInv, DeadlinePasses, response, serving, handling
  <1>1. TypeOK'
    BY DEF TypeOK
  <1>2. OwnerInv'
    BY DEF TypeOK, OwnerInv, HandlerOver, WireInv
  <1>3. NumberedInv' /\ LengthInv'
    BY DEF TypeOK, OwnerInv, NumberedInv, LengthInv, WireInv, Own, Replacing,
           ChunkUnderWay, Settled, HandlerOver, Empty
  <1>4. StatusInv' /\ WireInv'
    BY DEF TypeOK, OwnerInv, StatusInv, WireInv, StatusUnderWay, Replacing, Settled,
           HandlerOver, Empty
  <1>5. ErrorInv'
    BY DEF TypeOK, OwnerInv, ErrorInv, HandlerOver
  <1>6. EndInv'
    BY DEF TypeOK, OwnerInv, WireInv, EndInv, HandlerOver, StatusUnderWay
  <1> QED
    BY <1>1, <1>2, <1>3, <1>4, <1>5, <1>6

(* A first status is on its way to the response; a later one is ignored. *)
LEMMA WriteHeaderKeepsInv ==
    ASSUME ResponseInv, NEW s \in {200, 404}, WriteHeader(s) PROVE ResponseInv'
  <1> USE DEF ResponseInv, WriteHeader, response, HandlerTo, serving, FirstStatus
  <1>1. TypeOK'
    BY DEF TypeOK, Status
  <1>2. OwnerInv'
    BY DEF TypeOK, OwnerInv, HandlerOver, WireInv
  <1>3. NumberedInv' /\ LengthInv'
    BY DEF TypeOK, OwnerInv, NumberedInv, LengthInv, WireInv, Own, Replacing,
           ChunkUnderWay, Settled, HandlerOver, Empty
  <1>4. StatusInv' /\ WireInv'
    BY DEF TypeOK, OwnerInv, StatusInv, WireInv, StatusUnderWay, Replacing, Settled,
           HandlerOver, Empty
  <1>5. ErrorInv'
    BY DEF TypeOK, OwnerInv, ErrorInv, HandlerOver
  <1>6. EndInv'
    BY DEF TypeOK, OwnerInv, WireInv, EndInv, HandlerOver, StatusUnderWay
  <1> QED
    BY <1>1, <1>2, <1>3, <1>4, <1>5, <1>6

(* The status arrives, also when the deadline has passed since: then the
   response may be the timeout's already. *)
LEMMA StoreStatusKeepsInv ==
    ASSUME ResponseInv, StoreStatus PROVE ResponseInv'
  <1> USE DEF ResponseInv, StoreStatus, response, HandlerTo, serving
  <1>1. TypeOK'
    BY DEF TypeOK
  <1>2. OwnerInv'
    BY DEF TypeOK, OwnerInv, HandlerOver, WireInv
  <1>3. NumberedInv' /\ LengthInv'
    BY DEF TypeOK, OwnerInv, NumberedInv, LengthInv, WireInv, Own, Replacing,
           ChunkUnderWay, Settled, HandlerOver, Empty
  <1>4. StatusInv' /\ WireInv'
    BY DEF TypeOK, OwnerInv, StatusInv, WireInv, StatusUnderWay, Replacing, Settled,
           HandlerOver, Empty
  <1>5. ErrorInv'
    BY DEF TypeOK, OwnerInv, ErrorInv, HandlerOver
  <1>6. EndInv'
    BY DEF TypeOK, OwnerInv, WireInv, EndInv, HandlerOver, StatusUnderWay
  <1> QED
    BY <1>1, <1>2, <1>3, <1>4, <1>5, <1>6

(* A chunk is asked for: it is under way, or refused because of the deadline. *)
LEMMA WriteKeepsInv ==
    ASSUME ResponseInv, Write PROVE ResponseInv'
  <1> USE DEF ResponseInv, Write, response, HandlerTo, serving, OrDefault
  <1>1. TypeOK'
    <2>1. Len(asked.body) + 1 \in 1..MaxWrites
      BY DEF TypeOK, Body
    <2>2. asked.body \in Body /\ asked.status \in Status
      BY DEF TypeOK
    <2>3. Append(asked.body, Len(asked.body) + 1) \in Body
      BY <2>1, <2>2, BodyFacts
    <2>4. asked' \in [status : Status, body : Body]
      BY <2>2, <2>3 DEF Status
    <2> QED
      BY <2>4 DEF TypeOK
  <1>2. OwnerInv'
    BY DEF TypeOK, OwnerInv, HandlerOver, WireInv
  <1>3. NumberedInv' /\ LengthInv'
    <2>1. /\ asked.body \in Seq(1..MaxWrites \cup {500, 503})
          /\ asked'.body = Append(asked.body, Len(asked.body) + 1)
      BY DEF TypeOK, Body
    <2>2. /\ Len(asked'.body) = Len(asked.body) + 1
          /\ asked'.body[Len(asked.body) + 1] = Len(asked.body) + 1
          /\ \A i \in 1..Len(asked.body) : asked'.body[i] = asked.body[i]
      BY <2>1
    <2>3. NumberedInv'
      BY <2>1, <2>2, WritesAssumption DEF TypeOK, NumberedInv, Own, Replacing
    <2>4. LengthInv'
      BY <2>2 DEF TypeOK, LengthInv, OwnerInv, Own, Replacing, ChunkUnderWay, Settled, HandlerOver
    <2> QED
      BY <2>3, <2>4
  <1>4. StatusInv' /\ WireInv'
    BY DEF TypeOK, OwnerInv, StatusInv, WireInv, StatusUnderWay, Replacing, Settled,
           HandlerOver, Empty
  <1>5. ErrorInv'
    BY DEF TypeOK, OwnerInv, ErrorInv, HandlerOver
  <1>6. EndInv'
    BY DEF TypeOK, OwnerInv, WireInv, EndInv, HandlerOver, StatusUnderWay
  <1> QED
    BY <1>1, <1>2, <1>3, <1>4, <1>5, <1>6

(* The status of a handler that named none. *)
LEMMA DefaultHeaderKeepsInv ==
    ASSUME ResponseInv, DefaultHeader PROVE ResponseInv'
  <1> USE DEF ResponseInv, DefaultHeader, response, HandlerTo, serving
  <1>1. TypeOK'
    BY DEF TypeOK, Status
  <1>2. OwnerInv'
    BY DEF TypeOK, OwnerInv, HandlerOver, WireInv
  <1>3. NumberedInv' /\ LengthInv'
    BY DEF TypeOK, OwnerInv, NumberedInv, LengthInv, WireInv, Own, Replacing,
           ChunkUnderWay, Settled, HandlerOver, Empty
  <1>4. StatusInv' /\ WireInv'
    BY DEF TypeOK, OwnerInv, StatusInv, WireInv, StatusUnderWay, Replacing, Settled,
           HandlerOver, Empty
  <1>5. ErrorInv'
    BY DEF TypeOK, OwnerInv, ErrorInv, HandlerOver
  <1>6. EndInv'
    BY DEF TypeOK, OwnerInv, WireInv, EndInv, HandlerOver, StatusUnderWay
  <1> QED
    BY <1>1, <1>2, <1>3, <1>4, <1>5, <1>6

(* The chunk under way arrives in the buffer of a pending response. *)
LEMMA BufferChunkKeepsInv ==
    ASSUME ResponseInv, BufferChunk PROVE ResponseInv'
  <1> USE DEF ResponseInv, BufferChunk, response, HandlerTo, serving
  <1>1. TypeOK'
    <2>1. body \in Body /\ Len(asked.body) \in 1..MaxWrites
      BY WritesAssumption DEF TypeOK, Body, NumberedInv, ChunkUnderWay
    <2>2. Append(body, Len(asked.body)) \in Body
      BY <2>1, BodyFacts
    <2> QED
      BY <2>2 DEF TypeOK
  <1>2. OwnerInv'
    BY DEF TypeOK, OwnerInv, HandlerOver, WireInv
  <1>3. NumberedInv' /\ LengthInv'
    BY DEF TypeOK, OwnerInv, NumberedInv, LengthInv, WireInv, Own, Replacing,
           ChunkUnderWay, Settled, HandlerOver, Empty
  <1>4. StatusInv' /\ WireInv'
    BY DEF TypeOK, OwnerInv, StatusInv, WireInv, StatusUnderWay, Replacing, Settled,
           HandlerOver, Empty
  <1>5. ErrorInv'
    BY DEF TypeOK, OwnerInv, ErrorInv, HandlerOver
  <1>6. EndInv'
    BY DEF TypeOK, OwnerInv, WireInv, EndInv, HandlerOver, StatusUnderWay
  <1> QED
    BY <1>1, <1>2, <1>3, <1>4, <1>5, <1>6

(* The chunk under way is sent only after a second look. *)
LEMMA StreamChunkKeepsInv ==
    ASSUME ResponseInv, StreamChunk PROVE ResponseInv'
  <1> USE DEF ResponseInv, StreamChunk, response, HandlerTo, serving
  <1>1. TypeOK'
    <2>1. CASE handlerStep' = "sending"
      BY <2>1 DEF TypeOK
    <2>2. CASE handlerStep' = "run"
      BY <2>2 DEF TypeOK
    <2> QED
      BY <2>1, <2>2
  <1>2. OwnerInv'
    BY DEF TypeOK, OwnerInv, HandlerOver, WireInv
  <1>3. NumberedInv' /\ LengthInv'
    BY DEF TypeOK, OwnerInv, NumberedInv, LengthInv, WireInv, Own, Replacing,
           ChunkUnderWay, Settled, HandlerOver, Empty
  <1>4. StatusInv' /\ WireInv'
    BY DEF TypeOK, OwnerInv, StatusInv, WireInv, StatusUnderWay, Replacing, Settled,
           HandlerOver, Empty
  <1>5. ErrorInv'
    BY DEF TypeOK, OwnerInv, ErrorInv, HandlerOver
  <1>6. EndInv'
    BY DEF TypeOK, OwnerInv, WireInv, EndInv, HandlerOver, StatusUnderWay
  <1> QED
    BY <1>1, <1>2, <1>3, <1>4, <1>5, <1>6

(* The chunk under way follows the ones before it. *)
LEMMA SendChunkKeepsInv ==
    ASSUME ResponseInv, SendChunk PROVE ResponseInv'
  <1> USE DEF ResponseInv, SendChunk, response, HandlerTo, serving, Send
  <1>1. TypeOK'
    <2>1. asked.body \in Body /\ Len(asked.body) \in 1..MaxWrites
      BY WritesAssumption DEF TypeOK, Body, NumberedInv, ChunkUnderWay
    <2>2. wire' \in [status : Status, body : Body]
      BY <2>1, BodyFacts DEF TypeOK, Status
    <2> QED
      BY <2>2 DEF TypeOK
  <1>2. OwnerInv'
    BY DEF TypeOK, OwnerInv, HandlerOver, WireInv
  <1>3. NumberedInv' /\ LengthInv'
    BY DEF TypeOK, OwnerInv, NumberedInv, LengthInv, WireInv, Own, Replacing,
           ChunkUnderWay, Settled, HandlerOver, Empty
  <1>4. StatusInv' /\ WireInv'
    BY DEF TypeOK, OwnerInv, StatusInv, WireInv, StatusUnderWay, Replacing, Settled,
           HandlerOver, Empty
  <1>5. ErrorInv'
    BY DEF TypeOK, OwnerInv, ErrorInv, HandlerOver
  <1>6. EndInv'
    BY DEF TypeOK, OwnerInv, WireInv, EndInv, HandlerOver, StatusUnderWay
  <1> QED
    BY <1>1, <1>2, <1>3, <1>4, <1>5, <1>6

(* The deadline has not been seen: the buffer is complete. *)
LEMMA StartStreamingKeepsInv ==
    ASSUME ResponseInv, StartStreaming PROVE ResponseInv'
  <1> USE DEF ResponseInv, StartStreaming, response, HandlerTo, serving
  <1>1. TypeOK'
    BY DEF TypeOK
  <1>2. OwnerInv'
    BY DEF TypeOK, OwnerInv, HandlerOver, WireInv
  <1>3. NumberedInv' /\ LengthInv'
    BY DEF TypeOK, OwnerInv, NumberedInv, LengthInv, WireInv, Own, Replacing,
           ChunkUnderWay, Settled, HandlerOver, Empty
  <1>4. StatusInv' /\ WireInv'
    BY DEF TypeOK, OwnerInv, StatusInv, WireInv, StatusUnderWay, Replacing, Settled,
           HandlerOver, Empty
  <1>5. ErrorInv'
    BY DEF TypeOK, OwnerInv, ErrorInv, HandlerOver
  <1>6. EndInv'
    BY DEF TypeOK, OwnerInv, WireInv, EndInv, HandlerOver, StatusUnderWay
  <1> QED
    BY <1>1, <1>2, <1>3, <1>4, <1>5, <1>6

(* A pending response becomes a stream. *)
LEMMA SwapToStreamingKeepsInv ==
    ASSUME ResponseInv, SwapToStreaming PROVE ResponseInv'
  <1> USE DEF ResponseInv, SwapToStreaming, response, HandlerTo, serving
  <1>1. TypeOK'
    BY DEF TypeOK
  <1>2. OwnerInv'
    BY DEF TypeOK, OwnerInv, HandlerOver, WireInv
  <1>3. NumberedInv' /\ LengthInv'
    BY DEF TypeOK, OwnerInv, NumberedInv, LengthInv, WireInv, Own, Replacing,
           ChunkUnderWay, Settled, HandlerOver, Empty
  <1>4. StatusInv' /\ WireInv'
    BY DEF TypeOK, OwnerInv, StatusInv, WireInv, StatusUnderWay, Replacing, Settled,
           HandlerOver, Empty
  <1>5. ErrorInv'
    BY DEF TypeOK, OwnerInv, ErrorInv, HandlerOver
  <1>6. EndInv'
    BY DEF TypeOK, OwnerInv, WireInv, EndInv, HandlerOver, StatusUnderWay
  <1> QED
    BY <1>1, <1>2, <1>3, <1>4, <1>5, <1>6

(* The buffer goes out under the handler's status. *)
LEMMA FlushBufferKeepsInv ==
    ASSUME ResponseInv, FlushBuffer PROVE ResponseInv'
  <1> USE DEF ResponseInv, FlushBuffer, response, HandlerTo, serving, Send, OrDefault
  <1>1. TypeOK'
    <2>1. wire' \in [status : Status, body : Body] /\ body' \in Body
      BY BodyFacts DEF TypeOK, Status
    <2>2. asked' \in [status : Status, body : Body] /\ status' \in Status
      BY DEF TypeOK, Status
    <2> QED
      BY <2>1, <2>2 DEF TypeOK
  <1>2. OwnerInv'
    BY DEF TypeOK, OwnerInv, HandlerOver, WireInv
  <1>3. NumberedInv' /\ LengthInv'
    BY DEF TypeOK, OwnerInv, NumberedInv, LengthInv, WireInv, Own, Replacing,
           ChunkUnderWay, Settled, HandlerOver, Empty
  <1>4. StatusInv' /\ WireInv'
    BY DEF TypeOK, OwnerInv, StatusInv, WireInv, StatusUnderWay, Replacing, Settled,
           HandlerOver, Empty
  <1>5. ErrorInv'
    BY DEF TypeOK, OwnerInv, ErrorInv, HandlerOver
  <1>6. EndInv'
    BY DEF TypeOK, OwnerInv, WireInv, EndInv, HandlerOver, StatusUnderWay
  <1> QED
    BY <1>1, <1>2, <1>3, <1>4, <1>5, <1>6

(* A handler that returns writes nothing more. *)
LEMMA ReturnKeepsInv ==
    ASSUME ResponseInv, Return PROVE ResponseInv'
  <1> USE DEF ResponseInv, Return, response, HandlerTo, serving
  <1>1. TypeOK'
    BY DEF TypeOK
  <1>2. OwnerInv'
    BY DEF TypeOK, OwnerInv, HandlerOver, WireInv
  <1>3. NumberedInv' /\ LengthInv'
    BY DEF TypeOK, OwnerInv, NumberedInv, LengthInv, WireInv, Own, Replacing,
           ChunkUnderWay, Settled, HandlerOver, Empty
  <1>4. StatusInv' /\ WireInv'
    BY DEF TypeOK, OwnerInv, StatusInv, WireInv, StatusUnderWay, Replacing, Settled,
           HandlerOver, Empty
  <1>5. ErrorInv'
    BY DEF TypeOK, OwnerInv, ErrorInv, HandlerOver
  <1>6. EndInv'
    BY DEF TypeOK, OwnerInv, WireInv, EndInv, HandlerOver, StatusUnderWay
  <1> QED
    BY <1>1, <1>2, <1>3, <1>4, <1>5, <1>6

--------------------------------------------------------------------------------
(* The steps of serveHTTP. *)

(* The handler is over. *)
LEMMA HandlerDoneKeepsInv ==
    ASSUME ResponseInv, HandlerDone PROVE ResponseInv'
  <1> USE DEF ResponseInv, HandlerDone, response, ServerTo, handling, Quiet
  <1>1. TypeOK'
    BY DEF TypeOK
  <1>2. OwnerInv'
    BY DEF TypeOK, OwnerInv, HandlerOver, WireInv
  <1>3. NumberedInv' /\ LengthInv'
    BY DEF TypeOK, OwnerInv, NumberedInv, LengthInv, WireInv, Own, Replacing,
           ChunkUnderWay, Settled, HandlerOver, Empty
  <1>4. StatusInv' /\ WireInv'
    BY DEF TypeOK, OwnerInv, StatusInv, WireInv, StatusUnderWay, Replacing, Settled,
           HandlerOver, Empty
  <1>5. ErrorInv'
    BY DEF TypeOK, OwnerInv, ErrorInv, HandlerOver
  <1>6. EndInv'
    BY DEF TypeOK, OwnerInv, WireInv, EndInv, HandlerOver, StatusUnderWay
  <1> QED
    BY <1>1, <1>2, <1>3, <1>4, <1>5, <1>6

(* The deadline is seen first. *)
LEMMA DeadlineFirstKeepsInv ==
    ASSUME ResponseInv, DeadlineFirst PROVE ResponseInv'
  <1> USE DEF ResponseInv, DeadlineFirst, response, ServerTo, handling, Quiet
  <1>1. TypeOK'
    BY DEF TypeOK
  <1>2. OwnerInv'
    BY DEF TypeOK, OwnerInv, HandlerOver, WireInv
  <1>3. NumberedInv' /\ LengthInv'
    BY DEF TypeOK, OwnerInv, NumberedInv, LengthInv, WireInv, Own, Replacing,
           ChunkUnderWay, Settled, HandlerOver, Empty
  <1>4. StatusInv' /\ WireInv'
    BY DEF TypeOK, OwnerInv, StatusInv, WireInv, StatusUnderWay, Replacing, Settled,
           HandlerOver, Empty
  <1>5. ErrorInv'
    BY DEF TypeOK, OwnerInv, ErrorInv, HandlerOver
  <1>6. EndInv'
    BY DEF TypeOK, OwnerInv, WireInv, EndInv, HandlerOver, StatusUnderWay
  <1> QED
    BY <1>1, <1>2, <1>3, <1>4, <1>5, <1>6

(* Before the deadline the handler's response is complete. *)
LEMMA BoundaryKeepsInv ==
    ASSUME ResponseInv, Boundary PROVE ResponseInv'
  <1> USE DEF ResponseInv, Boundary, response, ServerTo, handling, Quiet
  <1>1. TypeOK'
    BY DEF TypeOK
  <1>2. OwnerInv'
    BY DEF TypeOK, OwnerInv, HandlerOver, WireInv
  <1>3. NumberedInv' /\ LengthInv'
    BY DEF TypeOK, OwnerInv, NumberedInv, LengthInv, WireInv, Own, Replacing,
           ChunkUnderWay, Settled, HandlerOver, Empty
  <1>4. StatusInv' /\ WireInv'
    BY DEF TypeOK, OwnerInv, StatusInv, WireInv, StatusUnderWay, Replacing, Settled,
           HandlerOver, Empty
  <1>5. ErrorInv'
    BY DEF TypeOK, OwnerInv, ErrorInv, HandlerOver
  <1>6. EndInv'
    BY DEF TypeOK, OwnerInv, WireInv, EndInv, HandlerOver, StatusUnderWay
  <1> QED
    BY <1>1, <1>2, <1>3, <1>4, <1>5, <1>6

(* A pending response is emptied after a panic. *)
LEMMA ReplaceKeepsInv ==
    ASSUME ResponseInv, Replace PROVE ResponseInv'
  <1> USE DEF ResponseInv, Replace, response, ServerTo, handling
  <1>1. TypeOK'
    <2>1. body' \in Body /\ status' \in Status
      BY BodyFacts DEF TypeOK, Status
    <2> QED
      BY <2>1 DEF TypeOK
  <1>2. OwnerInv'
    BY DEF TypeOK, OwnerInv, HandlerOver, WireInv
  <1>3. NumberedInv' /\ LengthInv'
    BY DEF TypeOK, OwnerInv, NumberedInv, LengthInv, WireInv, Own, Replacing,
           ChunkUnderWay, Settled, HandlerOver, Empty
  <1>4. StatusInv' /\ WireInv'
    BY DEF TypeOK, OwnerInv, StatusInv, WireInv, StatusUnderWay, Replacing, Settled,
           HandlerOver, Empty
  <1>5. ErrorInv'
    BY DEF TypeOK, OwnerInv, ErrorInv, HandlerOver
  <1>6. EndInv'
    BY DEF TypeOK, OwnerInv, WireInv, EndInv, HandlerOver, StatusUnderWay
  <1> QED
    BY <1>1, <1>2, <1>3, <1>4, <1>5, <1>6

(* The status of the internal error, unless the deadline has passed. *)
LEMMA ErrorHeaderKeepsInv ==
    ASSUME ResponseInv, ErrorHeader PROVE ResponseInv'
  <1> USE DEF ResponseInv, ErrorHeader, response, ServerTo, handling
  <1>1. TypeOK'
    <2>1. status' \in Status
      BY DEF TypeOK, Status
    <2> QED
      BY <2>1 DEF TypeOK
  <1>2. OwnerInv'
    BY DEF TypeOK, OwnerInv, HandlerOver, WireInv
  <1>3. NumberedInv' /\ LengthInv'
    BY DEF TypeOK, OwnerInv, NumberedInv, LengthInv, WireInv, Own, Replacing,
           ChunkUnderWay, Settled, HandlerOver, Empty
  <1>4. StatusInv' /\ WireInv'
    BY DEF TypeOK, OwnerInv, StatusInv, WireInv, StatusUnderWay, Replacing, Settled,
           HandlerOver, Empty
  <1>5. ErrorInv'
    BY DEF TypeOK, OwnerInv, ErrorInv, HandlerOver
  <1>6. EndInv'
    BY DEF TypeOK, OwnerInv, WireInv, EndInv, HandlerOver, StatusUnderWay
  <1> QED
    BY <1>1, <1>2, <1>3, <1>4, <1>5, <1>6

(* Its body follows under the same condition. *)
LEMMA ErrorBodyKeepsInv ==
    ASSUME ResponseInv, ErrorBody PROVE ResponseInv'
  <1> USE DEF ResponseInv, ErrorBody, response, ServerTo, handling
  <1>1. TypeOK'
    <2>1. body' \in Body
      BY BodyFacts DEF TypeOK
    <2> QED
      BY <2>1 DEF TypeOK
  <1>2. OwnerInv'
    BY DEF TypeOK, OwnerInv, HandlerOver, WireInv
  <1>3. NumberedInv' /\ LengthInv'
    BY DEF TypeOK, OwnerInv, NumberedInv, LengthInv, WireInv, Own, Replacing,
           ChunkUnderWay, Settled, HandlerOver, Empty
  <1>4. StatusInv' /\ WireInv'
    BY DEF TypeOK, OwnerInv, StatusInv, WireInv, StatusUnderWay, Replacing, Settled,
           HandlerOver, Empty
  <1>5. ErrorInv'
    BY DEF TypeOK, OwnerInv, ErrorInv, HandlerOver
  <1>6. EndInv'
    BY DEF TypeOK, OwnerInv, WireInv, EndInv, HandlerOver, StatusUnderWay
  <1> QED
    BY <1>1, <1>2, <1>3, <1>4, <1>5, <1>6

(* A pending response goes out whole. *)
LEMMA FinishKeepsInv ==
    ASSUME ResponseInv, Finish PROVE ResponseInv'
  <1> USE DEF ResponseInv, Finish, response, ServerTo, handling
  <1>1. CASE state # "pending"
    BY <1>1 DEF TypeOK, OwnerInv, NumberedInv, LengthInv, StatusInv, WireInv, ErrorInv, EndInv,
                HandlerOver, Own, Replacing, ChunkUnderWay, StatusUnderWay, Settled
  <1>2. CASE state = "pending"
    <2>1. /\ status' = OrDefault(status) /\ status' # 0 /\ status' \in Status
          /\ wroteHeader' = TRUE /\ body' = << >>
          /\ state' = "completed" /\ Send(status', body)
      BY <1>2 DEF TypeOK, OrDefault, Status
    <2>2. wire' = [status |-> status', body |-> IF head THEN << >> ELSE body]
      <3>1. << >> \o << >> = << >> /\ << >> \o body = body
        BY DEF TypeOK, Body
      <3>2. wire.status = 0 /\ wire.body = << >>
        BY <1>2 DEF WireInv, Empty
      <3>3. CASE head
        BY <2>1, <3>1, <3>2, <3>3 DEF Send
      <3>4. CASE ~head
        BY <2>1, <3>1, <3>2, <3>4 DEF Send
      <3> QED
        BY <3>3, <3>4
    <2>3. TypeOK'
      BY <1>2, <2>1, <2>2, BodyFacts DEF TypeOK
    <2>4. EndInv'
      <3>1. /\ wire'.status = status' /\ wire'.body = IF head' THEN << >> ELSE body
            /\ serverStep' = "log"
        BY <2>2
      <3>2. CASE handlerStep = "returned"
        <4>1. /\ ~head => Len(body) = Len(asked.body)
              /\ OrDefault(status) = OrDefault(asked.status)
          BY <1>2, <3>2 DEF TypeOK, OwnerInv, LengthInv, StatusInv, WireInv, Own, Replacing,
                            Settled, ChunkUnderWay, StatusUnderWay, Empty
        <4>2. ~head => body = asked.body
          BY <1>2, <3>2, <4>1, SeqEqual DEF TypeOK, NumberedInv, Own, Replacing, Body
        <4> QED
          BY <2>1, <3>1, <3>2, <4>1, <4>2 DEF EndInv
      <3>3. CASE handlerStep = "panicked"
        BY <1>2, <2>1, <3>1, <3>3 DEF EndInv, ErrorInv, OrDefault
      <3> QED
        BY <3>2, <3>3 DEF OwnerInv, HandlerOver
    <2>5. OwnerInv' /\ StatusInv' /\ WireInv' /\ ErrorInv'
      BY <1>2, <2>1 DEF TypeOK, OwnerInv, StatusInv, WireInv, ErrorInv, HandlerOver, Replacing,
                        StatusUnderWay, Settled
    <2>6. NumberedInv' /\ LengthInv'
      BY <1>2, <2>1 DEF OwnerInv, NumberedInv, LengthInv, Own, HandlerOver, ChunkUnderWay
    <2> QED
      BY <2>3, <2>4, <2>5, <2>6
  <1> QED
    BY <1>1, <1>2

(* The timeout takes over a pending response; a stream is cut. *)
LEMMA ExpireKeepsInv ==
    ASSUME ResponseInv, Expire PROVE ResponseInv'
  <1> USE DEF ResponseInv, Expire, response, ServerTo, handling
  <1>1. TypeOK'
    BY DEF TypeOK
  <1>2. OwnerInv'
    BY DEF TypeOK, OwnerInv, HandlerOver, WireInv
  <1>3. NumberedInv' /\ LengthInv'
    BY DEF TypeOK, OwnerInv, NumberedInv, LengthInv, WireInv, Own, Replacing,
           ChunkUnderWay, Settled, HandlerOver, Empty
  <1>4. StatusInv' /\ WireInv'
    BY DEF TypeOK, OwnerInv, StatusInv, WireInv, StatusUnderWay, Replacing, Settled,
           HandlerOver, Empty
  <1>5. ErrorInv'
    BY DEF TypeOK, OwnerInv, ErrorInv, HandlerOver
  <1>6. EndInv'
    BY DEF TypeOK, OwnerInv, WireInv, EndInv, HandlerOver, StatusUnderWay
  <1> QED
    BY <1>1, <1>2, <1>3, <1>4, <1>5, <1>6

(* The timeout is all the client gets. *)
LEMMA AnswerTimeoutKeepsInv ==
    ASSUME ResponseInv, AnswerTimeout PROVE ResponseInv'
  <1> USE DEF ResponseInv, AnswerTimeout, response, ServerTo, handling, Send
  <1>1. TypeOK'
    <2>1. wire' \in [status : Status, body : Body] /\ status' \in Status
      BY BodyFacts DEF TypeOK, Status
    <2> QED
      BY <2>1 DEF TypeOK
  <1>2. OwnerInv'
    BY DEF TypeOK, OwnerInv, HandlerOver, WireInv
  <1>3. NumberedInv' /\ LengthInv'
    BY DEF TypeOK, OwnerInv, NumberedInv, LengthInv, WireInv, Own, Replacing,
           ChunkUnderWay, Settled, HandlerOver, Empty
  <1>4. StatusInv' /\ WireInv'
    BY DEF TypeOK, OwnerInv, StatusInv, WireInv, StatusUnderWay, Replacing, Settled,
           HandlerOver, Empty
  <1>5. ErrorInv'
    BY DEF TypeOK, OwnerInv, ErrorInv, HandlerOver
  <1>6. EndInv'
    BY DEF TypeOK, OwnerInv, WireInv, EndInv, HandlerOver, StatusUnderWay
  <1> QED
    BY <1>1, <1>2, <1>3, <1>4, <1>5, <1>6

(* Nothing more is sent of a stream. *)
LEMMA CutStreamKeepsInv ==
    ASSUME ResponseInv, CutStream PROVE ResponseInv'
  <1> USE DEF ResponseInv, CutStream, response, ServerTo, handling
  <1>1. TypeOK'
    BY DEF TypeOK
  <1>2. OwnerInv'
    BY DEF TypeOK, OwnerInv, HandlerOver, WireInv
  <1>3. NumberedInv' /\ LengthInv'
    BY DEF TypeOK, OwnerInv, NumberedInv, LengthInv, WireInv, Own, Replacing,
           ChunkUnderWay, Settled, HandlerOver, Empty
  <1>4. StatusInv' /\ WireInv'
    BY DEF TypeOK, OwnerInv, StatusInv, WireInv, StatusUnderWay, Replacing, Settled,
           HandlerOver, Empty
  <1>5. ErrorInv'
    BY DEF TypeOK, OwnerInv, ErrorInv, HandlerOver
  <1>6. EndInv'
    BY DEF TypeOK, OwnerInv, WireInv, EndInv, HandlerOver, StatusUnderWay
  <1> QED
    BY <1>1, <1>2, <1>3, <1>4, <1>5, <1>6

(* What is logged is the status that was sent, or that of a late handler. *)
LEMMA LogKeepsInv ==
    ASSUME ResponseInv, Log PROVE ResponseInv'
  <1> USE DEF ResponseInv, Log, response, ServerTo, handling, Quiet, OrDefault
  <1>1. TypeOK'
    BY DEF TypeOK, Status
  <1>2. OwnerInv'
    BY DEF TypeOK, OwnerInv, HandlerOver, WireInv
  <1>3. NumberedInv' /\ LengthInv'
    BY DEF TypeOK, OwnerInv, NumberedInv, LengthInv, WireInv, Own, Replacing,
           ChunkUnderWay, Settled, HandlerOver, Empty
  <1>4. StatusInv' /\ WireInv'
    BY DEF TypeOK, OwnerInv, StatusInv, WireInv, StatusUnderWay, Replacing, Settled,
           HandlerOver, Empty
  <1>5. ErrorInv'
    BY DEF TypeOK, OwnerInv, ErrorInv, HandlerOver
  <1>6. EndInv'
    BY DEF TypeOK, OwnerInv, WireInv, EndInv, HandlerOver, StatusUnderWay
  <1> QED
    BY <1>1, <1>2, <1>3, <1>4, <1>5, <1>6

--------------------------------------------------------------------------------
(* Every step keeps the invariant. *)
LEMMA NextInv == ResponseInv /\ [Next]_vars => ResponseInv'
  <1> SUFFICES ASSUME ResponseInv, [Next]_vars PROVE ResponseInv'
    OBVIOUS
  <1>1. CASE DeadlinePasses
    BY <1>1, DeadlinePassesKeepsInv
  <1>2. CASE HandlerNext
    BY <1>2, WriteHeaderKeepsInv, StoreStatusKeepsInv, WriteKeepsInv, DefaultHeaderKeepsInv,
       BufferChunkKeepsInv, StreamChunkKeepsInv, SendChunkKeepsInv, StartStreamingKeepsInv,
       SwapToStreamingKeepsInv, FlushBufferKeepsInv, ReturnKeepsInv
    DEF HandlerNext, HandlerHoldingLock
  <1>3. CASE ServerNext
    BY <1>3, HandlerDoneKeepsInv, DeadlineFirstKeepsInv, BoundaryKeepsInv, ReplaceKeepsInv,
       ErrorHeaderKeepsInv, ErrorBodyKeepsInv, FinishKeepsInv, ExpireKeepsInv,
       AnswerTimeoutKeepsInv, CutStreamKeepsInv, LogKeepsInv
    DEF ServerNext
  <1>4. CASE UNCHANGED vars
    BY <1>4 DEF vars, response, handling, serving, ResponseInv, TypeOK, OwnerInv, NumberedInv,
                LengthInv, StatusInv, WireInv, ErrorInv, EndInv, HandlerOver, Replacing, Own,
                StatusUnderWay, ChunkUnderWay, Settled
  <1> QED
    BY <1>1, <1>2, <1>3, <1>4 DEF Next

--------------------------------------------------------------------------------
(* The theorems. *)

(* The inductive invariant holds throughout every execution. *)
THEOREM Invariance == Spec => []ResponseInv
  BY InitInv, NextInv, PTL DEF Spec

(* Every variable keeps its type, and the mutex is held in the handler's   *)
(* critical steps only.                                                    *)
THEOREM TypeCorrectness == Spec => []TypeOK
  BY Invariance, PTL DEF ResponseInv

(* The client never receives the mixture of two responses. *)
THEOREM ResponsesAreNotMixed == Spec => []WireIsOneResponse
  <1>1. ResponseInv => WireIsOneResponse
    <2> SUFFICES ASSUME ResponseInv PROVE WireIsOneResponse
      OBVIOUS
    <2> USE DEF ResponseInv
    <2>1. CASE state = "pending" \/ handlerStep = "flush" \/ serverStep = "timeout"
      BY <2>1 DEF WireInv, WireIsOneResponse
    <2>2. CASE state \in {"streaming", "streamingTimedOut"} /\ handlerStep # "flush"
      BY <2>2 DEF TypeOK, Body, WireInv, LengthInv, NumberedInv, Own, OrDefault,
                  WireIsOneResponse
    <2>3. CASE state = "timedOut" /\ serverStep # "timeout"
      BY <2>3 DEF WireInv, WireIsOneResponse
    <2>4. CASE state = "completed"
      <3>1. HandlerOver
        BY <2>4 DEF EndInv, OwnerInv, TypeOK
      <3>2. CASE handlerStep = "returned"
        BY <2>4, <3>2 DEF TypeOK, Body, EndInv, WireIsOneResponse
      <3>3. CASE handlerStep = "panicked"
        <4>1. CASE wire.body = << >>
          BY <3>3, <4>1 DEF WireIsOneResponse
        <4>2. CASE wire.body = << 500 >> /\ wire.status = 500 /\ ~head
          <5>1. wire = [status |-> 500, body |-> << 500 >>]
            BY <4>2 DEF TypeOK
          <5> QED
            BY <4>2, <5>1 DEF WireIsOneResponse
        <4> QED
          BY <2>4, <3>3, <4>1, <4>2 DEF EndInv
      <3> QED
        BY <3>1, <3>2, <3>3 DEF HandlerOver
    <2> QED
      BY <2>1, <2>2, <2>3, <2>4 DEF TypeOK
  <1> QED
    BY <1>1, Invariance, PTL

(* A request that counts as completed was answered with everything its     *)
(* handler wrote, and what is logged is what was sent.                     *)
THEOREM ReportsAreTrue == Spec => []ReportIsTrue
  <1>1. ResponseInv => ReportIsTrue
    <2> SUFFICES ASSUME ResponseInv PROVE ReportIsTrue
      OBVIOUS
    <2> USE DEF ResponseInv
    <2>1. LoggedStatusIsSent
      BY DEF EndInv, LoggedStatusIsSent
    <2>2. ASSUME serverStep = "ended", ~timedOut, handlerStep = "returned"
          PROVE  wire.status = OrDefault(asked.status) /\ (~head => wire.body = asked.body)
      <3>1. state \in {"completed", "streaming"}
        BY <2>2 DEF OwnerInv
      <3>2. CASE state = "completed"
        BY <2>2, <3>2 DEF EndInv
      <3>3. CASE state = "streaming"
        <4>1. wire.status = OrDefault(asked.status) /\ body = << >>
          BY <2>2, <3>3 DEF WireInv, OrDefault
        <4>2. ~head => Len(wire.body) = Len(asked.body)
          BY <2>2, <3>3, <4>1 DEF TypeOK, Body, LengthInv, Own, ChunkUnderWay, Settled
        <4>3. ~head => wire.body = asked.body
          BY <2>2, <3>3, <4>2, SeqEqual DEF TypeOK, NumberedInv, Own, Body
        <4> QED
          BY <4>1, <4>3
      <3> QED
        BY <3>1, <3>2, <3>3
    <2> QED
      BY <2>1, <2>2 DEF ReportIsTrue, CompletedResponseIsWhole
  <1> QED
    BY <1>1, Invariance, PTL

(* Once serveHTTP has returned, a handler that runs on does not touch the  *)
(* connection, which may carry another request by then.                    *)
THEOREM NothingIsWrittenAfterEnd == Spec => NoWriteAfterEnd
  <1>1. ResponseInv /\ [Next]_vars => [serverStep = "ended" => UNCHANGED wire]_vars
    <2> SUFFICES ASSUME ResponseInv, Next, serverStep = "ended" PROVE wire' = wire
      BY DEF vars
    <2>1. handlerStep \notin {"sending", "flush"}
      BY DEF ResponseInv, OwnerInv
    <2>2. CASE DeadlinePasses
      BY <2>2 DEF DeadlinePasses
    <2>3. CASE HandlerNext
      BY <2>1, <2>3 DEF HandlerNext, HandlerHoldingLock, HandlerTo, WriteHeader, StoreStatus,
         Write, DefaultHeader, BufferChunk, StreamChunk, SendChunk, StartStreaming,
         SwapToStreaming, FlushBuffer, Return
    <2>4. CASE ServerNext
      BY <2>4 DEF ServerNext, ServerTo, HandlerDone, DeadlineFirst, Boundary, Replace,
         ErrorHeader, ErrorBody, Finish, Expire, AnswerTimeout, CutStream, Log
    <2> QED
      BY <2>2, <2>3, <2>4 DEF Next
  <1> QED
    BY <1>1, Invariance, PTL DEF Spec, NoWriteAfterEnd
================================================================================
