--------------------------------- MODULE Rpc --------------------------------
(***************************************************************************)
(* One remote call made with rs-grpc: the client's RsGrpcClientCall and    *)
(* the server's RsGrpcServerCall (client.h, server.h), each a state        *)
(* machine that a completion queue drives, the transport between them, and *)
(* the streams that use them.  There are four kinds of call, and each has  *)
(* a class of its own on both sides.                                       *)
(*                                                                         *)
(* Both sides run on a thread of their own and are only called from it, so *)
(* a step is one method call or the handling of one completed operation.   *)
(* A stream that emits while it is being asked takes two steps here: every *)
(* method leaves its object ready for the call before it asks for more.    *)
(* The exception is the handler of a client stream, whose answer is part   *)
(* of the step that lets it answer (Reactions).                            *)
(*                                                                         *)
(* Requests and responses are numbered in the order in which their streams *)
(* emit them; 0 is "none".                                                 *)
(***************************************************************************)
EXTENDS ElementCount, Sequences

CONSTANTS Kinds,               \* the kinds of call to look at
          NumRequests,         \* for each kind, bounds the requests of a client stream
          NumResponses,        \* for each kind, bounds the responses of a handler
          Demands,             \* for each kind, what Request may be called with
          Stoppable            \* the kinds during which the server may be shut down

KindSet == {"unary", "server_streaming", "client_streaming", "bidi"}

ASSUME RpcAssumption ==
  /\ Kinds \subseteq KindSet
  /\ NumRequests \in [Kinds -> Nat] /\ NumResponses \in [Kinds -> Nat]
  /\ \A k \in Kinds : NumRequests[k] + NumResponses[k] < MaxValue
  /\ Demands \in [Kinds -> SUBSET (0..MaxValue)]
  /\ \A k \in Kinds : Demands[k] \ {0} # {}
  /\ Stoppable \subseteq Kinds

VARIABLES kind,     \* which of the four classes
          client,   \* the RsGrpcClientCall
          server,   \* the RsGrpcServerCall
          wire,     \* the transport
          app,      \* the subscriber of the client's call
          source,   \* the publisher of requests of a streaming client
          handler   \* the publisher that the service's method returned

vars == <<kind, client, server, wire, app, source, handler>>

StreamsRequests == kind \in {"client_streaming", "bidi"}
StreamsResponses == kind \in {"server_streaming", "bidi"}

-----------------------------------------------------------------------------
(* The transport.  `ops` of a call are the operations it has started and   *)
(* that have not completed: each holds a reference to the call (ToTag).    *)

WireInit ==
  [toServer |-> <<>>,       \* requests on their way
   closed |-> FALSE,        \* WritesDone has reached the server
   toClient |-> <<>>,       \* responses on their way
   status |-> "none",       \* what the server's Finish said
   cancelled |-> FALSE,     \* TryCancel, or the client's context is gone
   stopped |-> FALSE,       \* the server has shut down
   sendFailed |-> FALSE]    \* the client has seen a send fail

\* The call ended without a status from the server's handler.
Broken == wire.status = "none" /\ (wire.cancelled \/ wire.stopped)
Dead == wire.cancelled \/ wire.stopped \/ wire.status # "none"

\* An operation that sends succeeds once its message, if any, has been taken
\* from `writing`.  When the call is over it may fail instead.
SendResults(writing) ==
  {ok \in BOOLEAN : IF ok THEN writing = 0 ELSE Dead}

-----------------------------------------------------------------------------
(* The client's call.                                                      *)

ClientInit ==
  [started |-> FALSE,       \* invoke_() has been called
   invoke |-> TRUE,         \* invoke_ is set
   state |-> IF kind = "bidi" THEN "AWAITING_REQUEST" ELSE "INIT",
   requested |-> 0, cancelled |-> FALSE,
   busy |-> FALSE,          \* operation_in_progress_
   next |-> 0,              \* next_request_
   writesDone |-> FALSE,    \* enqueued_writes_done_
   finish |-> FALSE,        \* enqueued_finish_
   sentFinal |-> FALSE,     \* sent_final_request_
   error |-> FALSE,         \* request_stream_error_ or Reader::error_
   writerDone |-> FALSE, readerDone |-> FALSE,
   asked |-> 0,             \* what subscription_ has been asked for
   writing |-> 0, ops |-> {}]

\* The application's subscription and the completion queue keep it alive.
ClientAlive == app.held \/ client.ops # {}

Starts(c, op) == [c EXCEPT !.ops = @ \cup {op}]

\* Mutant: the last element that was asked for is not read.
ReadsOneTooFew(c) ==
  IF c.requested > 1
  THEN Starts([c EXCEPT !.requested = Decrement(@), !.state = "READING_RESPONSE"], "read")
  ELSE [c EXCEPT !.state = "AWAITING_REQUEST"]

\* RsGrpcClientCall<ClientAsyncReader>::MaybeReadNext
ClientMaybeReadNext(c) ==
  IF c.requested > 0
  THEN Starts([c EXCEPT !.requested = Decrement(@), !.state = "READING_RESPONSE"], "read")
  ELSE [c EXCEPT !.state = "AWAITING_REQUEST"]

\* RsGrpcClientCall<ClientAsyncReaderWriter>::Reader::Request
ReaderRequest(c, n) ==
  LET d == [c EXCEPT !.requested = ElementCountAdd(@, n)]
  IN  IF d.state = "AWAITING_REQUEST" /\ d.requested > 0
      THEN Starts([d EXCEPT !.requested = Decrement(@), !.state = "READING_RESPONSE"], "read")
      ELSE d

Invoked(c, op) == Starts([c EXCEPT !.started = TRUE, !.invoke = FALSE], op)

UnaryRequest(c, n) ==
  IF ~c.invoke THEN c
  ELSE IF c.cancelled THEN [c EXCEPT !.invoke = FALSE]
  ELSE IF n > 0 THEN Invoked(c, "finish")
  ELSE c

ServerStreamingRequest(c, n) ==
  IF c.cancelled \/ (c.invoke /\ n = 0) THEN c
  ELSE IF c.invoke THEN Invoked([c EXCEPT !.requested = n], "start")
  ELSE LET d == [c EXCEPT !.requested = ElementCountAdd(@, n)]
       IN  IF d.state = "AWAITING_REQUEST" THEN ClientMaybeReadNext(d) ELSE d

\* The request stream is subscribed to and asked for its first element.
ClientStreamingRequest(c, n) ==
  IF c.cancelled \/ ~c.invoke \/ n = 0 THEN c
  ELSE Invoked([c EXCEPT !.busy = TRUE, !.asked = 1], "start")

BidiRequest(c, n) ==
  IF c.cancelled \/ (c.invoke /\ n = 0) THEN c
  ELSE IF c.invoke
       THEN ReaderRequest(Invoked([c EXCEPT !.busy = TRUE, !.asked = 1], "start"), n)
       ELSE ReaderRequest(c, n)

ClientRequest(c, n) ==
  CASE kind = "unary"            -> UnaryRequest(c, n)
    [] kind = "server_streaming" -> ServerStreamingRequest(c, n)
    [] kind = "client_streaming" -> ClientStreamingRequest(c, n)
    [] kind = "bidi"             -> BidiRequest(c, n)

\* Mutant: the end of the stream goes before a request that is still queued.
WritesDoneFirst(c) ==
  IF c.busy \/ c.cancelled THEN c
  ELSE IF c.writesDone
  THEN Starts([c EXCEPT !.writesDone = FALSE, !.finish = TRUE, !.busy = TRUE], "writesDone")
  ELSE IF c.next # 0
  THEN Starts([c EXCEPT !.busy = TRUE, !.writing = c.next, !.next = 0,
                        !.asked = @ + 1], "write")
  ELSE IF c.finish
  THEN Starts([c EXCEPT !.finish = FALSE, !.busy = TRUE, !.sentFinal = TRUE], "finish")
  ELSE c

\* RunEnqueuedOperation of the client streaming and the bidi call
ClientRunEnqueuedOperation(c) ==
  IF c.busy \/ c.cancelled THEN c
  ELSE IF c.next # 0
  THEN Starts([c EXCEPT !.busy = TRUE, !.writing = c.next, !.next = 0,
                        !.asked = @ + 1], "write")
  ELSE IF c.writesDone
  THEN Starts([c EXCEPT !.writesDone = FALSE, !.finish = TRUE, !.busy = TRUE], "writesDone")
  ELSE IF c.finish
  THEN Starts([c EXCEPT !.finish = FALSE, !.busy = TRUE, !.sentFinal = TRUE], "finish")
  ELSE c

ClientOnError(c) ==
  ClientRunEnqueuedOperation([c EXCEPT !.error = TRUE, !.writesDone = TRUE])

ClientOnNext(c, request) ==
  IF c.next # 0 THEN ClientOnError(c)     \* "Backpressure violation"
  ELSE ClientRunEnqueuedOperation([c EXCEPT !.next = request])

ClientOnComplete(c) == ClientRunEnqueuedOperation([c EXCEPT !.writesDone = TRUE])

-----------------------------------------------------------------------------
(* What the client's subscriber sees.                                      *)

AppInit == [held |-> TRUE, demand |-> 0, got |-> <<>>, end |-> "none", ends |-> 0]

Got(a, response) == [a EXCEPT !.got = Append(@, response)]
Ended(a, how) == [a EXCEPT !.end = how, !.ends = @ + 1]

Status == IF wire.status = "none" THEN "error" ELSE wire.status

\* HandleUnaryResponse, for an operation that succeeded
HandleUnaryResponse(a) ==
  IF Status = "ok" THEN Ended(Got(a, 1), "complete") ELSE Ended(a, "error")

\* TryShutdown and Reader::Finish
TryShutdown(c, a) ==
  IF ~(c.writerDone /\ c.readerDone) \/ c.cancelled THEN a
  ELSE Ended(a, IF Status = "ok" /\ ~c.error THEN "complete" ELSE "error")

\* TagOperationDone of the unary call
UnaryDone(c, a) == <<c, IF c.cancelled THEN a ELSE HandleUnaryResponse(a)>>

\* TagOperationDone of the server streaming call
ServerStreamingDone(c, a, success, response) ==
  CASE c.state = "INIT" -> <<ClientMaybeReadNext(c), a>>
    [] c.state = "AWAITING_REQUEST" -> <<[c EXCEPT !.state = "THROWN"], a>>
    [] c.state = "READING_RESPONSE" /\ ~success ->
         <<Starts([c EXCEPT !.state = "FINISHING"], "finish"), a>>
    [] c.state = "READING_RESPONSE" /\ success ->
         <<ClientMaybeReadNext(c), Got(a, response)>>
    [] c.state = "FINISHING" ->
         <<c, Ended(a, IF Status = "ok" THEN "complete" ELSE "error")>>

\* TagOperationDone of the client streaming call.  HandleUnaryResponse does
\* nothing for an operation that failed.
ClientStreamingDone(c, a, success) ==
  IF c.sentFinal
  THEN <<c, IF c.cancelled THEN a
            ELSE IF c.error THEN Ended(a, "error") ELSE HandleUnaryResponse(a)>>
  ELSE IF success
  THEN <<ClientRunEnqueuedOperation([c EXCEPT !.busy = FALSE]), a>>
  ELSE <<c, a>>

\* TagOperationDone of the bidi call
BidiDone(c, a, success) ==
  IF c.sentFinal
  THEN LET d == [c EXCEPT !.writerDone = TRUE] IN <<d, TryShutdown(d, a)>>
  ELSE IF success
  THEN <<ClientRunEnqueuedOperation([c EXCEPT !.busy = FALSE]), a>>
  ELSE LET d == [c EXCEPT !.writerDone = TRUE, !.cancelled = TRUE]
       IN  <<d, TryShutdown(d, a)>>

\* AlternateTagOperationDone of the bidi call: Reader::TagOperationDone
BidiReadDone(c, a, success, response) ==
  IF ~success \/ c.error
  THEN LET d == [c EXCEPT !.state = "END", !.readerDone = TRUE]
       IN  <<d, TryShutdown(d, a)>>
  ELSE <<ReaderRequest([c EXCEPT !.state = "AWAITING_REQUEST"], 0), Got(a, response)>>

ClientDone(c, a, op, success, response) ==
  CASE kind = "unary"            -> UnaryDone(c, a)
    [] kind = "server_streaming" -> ServerStreamingDone(c, a, success, response)
    [] kind = "client_streaming" -> ClientStreamingDone(c, a, success)
    [] kind = "bidi" /\ op = "read" -> BidiReadDone(c, a, success, response)
    [] kind = "bidi" /\ op # "read" -> BidiDone(c, a, success)

-----------------------------------------------------------------------------
(* The server's call, and the publisher that its handler returned.         *)

ServerInit ==
  [state |-> IF StreamsRequests THEN "INIT" ELSE "AWAITING_REQUEST",
   requested |-> 0,         \* what the handler wants of the request stream
   next |-> 0,              \* next_response_
   finish |-> FALSE,        \* enqueued_finish_
   status |-> "ok",         \* enqueued_finish_status_, or what Finish is given
   busy |-> FALSE,          \* Writer::operation_in_progress_
   sentFinal |-> FALSE,     \* Writer::sent_final_request_
   responses |-> 0,         \* num_responses_
   error |-> FALSE,         \* response_error_
   finished |-> FALSE,      \* finished_
   retained |-> FALSE,      \* retained_self_; subscription_ of a Writer
   asked |-> 0,             \* what the handler's stream has been asked for
   writing |-> 0, ops |-> {"request"}]

HandlerInit ==
  [running |-> FALSE, emitted |-> 0, end |-> "none",
   received |-> <<>>, sawEnd |-> FALSE]

\* Tags hold the call, and so do retained_self_, the cycle described at
\* Writer::subscription_, and the subscriber that a unary handler was given.
ServerAlive ==
  \/ server.ops # {}
  \/ server.retained
  \/ kind = "unary" /\ handler.running /\ handler.end = "none"

FinishesWith(s, status) == Starts([s EXCEPT !.status = status], "finish")

\* The status of a call that must have exactly one response
SingleResponseStatus(s) == IF s.responses = 1 THEN "ok" ELSE "error"

\* RunEnqueuedOperation of the server streaming call
StreamRunEnqueuedOperation(s) ==
  IF s.state # "AWAITING_RESPONSE" THEN s
  ELSE IF s.next # 0
  THEN Starts([s EXCEPT !.state = "SENDING_RESPONSE", !.writing = s.next,
                        !.next = 0, !.asked = @ + 1], "write")
  ELSE IF s.finish
  THEN Starts([s EXCEPT !.finish = FALSE, !.state = "SENT_FINAL_RESPONSE"], "finish")
  ELSE s

\* Writer::RunEnqueuedOperation of the bidi call
WriterRunEnqueuedOperation(s) ==
  IF s.busy THEN s
  ELSE IF s.next # 0
  THEN Starts([s EXCEPT !.busy = TRUE, !.writing = s.next, !.next = 0,
                        !.asked = @ + 1], "write")
  ELSE IF s.finish /\ ~s.sentFinal
  THEN Starts([s EXCEPT !.finish = FALSE, !.busy = TRUE, !.sentFinal = TRUE], "finish")
  ELSE s

RunEnqueuedOperation(s) ==
  IF kind = "bidi" THEN WriterRunEnqueuedOperation(s) ELSE StreamRunEnqueuedOperation(s)

\* TrySendResponse of the client streaming call
TrySendResponse(s) ==
  IF s.finished /\ s.state = "STREAM_ENDED"
  THEN FinishesWith([s EXCEPT !.state = "SENT_RESPONSE"],
                    IF s.error THEN "error" ELSE SingleResponseStatus(s))
  ELSE s

\* The Subscriber side of the four calls, which the handler's stream signals
UnaryOnError(s) == FinishesWith(s, "error")
UnaryOnComplete(s) == FinishesWith(s, SingleResponseStatus(s))

ClientStreamingOnError(s) == TrySendResponse([s EXCEPT !.error = TRUE, !.finished = TRUE])
ClientStreamingOnComplete(s) == TrySendResponse([s EXCEPT !.finished = TRUE])

StreamOnError(s) == RunEnqueuedOperation([s EXCEPT !.status = "error", !.finish = TRUE])

\* The bidi call's Writer leaves the status as it is.
StreamOnComplete(s) ==
  RunEnqueuedOperation([s EXCEPT !.finish = TRUE,
                                 !.status = IF kind = "bidi" THEN @ ELSE "ok"])

StreamOnNext(s, response) ==
  IF s.next # 0 THEN StreamOnError([s EXCEPT !.next = 0])  \* "Backpressure violation"
  ELSE RunEnqueuedOperation([s EXCEPT !.next = response])

ServerOnNext(s, response) ==
  IF StreamsResponses THEN StreamOnNext(s, response) ELSE [s EXCEPT !.responses = @ + 1]

ServerOnError(s) ==
  CASE kind = "unary"            -> UnaryOnError(s)
    [] kind = "client_streaming" -> ClientStreamingOnError(s)
    [] StreamsResponses          -> StreamOnError(s)

ServerOnComplete(s) ==
  CASE kind = "unary"            -> UnaryOnComplete(s)
    [] kind = "client_streaming" -> ClientStreamingOnComplete(s)
    [] StreamsResponses          -> StreamOnComplete(s)

\* Mutant: the state is left as it was, so one demand starts read upon read.
ReadsTwice(s) ==
  IF s.requested > 0 /\ s.state = "WAITING_FOR_DATA_REQUEST"
  THEN Starts([s EXCEPT !.requested = Decrement(@)], "read")
  ELSE s

\* MaybeReadNext of the client streaming and the bidi call
ServerMaybeReadNext(s) ==
  IF s.requested > 0 /\ s.state = "WAITING_FOR_DATA_REQUEST"
  THEN Starts([s EXCEPT !.requested = Decrement(@), !.state = "REQUESTED_DATA"], "read")
  ELSE s

\* The handler of a client stream emits k responses and then ends, or goes on.
Reaction(s, h, k, end) ==
  LET t == [s EXCEPT !.responses = @ + k]
  IN  <<IF end = "complete" THEN ServerOnComplete(t)
        ELSE IF end = "error" THEN ServerOnError(t) ELSE t,
        [h EXCEPT !.emitted = @ + k, !.end = end]>>

\* What it may do while it is called.  The subscription to its stream is dropped
\* before Init returns and the call has no other reference to it, so what it
\* does later finds the call alive only while there is a read.
Reactions(s, h) ==
  IF h.end # "none" THEN {<<s, h>>}
  ELSE {Reaction(s, h, k, end) : k \in 0..(NumResponses[kind] - h.emitted),
                                 end \in {"none", "complete", "error"}}

\* TagOperationDone when a request arrives: the handler is called and its
\* stream subscribed to.  IssueNewServerRequest makes a further call object,
\* which serves another call.
UnaryAccepted(s, h) ==
  {<<[s EXCEPT !.state = "HANDLING", !.asked = Unbounded], h>>}

ServerStreamingAccepted(s, h) ==
  {<<[s EXCEPT !.state = "AWAITING_RESPONSE", !.retained = TRUE, !.asked = 1], h>>}

\* `n` is what the handler asks of its requests.
ClientStreamingAccepted(s, h, n) ==
  LET t == [s EXCEPT !.state = "WAITING_FOR_DATA_REQUEST", !.requested = n]
  IN  Reactions([ServerMaybeReadNext(t) EXCEPT !.asked = Unbounded], h)

BidiAccepted(s, h) ==
  {<<[s EXCEPT !.state = "WAITING_FOR_DATA_REQUEST", !.retained = TRUE, !.asked = 1], h>>}

Accepted(s, h, n) ==
  LET g == [h EXCEPT !.running = TRUE]
  IN  CASE kind = "unary"            -> UnaryAccepted(s, g)
        [] kind = "server_streaming" -> ServerStreamingAccepted(s, g)
        [] kind = "client_streaming" -> ClientStreamingAccepted(s, g, n)
        [] kind = "bidi"             -> BidiAccepted(s, g)

\* TagOperationDone for a read: OnNext or OnComplete of the handler's
\* subscriber, then the state.
ServerReadDone(s, h, success, request) ==
  IF s.state # "REQUESTED_DATA" THEN {<<[s EXCEPT !.state = "ABORTED"], h>>}
  ELSE LET g == IF success THEN [h EXCEPT !.received = Append(@, request)]
                ELSE [h EXCEPT !.sawEnd = TRUE]
           Reacted == IF kind = "client_streaming" THEN Reactions(s, g) ELSE {<<s, g>>}
           Then(t) == IF success
                      THEN ServerMaybeReadNext([t EXCEPT !.state = "WAITING_FOR_DATA_REQUEST"])
                      ELSE IF kind = "bidi"
                      THEN [t EXCEPT !.state = "READ_STREAM_ENDED"]
                      ELSE TrySendResponse([t EXCEPT !.state = "STREAM_ENDED"])
       IN  {<<Then(r[1]), r[2]>> : r \in Reacted}

\* Mutant: a failed send does not let go of the call.
FailureKeepsTheCall(s, success) ==
  IF success /\ s.state = "SENT_FINAL_RESPONSE"
  THEN [s EXCEPT !.retained = FALSE]
  ELSE RunEnqueuedOperation([s EXCEPT !.state = "AWAITING_RESPONSE"])

\* TagOperationDone for a write or a finish
StreamSendDone(s, success) ==
  IF ~success \/ s.state = "SENT_FINAL_RESPONSE"
  THEN [s EXCEPT !.retained = FALSE]
  ELSE RunEnqueuedOperation([s EXCEPT !.state = "AWAITING_RESPONSE"])

WriterSendDone(s, success) ==
  IF ~success \/ s.sentFinal
  THEN [s EXCEPT !.retained = FALSE]
  ELSE RunEnqueuedOperation([s EXCEPT !.busy = FALSE])

ServerSendDone(s, success) ==
  CASE kind = "server_streaming" -> StreamSendDone(s, success)
    [] kind = "bidi"             -> WriterSendDone(s, success)
    [] ~StreamsResponses         -> s
=============================================================================
