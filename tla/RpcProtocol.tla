----------------------------- MODULE RpcProtocol -----------------------------
(***************************************************************************)
(* The steps of a call: what the application and the two streams do to     *)
(* the call objects of Rpc, and how the completion queues of the client    *)
(* and the server hand completed operations to them.                       *)
(*                                                                         *)
(* gRPC itself is external.  It delivers messages in order, tells the      *)
(* client the status that the server finished with, and once a call is     *)
(* cancelled, finished or shut down it fails what cannot be done any more. *)
(***************************************************************************)
EXTENDS Rpc

SourceInit == [emitted |-> 0, end |-> "none", cancelled |-> FALSE]

Init ==
  /\ kind \in Kinds
  /\ client = ClientInit
  /\ server = ServerInit
  /\ wire = WireInit
  /\ app = AppInit
  /\ source = SourceInit
  /\ handler = HandlerInit

-----------------------------------------------------------------------------
(* The application.                                                        *)

\* It asks for at most one element more than it has got, or for everything.
AppRequests(n) ==
  /\ app.held /\ app.end = "none"
  /\ app.demand <= Len(app.got)
  /\ app' = [app EXCEPT !.demand = ElementCountAdd(@, n)]
  /\ client' = ClientRequest(client, n)
  /\ UNCHANGED <<kind, server, wire, source, handler>>

\* Cancel: a stream of requests is cancelled too.
AppCancels ==
  /\ app.held /\ app.end = "none" /\ ~client.cancelled
  /\ client' = [client EXCEPT !.cancelled = TRUE]
  /\ wire' = [wire EXCEPT !.cancelled = @ \/ client.started]
  /\ source' = [source EXCEPT !.cancelled = StreamsRequests]
  /\ UNCHANGED <<kind, server, app, handler>>

\* The subscription is destroyed: RsGrpcTagSubscription drops its reference.
AppDrops ==
  /\ app.held
  /\ app' = [app EXCEPT !.held = FALSE]
  /\ UNCHANGED <<kind, client, server, wire, source, handler>>

-----------------------------------------------------------------------------
(* The client's stream of requests, subscribed to when the call starts.    *)

SourceRuns ==
  /\ StreamsRequests /\ client.started /\ ClientAlive
  /\ source.end = "none" /\ ~source.cancelled

SourceEmits ==
  /\ SourceRuns
  /\ source.emitted < NumRequests[kind] /\ source.emitted < client.asked
  /\ source' = [source EXCEPT !.emitted = @ + 1]
  /\ client' = ClientOnNext(client, source.emitted + 1)
  /\ UNCHANGED <<kind, server, wire, app, handler>>

SourceEnds(how) ==
  /\ SourceRuns
  /\ source' = [source EXCEPT !.end = how]
  /\ client' = IF how = "error" THEN ClientOnError(client) ELSE ClientOnComplete(client)
  /\ UNCHANGED <<kind, server, wire, app, handler>>

-----------------------------------------------------------------------------
(* The handler's stream of responses.                                      *)

HandlerRuns == handler.running /\ handler.end = "none" /\ ServerAlive

HandlerEmits ==
  /\ HandlerRuns
  /\ StreamsResponses => server.retained
  /\ handler.emitted < NumResponses[kind] /\ handler.emitted < server.asked
  /\ handler' = [handler EXCEPT !.emitted = @ + 1]
  /\ server' = ServerOnNext(server, handler.emitted + 1)
  /\ UNCHANGED <<kind, client, wire, app, source>>

HandlerEnds(how) ==
  /\ HandlerRuns
  /\ StreamsResponses => server.retained
  /\ handler' = [handler EXCEPT !.end = how]
  /\ server' = IF how = "error" THEN ServerOnError(server) ELSE ServerOnComplete(server)
  /\ UNCHANGED <<kind, client, wire, app, source>>

(***************************************************************************)
(* The handler asks for more requests.  That is an assumption on handlers: *)
(* what they do with their subscription to the requests is up to them, and *)
(* here it belongs to the one to their responses, as in the operators of   *)
(* rs.  So a bidi handler has it as long as the Writer keeps the other.    *)
(* In client streaming, Init lets go of the other when it has asked for    *)
(* the response, and the handler asks only before that (ServerAccepts).    *)
(* The bound is on what it asks ahead.                                     *)
(***************************************************************************)
HandlerRequests(n) ==
  /\ kind = "bidi" /\ handler.running /\ server.retained
  /\ server.requested = 0
  /\ server' = ServerMaybeReadNext([server EXCEPT !.requested = ElementCountAdd(@, n)])
  /\ UNCHANGED <<kind, client, wire, app, source, handler>>

-----------------------------------------------------------------------------
(* What the transport does.                                                *)

RequestIsSent ==
  /\ client.writing # 0
  /\ client' = [client EXCEPT !.writing = 0]
  /\ wire' = IF Dead THEN wire
             ELSE [wire EXCEPT !.toServer = Append(@, client.writing)]
  /\ UNCHANGED <<kind, server, app, source, handler>>

ResponseIsSent ==
  /\ server.writing # 0
  /\ server' = [server EXCEPT !.writing = 0]
  /\ wire' = IF Dead THEN wire
             ELSE [wire EXCEPT !.toClient = Append(@, server.writing)]
  /\ UNCHANGED <<kind, client, app, source, handler>>

StatusIsSent ==
  /\ "finish" \in server.ops /\ ~Dead
  /\ wire' = [wire EXCEPT !.status = server.status]
  /\ UNCHANGED <<kind, client, server, app, source, handler>>

\* A call object that is freed takes its context with it.
ServerCallIsGone ==
  /\ handler.running /\ ~ServerAlive /\ ~Dead
  /\ wire' = [wire EXCEPT !.status = "error"]
  /\ UNCHANGED <<kind, client, server, app, source, handler>>

ClientCallIsGone ==
  /\ client.started /\ ~ClientAlive /\ ~Dead
  /\ wire' = [wire EXCEPT !.cancelled = TRUE]
  /\ UNCHANGED <<kind, client, server, app, source, handler>>

\* RsGrpcServer::Shutdown
ServerStops ==
  /\ kind \in Stoppable /\ ~wire.stopped
  /\ wire' = [wire EXCEPT !.stopped = TRUE]
  /\ UNCHANGED <<kind, client, server, app, source, handler>>

-----------------------------------------------------------------------------
(* The client's completion queue.  The operation's reference goes away     *)
(* when its handling is over.                                              *)

ReleaseTag(call, op) == [call EXCEPT !.ops = @ \ {op}]

ClientCompletes(op, success, response) ==
  LET done == ClientDone(ReleaseTag(client, op), app, op, success, response)
  IN  client' = done[1] /\ app' = done[2]

ClientSendCompletes(op, success) ==
  /\ op \in client.ops \cap {"start", "write", "writesDone"}
  /\ success \in SendResults(IF op = "write" THEN client.writing ELSE 0)
  /\ ClientCompletes(op, success, 0)
  /\ wire' = [wire EXCEPT !.closed = @ \/ (op = "writesDone" /\ success),
                          !.sendFailed = @ \/ ~success]
  /\ UNCHANGED <<kind, server, source, handler>>

ClientReadSucceeds ==
  /\ "read" \in client.ops
  /\ wire.toClient # <<>>
  /\ ClientCompletes("read", TRUE, Head(wire.toClient))
  /\ wire' = [wire EXCEPT !.toClient = Tail(@)]
  /\ UNCHANGED <<kind, server, source, handler>>

ClientReadFails ==
  /\ "read" \in client.ops
  /\ Broken \/ (wire.status # "none" /\ wire.toClient = <<>>)
  /\ ClientCompletes("read", FALSE, 0)
  /\ UNCHANGED <<kind, server, wire, source, handler>>

\* Finish always succeeds; it is the status that says what happened.
ClientFinishes ==
  /\ "finish" \in client.ops /\ Dead
  /\ ClientCompletes("finish", TRUE, 0)
  /\ UNCHANGED <<kind, server, wire, source, handler>>

-----------------------------------------------------------------------------
(* The server's completion queue.                                          *)

ServerAccepts(n) ==
  /\ "request" \in server.ops /\ client.started /\ ~wire.stopped
  /\ \E r \in Accepted(ReleaseTag(server, "request"), handler, n) :
       server' = r[1] /\ handler' = r[2]
  /\ UNCHANGED <<kind, client, wire, app, source>>

\* No request comes any more.
ServerRequestFails ==
  /\ "request" \in server.ops /\ wire.stopped
  /\ server' = ReleaseTag(server, "request")
  /\ UNCHANGED <<kind, client, wire, app, source, handler>>

ServerReads(success) ==
  /\ "read" \in server.ops
  /\ IF success THEN wire.toServer # <<>>
     ELSE Dead \/ (wire.closed /\ wire.toServer = <<>>)
  /\ \E r \in ServerReadDone(ReleaseTag(server, "read"), handler, success,
                              IF success THEN Head(wire.toServer) ELSE 0) :
       server' = r[1] /\ handler' = r[2]
  /\ wire' = [wire EXCEPT !.toServer = IF success THEN Tail(@) ELSE @]
  /\ UNCHANGED <<kind, client, app, source>>

ServerWriteCompletes(success) ==
  /\ "write" \in server.ops
  /\ success \in SendResults(server.writing)
  /\ server' = ServerSendDone(ReleaseTag(server, "write"), success)
  /\ UNCHANGED <<kind, client, wire, app, source, handler>>

ServerFinishCompletes(success) ==
  /\ "finish" \in server.ops /\ Dead
  /\ success \/ Broken
  /\ server' = ServerSendDone(ReleaseTag(server, "finish"), success)
  /\ UNCHANGED <<kind, client, wire, app, source, handler>>

-----------------------------------------------------------------------------
ApplicationStep ==
  \/ \E n \in Demands[kind] : AppRequests(n)
  \/ AppCancels
  \/ AppDrops

StreamStep ==
  \/ SourceEmits
  \/ \E how \in {"complete", "error"} : SourceEnds(how)
  \/ \E n \in Demands[kind] \ {0} : HandlerRequests(n)

HandlerStep ==
  \/ HandlerEmits
  \/ \E how \in {"complete", "error"} : HandlerEnds(how)

TransportStep ==
  \/ RequestIsSent \/ ResponseIsSent \/ StatusIsSent
  \/ ServerCallIsGone \/ ClientCallIsGone

ClientStep ==
  \/ \E op \in {"start", "write", "writesDone"}, success \in BOOLEAN :
       ClientSendCompletes(op, success)
  \/ ClientReadSucceeds \/ ClientReadFails \/ ClientFinishes

ServerStep ==
  \/ \E n \in Demands[kind] : ServerAccepts(n)
  \/ ServerRequestFails
  \/ \E success \in BOOLEAN :
       \/ ServerReads(success)
       \/ ServerWriteCompletes(success)
       \/ ServerFinishCompletes(success)

Next ==
  \/ ApplicationStep \/ StreamStep \/ HandlerStep
  \/ TransportStep \/ ServerStops \/ ClientStep \/ ServerStep

\* An operation that can complete does, a message that is sent arrives, and
\* the runloops run.  Streams go on until they end, and the application asks
\* for more as long as it listens.
OperationFairness ==
  /\ WF_vars(RequestIsSent) /\ WF_vars(ResponseIsSent) /\ WF_vars(StatusIsSent)
  /\ WF_vars(ServerCallIsGone) /\ WF_vars(ClientCallIsGone)
  /\ \A op \in {"start", "write", "writesDone"} :
       WF_vars(\E success \in BOOLEAN : ClientSendCompletes(op, success))
  /\ WF_vars(ClientReadSucceeds \/ ClientReadFails) /\ WF_vars(ClientFinishes)
  /\ WF_vars(\E n \in Demands[kind] : ServerAccepts(n))
  /\ WF_vars(ServerRequestFails)
  /\ WF_vars(\E success \in BOOLEAN : ServerReads(success))
  /\ WF_vars(\E success \in BOOLEAN : ServerWriteCompletes(success))
  /\ WF_vars(\E success \in BOOLEAN : ServerFinishCompletes(success))

StreamFairness ==
  /\ WF_vars(\E n \in Demands[kind] \ {0} : AppRequests(n))
  /\ WF_vars(\E how \in {"complete", "error"} : SourceEnds(how))
  /\ WF_vars(\E n \in Demands[kind] \ {0} : HandlerRequests(n))

Spec ==
  /\ Init /\ [][Next]_vars
  /\ OperationFairness /\ StreamFairness
  /\ WF_vars(\E how \in {"complete", "error"} : HandlerEnds(how))

-----------------------------------------------------------------------------
\* What the application gets is what the handler's stream emitted, in order
\* and without gaps, and OnComplete only after all of it, when neither the
\* handler's nor the client's stream failed.  In the other direction, a
\* handler that sees its requests end while the call is on has got all of
\* them (client.h, RunEnqueuedOperation, TagOperationDone, Reader::Finish;
\* server.h, RunEnqueuedOperation, TrySendResponse).
StreamsAreFaithful ==
  /\ Len(app.got) <= handler.emitted
  /\ \A i \in 1..Len(app.got) : app.got[i] = i
  /\ app.end = "complete" =>
       /\ handler.end = "complete"
       /\ Len(app.got) = handler.emitted
       /\ StreamsRequests => source.end # "error"
  /\ \A i \in 1..Len(handler.received) : handler.received[i] = i
  /\ handler.sawEnd /\ ~Dead =>
       source.end # "none" /\ Len(handler.received) = source.emitted

\* An operation completes only in a state that expects one, so the abort()
\* and throw that guard the others (server.h:511, 528, 866, 882;
\* client.h:198) are not reached, the subscriber is told the end at most once,
\* and never gets more than it asked for.
CallsKeepTheirPlace ==
  /\ server.state # "ABORTED" /\ client.state # "THROWN"
  /\ app.ends <= 1
  /\ Len(app.got) <= app.demand

\* A call that was started comes to an end for its subscriber, unless it was
\* cancelled or let go of, or a request could not be sent: client.h:370 and
\* 612 take that for a shutdown of the runloop and say nothing.
EveryCallEnds ==
  client.started ~>
    app.end # "none" \/ client.cancelled \/ ~app.held \/ wire.sendFailed

\* Whatever happens to a call, both completion queues let go of it, and the
\* server frees its object: the cycle through Writer::subscription_ and
\* retained_self_ is always broken (server.h:354, 736).
CallsAreFreed == client.started ~> client.ops = {} /\ ~ServerAlive

-----------------------------------------------------------------------------
(***************************************************************************)
(* The inductive invariant behind StreamsAreFaithful and                   *)
(* CallsKeepTheirPlace.                                                    *)
(***************************************************************************)
Client ==
  [started : BOOLEAN, invoke : BOOLEAN,
   state : {"INIT", "AWAITING_REQUEST", "READING_RESPONSE", "FINISHING", "END"},
   requested : 0..MaxValue, cancelled : BOOLEAN, busy : BOOLEAN, next : Nat,
   writesDone : BOOLEAN, finish : BOOLEAN, sentFinal : BOOLEAN, error : BOOLEAN,
   writerDone : BOOLEAN, readerDone : BOOLEAN, asked : Nat, writing : Nat,
   ops : SUBSET {"start", "read", "write", "writesDone", "finish"}]

Server ==
  [state : {"INIT", "AWAITING_REQUEST", "HANDLING", "AWAITING_RESPONSE", "SENDING_RESPONSE",
            "SENT_FINAL_RESPONSE", "WAITING_FOR_DATA_REQUEST", "REQUESTED_DATA",
            "READ_STREAM_ENDED", "STREAM_ENDED", "SENT_RESPONSE"},
   requested : 0..MaxValue, next : Nat, finish : BOOLEAN, status : {"ok", "error"},
   busy : BOOLEAN, sentFinal : BOOLEAN, responses : Nat, error : BOOLEAN,
   finished : BOOLEAN, retained : BOOLEAN, asked : Nat, writing : Nat,
   ops : SUBSET {"request", "read", "write", "finish"}]

Endings == {"none", "complete", "error"}

Wire ==
  [toServer : Seq(Nat), closed : BOOLEAN, toClient : Seq(Nat), status : {"none", "ok", "error"},
   cancelled : BOOLEAN, stopped : BOOLEAN, sendFailed : BOOLEAN]

App == [held : BOOLEAN, demand : 0..MaxValue, got : Seq(Nat), end : Endings, ends : Nat]

Source == [emitted : Nat, end : Endings, cancelled : BOOLEAN]

Handler ==
  [running : BOOLEAN, emitted : Nat, end : Endings, received : Seq(Nat), sawEnd : BOOLEAN]

TypeOK ==
  /\ kind \in Kinds
  /\ client \in Client /\ server \in Server
  /\ wire \in Wire /\ app \in App
  /\ source \in Source /\ handler \in Handler

\* How many elements are in a place for one.
Slot(element) == IF element = 0 THEN 0 ELSE 1

WriterOps == client.ops \ {"read"}

\* A writer c of the requests that s emits has one operation at a time, queues
\* one request behind it and has asked for the next one only if none is queued.
\* It closes the stream after the last request.
WriterInv(c, s) ==
  /\ c.started => c.asked = s.emitted + 1 - Slot(c.next)
  /\ c.next # 0 => c.next = s.emitted
  /\ ~c.busy => c.ops \subseteq {"read"}
  /\ \A o, p \in c.ops \ {"read"} : o = p
  /\ "writesDone" \in c.ops => c.finish
  /\ "finish" \in c.ops => c.sentFinal
  /\ c.sentFinal => c.busy /\ c.ops \subseteq {"read", "finish"}
  /\ c.writesDone => s.end # "none"
  /\ c.finish \/ c.sentFinal => c.next = 0 /\ "write" \notin c.ops /\ s.end # "none"
  /\ s.end = "error" => c.error

ClientWriterInv ==
  IF StreamsRequests
  THEN /\ WriterInv(client, source)
       /\ IF client.started
          THEN ~client.invoke /\ app.demand # 0
          ELSE /\ WriterOps = {} /\ source.emitted = 0 /\ source.end = "none"
               /\ client.next = 0 /\ client.writing = 0 /\ ~client.busy
       /\ ~Dead /\ client.writing # 0 => "write" \in client.ops
       /\ wire.closed => client.finish \/ client.sentFinal
  ELSE client.next = 0 /\ client.writing = 0 /\ "write" \notin client.ops
         /\ "writesDone" \notin client.ops /\ ~wire.closed

\* A queue holds the elements that follow the first k.
Follows(queue, k) == \A j \in 1..Len(queue) : queue[j] = k + j

\* Requests reach the handler in order, and while the call is on none is missing.
RequestsInv ==
  /\ \A i \in 1..Len(handler.received) : handler.received[i] = i
  /\ Follows(wire.toServer, Len(handler.received))
  /\ LET sent == Len(handler.received) + Len(wire.toServer)
     IN  StreamsRequests /\ ~Dead =>
           /\ sent + Slot(client.writing) + Slot(client.next) = source.emitted
           /\ client.writing # 0 => client.writing = sent + 1
  /\ handler.sawEnd => StreamsRequests /\ (Dead \/ (wire.closed /\ wire.toServer = <<>>))

\* The server's call is untouched until it is accepted; then it reads one request
\* at a time.
ServerReaderInv ==
  /\ IF handler.running
     THEN "request" \notin server.ops
     ELSE handler = HandlerInit /\ server \in {ServerInit, ReleaseTag(ServerInit, "request")}
  /\ "read" \in server.ops => StreamsRequests /\ server.state = "REQUESTED_DATA"

\* The server's writer has one operation at a time, and finishes after the last
\* response with a status that tells how the handler's stream ended.
ServerWriterInv ==
  /\ handler.emitted <= NumResponses[kind]
  /\ IF StreamsResponses
     THEN /\ handler.running => server.asked = handler.emitted + 1 - Slot(server.next)
          /\ server.next # 0 => server.next = handler.emitted
          /\ ~Dead /\ server.writing # 0 => "write" \in server.ops
          /\ server.finish => handler.end # "none"
          /\ handler.end = "error" => server.status = "error"
     ELSE /\ server.responses = handler.emitted
          /\ server.writing = 0 /\ server.next = 0 /\ "write" \notin server.ops
          /\ "finish" \in server.ops =>
               /\ handler.end # "none"
               /\ server.status = "ok" => handler.end = "complete" /\ server.responses = 1
  /\ kind = "server_streaming" =>
       /\ "write" \in server.ops => server.state = "SENDING_RESPONSE"
       /\ "finish" \in server.ops => server.state = "SENT_FINAL_RESPONSE"
       /\ server.state = "SENT_FINAL_RESPONSE" => server.next = 0 /\ handler.end # "none"
  /\ kind = "bidi" =>
       /\ ~server.busy => server.ops \cap {"write", "finish"} = {}
       /\ server.sentFinal =>
            server.busy /\ "write" \notin server.ops /\ server.next = 0 /\ handler.end # "none"
       /\ "finish" \in server.ops => server.sentFinal
  /\ kind = "client_streaming" =>
       /\ server.finished => handler.end # "none"
       /\ handler.end = "error" => server.error

\* Reader::TagOperationDone drops what it reads after an error of the requests.
GivenUp == client.state = "END" /\ client.error

\* Responses reach the application in order, and the status comes after them.
ResponsesInv ==
  /\ Len(app.got) <= handler.emitted
  /\ \A i \in 1..Len(app.got) : app.got[i] = i
  /\ IF StreamsResponses
     THEN LET sent == Len(app.got) + Len(wire.toClient)
          IN  ~GivenUp =>
                /\ Follows(wire.toClient, Len(app.got))
                /\ sent <= handler.emitted
                /\ ~Dead => /\ sent + Slot(server.writing) + Slot(server.next) = handler.emitted
                            /\ server.writing # 0 => server.writing = sent + 1
                /\ wire.status = "ok" => sent = handler.emitted
     ELSE /\ wire.toClient = <<>>
          /\ app.got # <<>> => Len(app.got) = 1 /\ wire.status = "ok"
          /\ wire.status = "ok" => handler.emitted = 1
  /\ wire.status = "ok" => handler.end = "complete"

\* No response is left for the client to read.
NothingToRead == Broken \/ (wire.status # "none" /\ wire.toClient = <<>>)

\* The elements that the client reads or is to read.
Outstanding(c) == c.requested + (IF c.state = "READING_RESPONSE" THEN 1 ELSE 0)

\* A client whose responses are streamed has one read at a time, for an element
\* that was asked for.
ClientReaderInv ==
  IF StreamsResponses
  THEN /\ app.demand = Unbounded \/ Len(app.got) + Outstanding(client) <= app.demand
       /\ "read" \in client.ops => client.state = "READING_RESPONSE"
  ELSE "read" \notin client.ops

\* What the four classes of the client's call keep to on the way to the end.
UnaryInv ==
  /\ client.ops \subseteq {"finish"}
  /\ client.ops # {} => client.started /\ app.end = "none"
  /\ ~client.started => app.end = "none"
  /\ client.started => ~client.invoke /\ app.demand # 0
  /\ app.end = "none" => app.got = <<>>

ServerStreamingInv ==
  /\ client.started = ~client.invoke
  /\ client.state = "INIT" => client.ops = IF client.started THEN {"start"} ELSE {}
  /\ client.state = "AWAITING_REQUEST" => client.ops = {}
  /\ client.state = "READING_RESPONSE" => client.ops = {"read"}
  /\ client.state = "FINISHING" => client.ops \subseteq {"finish"} /\ NothingToRead
  /\ client.state # "FINISHING" \/ client.ops # {} => app.end = "none"
  /\ client.state # "END"
  /\ ~client.started => client.state = "INIT"

ClientStreamingInv ==
  /\ ~client.sentFinal \/ "finish" \in client.ops => app.end = "none"
  /\ app.end = "none" => app.got = <<>>

BidiInv ==
  /\ client.writerDone =>
       WriterOps = {} /\ client.busy /\ (client.cancelled \/ client.sentFinal)
  /\ client.readerDone = (client.state = "END")
  /\ client.readerDone /\ ~client.error => NothingToRead
  /\ app.end # "none" => client.writerDone /\ client.readerDone
  /\ client.state \in {"AWAITING_REQUEST", "READING_RESPONSE", "END"}

\* The application is told the end once, and a good one only when all is well.
AppEndInv ==
  /\ app.ends = IF app.end = "none" THEN 0 ELSE 1
  /\ app.end = "complete" =>
       /\ wire.status = "ok"
       /\ StreamsResponses => wire.toClient = <<>> /\ ~GivenUp
       /\ ~StreamsResponses => Len(app.got) = 1
       /\ StreamsRequests => source.end = "complete"
  /\ kind = "unary" => UnaryInv
  /\ kind = "server_streaming" => ServerStreamingInv
  /\ kind = "client_streaming" => ClientStreamingInv
  /\ kind = "bidi" => BidiInv

RpcInv ==
  /\ TypeOK
  /\ ClientWriterInv /\ RequestsInv
  /\ ServerReaderInv /\ ServerWriterInv /\ ResponsesInv
  /\ ClientReaderInv /\ AppEndInv

=============================================================================
