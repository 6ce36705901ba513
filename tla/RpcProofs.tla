------------------------------ MODULE RpcProofs ------------------------------
(***************************************************************************)
(* The calls of rs-grpc, for every set of kinds of call, streams of any    *)
(* length, any demands and any width of the counter of elements: what is   *)
(* streamed in either direction arrives in order and whole, no completed   *)
(* operation finds a call in a state that does not expect it, and a        *)
(* subscriber is told one end and gets no more than it asked for.          *)
(*                                                                         *)
(* A step of Next changes a few fields of one call, so most of its proof   *)
(* is that the other parts of RpcInv do not look at them: the Frame and    *)
(* KeepsRest lemmas say so once.  The Facts lemmas say what an operation   *)
(* of Rpc does to a call, as a relation between the calls before and after *)
(* it, and the Keeps lemmas that an action keeps RpcInv.                   *)
(***************************************************************************)
EXTENDS RpcProtocol, TLAPS

\* Zenon proves the steps that name no other prover.
USE Zenon

-----------------------------------------------------------------------------
(* Numbers of elements.                                                    *)

\* A sum of demands is exact or unbounded.
LEMMA AddFacts ==
  ASSUME NEW a \in 0..MaxValue, NEW b \in 0..MaxValue
  PROVE  /\ ElementCountAdd(a, b) \in 0..MaxValue
         /\ ElementCountAdd(a, b) = Unbounded \/ ElementCountAdd(a, b) = a + b
         /\ a + b < MaxValue => ElementCountAdd(a, b) = a + b
         /\ a # 0 \/ b # 0 => ElementCountAdd(a, b) # 0
BY SMT, MaxValueAssumption DEF ElementCountAdd, MinValue, Unbounded, RangeError

\* One element less, unless the demand is unbounded.
LEMMA DecrementFacts ==
  ASSUME NEW a \in 0..MaxValue, a # 0
  PROVE  /\ Decrement(a) \in 0..MaxValue
         /\ Decrement(a) = a - 1 \/ (a = Unbounded /\ Decrement(a) = Unbounded)
BY SMT, MaxValueAssumption DEF Decrement, MinValue, IsUnbounded, Unbounded

\* Lengths are numbers.
LEMMA LengthsFacts ==
  ASSUME NEW s \in Seq(Nat), NEW t \in Seq(Nat)
  PROVE  Len(s) \in Nat /\ Len(s) + Len(t) \in Nat
BY SMT

\* The next element goes to the end of a queue.
LEMMA AppendFacts ==
  ASSUME NEW t \in Seq(Nat), NEW k \in Nat, Follows(t, k), NEW w, w = k + Len(t) + 1,
         NEW u, u = Append(t, w)
  PROVE  u \in Seq(Nat) /\ Len(u) = Len(t) + 1 /\ Follows(u, k)
BY SMT DEF Follows

\* The first element of a queue is the one that follows.
LEMMA TailFacts ==
  ASSUME NEW t \in Seq(Nat), NEW k \in Nat, Follows(t, k), t # <<>>, NEW u, u = Tail(t)
  PROVE  u \in Seq(Nat) /\ Len(u) + 1 = Len(t) /\ Head(t) = k + 1 /\ Follows(u, k + 1)
BY SMT DEF Follows

\* The parts of a pair.
LEMMA PairFacts ==
  ASSUME NEW a, NEW b
  PROVE  <<a, b>>[1] = a /\ <<a, b>>[2] = b
BY SMT

\* What may be asked for is a demand.
LEMMA DemandFacts ==
  ASSUME TypeOK, NEW n \in Demands[kind]
  PROVE  n \in 0..MaxValue
BY RpcAssumption DEF TypeOK

-----------------------------------------------------------------------------
(* What each part of the invariant looks at: it stays true when that stays *)
(* as it is, and when the call ends.                                       *)

SameCall(c, d) ==
  d.started = c.started /\ d.invoke = c.invoke /\ d.error = c.error /\ d.ops = c.ops

SameReader(c, d) ==
  d.state = c.state /\ d.requested = c.requested /\ d.readerDone = c.readerDone

SameWriter(c, d) ==
  /\ d.busy = c.busy /\ d.next = c.next /\ d.asked = c.asked /\ d.writing = c.writing
  /\ d.writesDone = c.writesDone /\ d.finish = c.finish /\ d.sentFinal = c.sentFinal
  /\ d.writerDone = c.writerDone

\* The writer of the requests looks at the client's call, not at the rest.
LEMMA ClientWriterFrame ==
  ASSUME ClientWriterInv, kind' = kind, Dead => Dead', WriterOps' = WriterOps,
         client'.started = client.started, client'.invoke = client.invoke,
         client'.error = client.error, SameWriter(client, client'),
         source'.emitted = source.emitted, source'.end = source.end,
         app.demand # 0 => app'.demand # 0, wire'.closed = wire.closed
  PROVE  ClientWriterInv'
<1>1. \A op \in {"write", "writesDone", "finish"} : op \in client'.ops <=> op \in client.ops
  BY DEF WriterOps
<1>2. /\ client.ops \subseteq {"read"} => client'.ops \subseteq {"read"}
      /\ client.ops \subseteq {"read", "finish"} => client'.ops \subseteq {"read", "finish"}
      /\ client'.ops \ {"read"} = client.ops \ {"read"}
  BY DEF WriterOps
<1>3. StreamsRequests => WriterInv(client', source')
  BY <1>1, <1>2 DEF ClientWriterInv, WriterInv, SameWriter
<1> QED
  BY <1>1, <1>3 DEF ClientWriterInv, StreamsRequests, SameWriter

\* Requests that nothing touches stay in order.
LEMMA RequestsFrame ==
  ASSUME RequestsInv, kind' = kind, Dead => Dead',
         handler'.received = handler.received, handler'.sawEnd = handler.sawEnd,
         wire'.toServer = wire.toServer, wire'.closed = wire.closed,
         client'.writing = client.writing, client'.next = client.next,
         source'.emitted = source.emitted
  PROVE  RequestsInv'
<1>1. /\ \A i \in 1..Len(handler'.received) : handler'.received[i] = i
      /\ Follows(wire'.toServer, Len(handler'.received))
  BY SMT DEF RequestsInv, Follows
<1>2. handler'.sawEnd => StreamsRequests' /\ (Dead' \/ (wire'.closed /\ wire'.toServer = <<>>))
  BY DEF RequestsInv, StreamsRequests
<1> QED
  BY <1>1, <1>2 DEF RequestsInv, StreamsRequests

\* The reader of the requests looks at the server's call and the handler.
LEMMA ServerReaderFrame ==
  ASSUME ServerReaderInv, UNCHANGED <<kind, server, handler>>
  PROVE  ServerReaderInv'
BY DEF ServerReaderInv, StreamsRequests, HandlerInit, ServerInit, ReleaseTag

\* So does the writer of the responses, and at whether the call is on.
LEMMA ServerWriterFrame ==
  ASSUME ServerWriterInv, UNCHANGED <<kind, server, handler>>, Dead => Dead'
  PROVE  ServerWriterInv'
BY DEF ServerWriterInv, StreamsResponses

\* Responses that nothing touches stay in order.
LEMMA ResponsesFrame ==
  ASSUME ResponsesInv, kind' = kind, Dead => Dead',
         app'.got = app.got, handler'.emitted = handler.emitted, handler'.end = handler.end,
         wire'.toClient = wire.toClient, wire'.status = "ok" => wire.status = "ok",
         wire.status = "ok" => wire'.status = "ok",
         server'.writing = server.writing, server'.next = server.next,
         GivenUp => GivenUp'
  PROVE  ResponsesInv'
BY DEF ResponsesInv, StreamsResponses

\* The reader of the responses looks at the demand and at what was got.
LEMMA ClientReaderFrame ==
  ASSUME ClientReaderInv, kind' = kind,
         app'.demand = app.demand, app'.got = app.got,
         client'.requested = client.requested, client'.state = client.state,
         "read" \in client'.ops <=> "read" \in client.ops
  PROVE  ClientReaderInv'
BY DEF ClientReaderInv, StreamsResponses, Outstanding

\* What the application was told stays as it is.
LEMMA AppEndFrame ==
  ASSUME AppEndInv, kind' = kind,
         app'.end = app.end, app'.ends = app.ends, app'.got = app.got,
         app'.demand = app.demand, source'.end = source.end,
         wire.status = "ok" => wire'.status = "ok", wire'.toClient = wire.toClient,
         NothingToRead => NothingToRead',
         SameCall(client, client'), SameReader(client, client'),
         client'.busy = client.busy, client'.sentFinal = client.sentFinal,
         client'.writerDone = client.writerDone, client.cancelled => client'.cancelled
  PROVE  AppEndInv'
BY SMT DEF AppEndInv, StreamsResponses, StreamsRequests, WriterOps, GivenUp,
       SameCall, SameReader, UnaryInv, ServerStreamingInv, ClientStreamingInv, BidiInv

-----------------------------------------------------------------------------
(* What the operations on the client's call do to it.                      *)

ClientOps == {"start", "read", "write", "writesDone", "finish"}

\* A request for elements may start the call and a read; this it leaves alone.
RequestLeaves(c, d) ==
  /\ d.next = c.next /\ d.writing = c.writing /\ d.writesDone = c.writesDone
  /\ d.finish = c.finish /\ d.sentFinal = c.sentFinal /\ d.writerDone = c.writerDone
  /\ d.readerDone = c.readerDone /\ d.error = c.error /\ d.cancelled = c.cancelled

\* An operation of the client's call is started.
LEMMA StartsType ==
  ASSUME NEW c \in Client, NEW op \in ClientOps
  PROVE  Starts(c, op) \in Client
<1>1. c.ops \cup {op} \in SUBSET ClientOps
  BY DEF Client, ClientOps
<1> QED
  BY <1>1 DEF Starts, Client, ClientOps

\* The first operation of the call.
Invokes(c, d, op) ==
  /\ d.started /\ ~d.invoke /\ d.ops = c.ops \cup {op}
  /\ RequestLeaves(c, d) /\ SameReader(c, d) /\ d.busy = c.busy /\ d.asked = c.asked

\* invoke_ is called once: it is moved from.
LEMMA InvokedFacts ==
  ASSUME NEW c \in Client, NEW op \in ClientOps, NEW d, d = Invoked(c, op)
  PROVE  d \in Client /\ Invokes(c, d, op)
<1>1. [c EXCEPT !.started = TRUE, !.invoke = FALSE] \in Client
  BY DEF Client
<1>2. d \in Client
  BY <1>1, StartsType DEF Invoked
<1>3. Invokes(c, d, op)
  BY DEF Invoked, Starts, Client, RequestLeaves, SameReader, Invokes
<1> QED
  BY <1>2, <1>3

\* The reader takes an element from what was requested and reads, or waits.
Reads(c, d) ==
  /\ c.requested # 0 /\ d.state = "READING_RESPONSE" /\ d.ops = c.ops \cup {"read"}
  /\ c.requested = Unbounded \/ d.requested = c.requested - 1

\* A read is for one of the elements that were requested.
LEMMA ReadFacts ==
  ASSUME NEW c \in Client, c.requested # 0, NEW d,
         d = Starts([c EXCEPT !.requested = Decrement(@), !.state = "READING_RESPONSE"], "read")
  PROVE  /\ d \in Client /\ Reads(c, d) /\ RequestLeaves(c, d)
         /\ d.started = c.started /\ d.invoke = c.invoke
         /\ d.busy = c.busy /\ d.asked = c.asked
<1>1. c.requested \in 0..MaxValue
  BY DEF Client
<1>2. /\ Decrement(c.requested) \in 0..MaxValue
      /\ c.requested = Unbounded \/ Decrement(c.requested) = c.requested - 1
  BY <1>1, DecrementFacts
<1>3. [c EXCEPT !.requested = Decrement(@), !.state = "READING_RESPONSE"] \in Client
  BY <1>2 DEF Client
<1>4. d \in Client
  BY <1>3, StartsType DEF ClientOps
<1>5. d.requested = Decrement(c.requested)
  BY DEF Starts, Client
<1>6. RequestLeaves(c, d)
  BY DEF Starts, Client, RequestLeaves
<1>7. /\ d.started = c.started /\ d.invoke = c.invoke /\ d.busy = c.busy
      /\ d.asked = c.asked /\ d.state = "READING_RESPONSE" /\ d.ops = c.ops \cup {"read"}
  BY DEF Starts, Client
<1> QED
  BY <1>2, <1>4, <1>5, <1>6, <1>7 DEF Reads

\* The client reads on exactly when more was requested.
LEMMA ClientMaybeReadNextFacts ==
  ASSUME NEW c \in Client, NEW d, d = ClientMaybeReadNext(c)
  PROVE  /\ d \in Client /\ RequestLeaves(c, d)
         /\ d.started = c.started /\ d.invoke = c.invoke
         /\ d.busy = c.busy /\ d.asked = c.asked
         /\ \/ Reads(c, d)
            \/ c.requested = 0 /\ d.requested = 0 /\ d.state = "AWAITING_REQUEST"
               /\ d.ops = c.ops
<1>1. c.requested \in Nat
  BY SMT, MaxValueAssumption DEF Client
<1>2. CASE c.requested > 0
  <2>1. c.requested # 0
    BY SMT, <1>2
  <2> QED
    BY <1>2, <2>1, ReadFacts DEF ClientMaybeReadNext
<1>3. CASE ~(c.requested > 0)
  <2>1. c.requested = 0
    BY SMT, <1>1, <1>3
  <2> QED
    BY <1>3, <2>1 DEF ClientMaybeReadNext, Client, RequestLeaves
<1> QED
  BY <1>2, <1>3

\* A request starts a read only if there is none.
LEMMA ReaderRequestFacts ==
  ASSUME NEW c \in Client, NEW n \in 0..MaxValue, NEW d, d = ReaderRequest(c, n)
  PROVE  /\ d \in Client /\ RequestLeaves(c, d)
         /\ d.started = c.started /\ d.invoke = c.invoke
         /\ d.busy = c.busy /\ d.asked = c.asked
         /\ LET requested == ElementCountAdd(c.requested, n)
            IN  \/ /\ c.state = "AWAITING_REQUEST" /\ d.state = "READING_RESPONSE"
                   /\ d.ops = c.ops \cup {"read"} /\ requested # 0
                   /\ requested = Unbounded \/ d.requested = requested - 1
                \/ d.requested = requested /\ d.state = c.state /\ d.ops = c.ops
<1> DEFINE e == [c EXCEPT !.requested = ElementCountAdd(@, n)]
<1>1. ElementCountAdd(c.requested, n) \in 0..MaxValue
  BY AddFacts DEF Client
<1>2. e \in Client /\ RequestLeaves(c, e) /\ e.started = c.started /\ e.invoke = c.invoke
      /\ e.busy = c.busy /\ e.asked = c.asked /\ e.state = c.state /\ e.ops = c.ops
      /\ e.requested = ElementCountAdd(c.requested, n)
  BY <1>1 DEF Client, RequestLeaves
<1>3. CASE e.state = "AWAITING_REQUEST" /\ e.requested > 0
  <2>1. e.requested # 0
    BY SMT, <1>3
  <2>2. d = Starts([e EXCEPT !.requested = Decrement(@), !.state = "READING_RESPONSE"], "read")
    BY <1>3 DEF ReaderRequest
  <2>3. /\ d \in Client /\ Reads(e, d) /\ RequestLeaves(e, d) /\ d.started = e.started
        /\ d.invoke = e.invoke /\ d.busy = e.busy /\ d.asked = e.asked
    BY <1>2, <2>1, <2>2, ReadFacts
  <2>4. RequestLeaves(c, d)
    BY <1>2, <2>3 DEF RequestLeaves
  <2> HIDE DEF e
  <2> QED
    BY <1>2, <1>3, <2>3, <2>4 DEF Reads
<1>4. CASE ~(e.state = "AWAITING_REQUEST" /\ e.requested > 0)
  <2>1. d = e
    BY <1>4 DEF ReaderRequest
  <2> QED
    BY <1>2, <2>1
<1> QED
  BY <1>3, <1>4

-----------------------------------------------------------------------------
(* The application.                                                        *)

\* Cancel of the application's subscription.
LEMMA CancelKeeps ==
  ASSUME RpcInv, AppCancels
  PROVE  RpcInv'
<1>1. TypeOK' /\ kind' = kind
  <2>1. client' \in Client
    BY DEF RpcInv, TypeOK, AppCancels, Client
  <2>2. wire' \in Wire
    BY DEF RpcInv, TypeOK, AppCancels, Client, Wire
  <2>3. StreamsRequests \in BOOLEAN
    BY SMT DEF StreamsRequests
  <2>4. source' \in Source
    BY <2>3 DEF RpcInv, TypeOK, AppCancels, Source
  <2> QED
    BY <2>1, <2>2, <2>4 DEF RpcInv, TypeOK, AppCancels
<1>2. /\ SameCall(client, client') /\ SameReader(client, client')
      /\ SameWriter(client, client') /\ client'.cancelled
  BY DEF RpcInv, TypeOK, AppCancels, Client, SameCall, SameReader, SameWriter
<1>3. /\ source'.emitted = source.emitted /\ source'.end = source.end
      /\ wire'.closed = wire.closed /\ wire'.status = wire.status
      /\ wire'.toServer = wire.toServer /\ wire'.toClient = wire.toClient
      /\ wire'.stopped = wire.stopped /\ (wire.cancelled => wire'.cancelled)
      /\ UNCHANGED <<server, app, handler>>
  BY DEF RpcInv, TypeOK, AppCancels, Wire, Source
<1>4. (Dead => Dead') /\ (NothingToRead => NothingToRead') /\ (GivenUp => GivenUp')
  BY <1>2, <1>3 DEF Dead, NothingToRead, Broken, GivenUp, SameCall, SameReader
<1>5. ClientWriterInv'
  BY <1>1, <1>2, <1>3, <1>4, ClientWriterFrame DEF RpcInv, SameCall, WriterOps
<1>6. RequestsInv'
  BY <1>1, <1>2, <1>3, <1>4, RequestsFrame DEF RpcInv, SameWriter
<1>7. ServerReaderInv' /\ ServerWriterInv'
  BY <1>1, <1>3, <1>4, ServerReaderFrame, ServerWriterFrame DEF RpcInv
<1>8. ResponsesInv'
  BY <1>1, <1>3, <1>4, ResponsesFrame DEF RpcInv
<1>9. ClientReaderInv'
  BY <1>1, <1>2, <1>3, ClientReaderFrame DEF RpcInv, SameCall, SameReader
<1>10. AppEndInv'
  BY <1>1, <1>2, <1>3, <1>4, AppEndFrame DEF RpcInv, SameWriter
<1> QED
  BY <1>1, <1>5, <1>6, <1>7, <1>8, <1>9, <1>10 DEF RpcInv

\* The application's subscription is destroyed.
LEMMA DropKeeps ==
  ASSUME RpcInv, AppDrops
  PROVE  RpcInv'
<1>1. TypeOK' /\ UNCHANGED <<kind, client, server, wire, source, handler>>
  BY DEF RpcInv, TypeOK, AppDrops, App
<1>2. /\ app'.demand = app.demand /\ app'.got = app.got
      /\ app'.end = app.end /\ app'.ends = app.ends
  BY DEF RpcInv, TypeOK, AppDrops, App
<1>3. /\ (Dead => Dead') /\ (NothingToRead => NothingToRead') /\ (GivenUp => GivenUp')
      /\ SameCall(client, client') /\ SameReader(client, client')
      /\ SameWriter(client, client')
  BY <1>1 DEF Dead, NothingToRead, Broken, GivenUp, SameCall, SameReader, SameWriter
<1>4. ClientWriterInv' /\ RequestsInv'
  BY <1>1, <1>2, <1>3, ClientWriterFrame, RequestsFrame DEF RpcInv, WriterOps
<1>5. ServerReaderInv' /\ ServerWriterInv'
  BY <1>1, <1>3, ServerReaderFrame, ServerWriterFrame DEF RpcInv
<1>6. ResponsesInv' /\ ClientReaderInv'
  BY <1>1, <1>2, <1>3, ResponsesFrame, ClientReaderFrame DEF RpcInv
<1>7. AppEndInv'
  BY <1>1, <1>2, <1>3, AppEndFrame DEF RpcInv, SameWriter
<1> QED
  BY <1>1, <1>4, <1>5, <1>6, <1>7 DEF RpcInv

\* A unary call starts with its only operation.
StartsUnary(c, d, n) ==
  /\ d.invoke => c.invoke
  /\ \/ d.started = c.started /\ d.ops = c.ops
     \/ n # 0 /\ d.started /\ ~d.invoke /\ c.invoke /\ d.ops = c.ops \cup {"finish"}

\* Request of a unary call starts it, once.
LEMMA UnaryRequestFacts ==
  ASSUME NEW c \in Client, NEW n \in 0..MaxValue, NEW d, d = UnaryRequest(c, n)
  PROVE  /\ d \in Client /\ RequestLeaves(c, d) /\ SameReader(c, d)
         /\ StartsUnary(c, d, n)
<1> USE DEF StartsUnary
<1>1. CASE d = c
  BY <1>1 DEF RequestLeaves, SameReader
<1>2. CASE d = [c EXCEPT !.invoke = FALSE]
  BY <1>2 DEF Client, RequestLeaves, SameReader
<1>3. CASE c.invoke /\ n > 0 /\ d = Invoked(c, "finish")
  <2>1. n # 0
    BY SMT, <1>3
  <2> QED
    BY <1>3, <2>1, InvokedFacts DEF ClientOps, Invokes
<1> QED
  BY <1>1, <1>2, <1>3 DEF UnaryRequest

\* A call with a stream of requests starts with its writer busy and the first
\* request asked for.
StartsStream(c, d) ==
  /\ c.invoke /\ d.started /\ ~d.invoke /\ d.busy /\ d.asked = 1
  /\ d.ops \ {"read"} = (c.ops \ {"read"}) \cup {"start"}

\* Request of a client streaming call starts it, once.
LEMMA ClientStreamingRequestFacts ==
  ASSUME NEW c \in Client, NEW n \in 0..MaxValue, NEW d, d = ClientStreamingRequest(c, n)
  PROVE  /\ d \in Client /\ RequestLeaves(c, d) /\ SameReader(c, d)
         /\ d = c \/ (StartsStream(c, d) /\ n # 0 /\ d.ops = c.ops \cup {"start"})
<1> DEFINE e == [c EXCEPT !.busy = TRUE, !.asked = 1]
<1>1. CASE d = c
  BY <1>1 DEF RequestLeaves, SameReader
<1>2. CASE c.invoke /\ n # 0 /\ d = Invoked(e, "start")
  <2>0. 1 \in Nat
    BY SMT
  <2>1. e \in Client /\ RequestLeaves(c, e) /\ SameReader(c, e) /\ e.ops = c.ops
        /\ e.busy /\ e.asked = 1
    BY <2>0 DEF Client, RequestLeaves, SameReader
  <2> HIDE DEF e
  <2>2. d \in Client /\ Invokes(e, d, "start")
    BY <1>2, <2>1, InvokedFacts DEF ClientOps
  <2>3. RequestLeaves(c, d) /\ SameReader(c, d)
    BY <2>1, <2>2 DEF RequestLeaves, SameReader, Invokes
  <2>4. d.ops \ {"read"} = (c.ops \ {"read"}) \cup {"start"}
    BY SMT, <2>1, <2>2 DEF Invokes
  <2> QED
    BY <1>2, <2>1, <2>2, <2>3, <2>4 DEF StartsStream, Invokes
<1> QED
  BY <1>1, <1>2 DEF ClientStreamingRequest

\* The demand that a request leaves outstanding, where nothing saturates.
LEMMA ReaderRequestOutstanding ==
  ASSUME NEW c \in Client, NEW n \in 0..MaxValue, c.requested + n < MaxValue
  PROVE  Outstanding(ReaderRequest(c, n)) <= Outstanding(c) + n
<1>1. c.requested \in 0..MaxValue
  BY DEF Client
<1>2. ElementCountAdd(c.requested, n) = c.requested + n
  BY <1>1, AddFacts
<1> DEFINE d == ReaderRequest(c, n)
<1>3. d.requested \in 0..MaxValue
  <2>1. d \in Client
    BY ReaderRequestFacts
  <2> HIDE DEF d
  <2> QED
    BY <2>1 DEF Client
<1>4. \/ c.state = "AWAITING_REQUEST" /\ d.state = "READING_RESPONSE" /\ d.requested = c.requested + n - 1
      \/ d.requested = c.requested + n /\ d.state = c.state
  BY SMT, <1>1, <1>2, ReaderRequestFacts DEF Unbounded
<1> HIDE DEF d
<1>5. Outstanding(d) <= Outstanding(c) + n
  BY SMT, <1>1, <1>3, <1>4, MaxValueAssumption DEF Outstanding
<1> QED
  BY <1>5 DEF d

\* A request to the reader leaves what is written alone, and makes no more
\* outstanding than it asks for.
OnlyReads(c, d) ==
  /\ RequestLeaves(c, d) /\ d.started = c.started /\ d.invoke = c.invoke
  /\ d.busy = c.busy /\ d.asked = c.asked /\ d.ops \ {"read"} = c.ops \ {"read"}

ReaderAsked(c, d, n) ==
  /\ c.requested + n < MaxValue => Outstanding(d) <= Outstanding(c) + n
  /\ d.state = c.state \/ (c.state = "AWAITING_REQUEST" /\ d.state = "READING_RESPONSE")
  /\ "read" \in d.ops => "read" \in c.ops \/ d.state = "READING_RESPONSE"

\* What a request does to the reader, in short.
LEMMA ReaderRequestAsked ==
  ASSUME NEW c \in Client, NEW n \in 0..MaxValue, NEW d, d = ReaderRequest(c, n)
  PROVE  d \in Client /\ OnlyReads(c, d) /\ ReaderAsked(c, d, n)
<1>1. d \in Client
  BY ReaderRequestFacts
<1>2. \/ c.state = "AWAITING_REQUEST" /\ d.state = "READING_RESPONSE" /\ d.ops = c.ops \cup {"read"}
      \/ d.state = c.state /\ d.ops = c.ops
  BY ReaderRequestFacts
<1>3. d.ops \ {"read"} = c.ops \ {"read"}
  BY SMT, <1>2
<1>4. /\ RequestLeaves(c, d) /\ d.started = c.started /\ d.invoke = c.invoke
      /\ d.busy = c.busy /\ d.asked = c.asked
  BY ReaderRequestFacts
<1>5. ReaderAsked(c, d, n)
  BY <1>2, ReaderRequestOutstanding DEF ReaderAsked
<1> QED
  BY <1>1, <1>3, <1>4, <1>5 DEF OnlyReads

\* Request of a bidi call starts it the first time, and goes to its reader.
LEMMA BidiRequestFacts ==
  ASSUME NEW c \in Client, NEW n \in 0..MaxValue, NEW d, d = BidiRequest(c, n)
  PROVE  /\ d \in Client /\ RequestLeaves(c, d)
         /\ \/ d = c
            \/ OnlyReads(c, d) /\ ReaderAsked(c, d, n)
            \/ StartsStream(c, d) /\ n # 0 /\ ReaderAsked(c, d, n)
<1> DEFINE e == Invoked([c EXCEPT !.busy = TRUE, !.asked = 1], "start")
<1>1. CASE d = c
  BY <1>1 DEF RequestLeaves
<1>2. CASE d = ReaderRequest(c, n)
  BY <1>2, ReaderRequestAsked DEF OnlyReads
<1>3. CASE ~c.cancelled /\ c.invoke /\ n # 0 /\ d = ReaderRequest(e, n)
  <2>1. e = ClientStreamingRequest(c, n)
    BY <1>3 DEF ClientStreamingRequest
  <2>2. e # c
    BY <1>3 DEF Invoked, Starts, Client
  <2> HIDE DEF e
  <2>3. /\ e \in Client /\ RequestLeaves(c, e) /\ SameReader(c, e)
        /\ StartsStream(c, e) /\ e.ops = c.ops \cup {"start"}
    BY <2>1, <2>2, ClientStreamingRequestFacts
  <2>4. d \in Client /\ OnlyReads(e, d) /\ ReaderAsked(e, d, n)
    BY <1>3, <2>3, ReaderRequestAsked
  <2>5. RequestLeaves(c, d)
    BY <2>3, <2>4 DEF RequestLeaves, OnlyReads
  <2>6. StartsStream(c, d)
    BY <2>3, <2>4 DEF StartsStream, OnlyReads
  <2>7. ReaderAsked(c, d, n)
    BY <2>3, <2>4 DEF ReaderAsked, SameReader, Outstanding
  <2> QED
    BY <1>3, <2>4, <2>5, <2>6, <2>7
<1> QED
  BY <1>1, <1>2, <1>3 DEF BidiRequest

\* Request of a server streaming call starts it, or goes to its reader.
LEMMA ServerStreamingRequestFacts ==
  ASSUME NEW c \in Client, NEW n \in 0..MaxValue, NEW d, d = ServerStreamingRequest(c, n)
  PROVE  /\ d \in Client /\ RequestLeaves(c, d)
         /\ \/ d = c
            \/ /\ c.invoke /\ n # 0 /\ d.started /\ ~d.invoke
               /\ d.state = c.state /\ d.requested = n /\ d.ops = c.ops \cup {"start"}
            \/ /\ ~c.invoke /\ OnlyReads(c, d) /\ ReaderAsked(c, d, n)
               /\ \/ d.state = c.state /\ d.ops = c.ops
                  \/ /\ c.state = "AWAITING_REQUEST" /\ d.state = "READING_RESPONSE"
                     /\ d.ops = c.ops \cup {"read"}
<1>1. CASE d = c
  BY <1>1 DEF RequestLeaves
<1>2. CASE c.invoke /\ n # 0 /\ d = Invoked([c EXCEPT !.requested = n], "start")
  <2> DEFINE e == [c EXCEPT !.requested = n]
  <2>1. /\ e \in Client /\ RequestLeaves(c, e) /\ e.state = c.state /\ e.requested = n
        /\ e.ops = c.ops
    BY DEF Client, RequestLeaves
  <2>2. d = Invoked(e, "start")
    BY <1>2
  <2> HIDE DEF e
  <2>3. d \in Client /\ Invokes(e, d, "start")
    BY <2>1, <2>2, InvokedFacts DEF ClientOps
  <2>4. RequestLeaves(c, d)
    BY <2>1, <2>3 DEF RequestLeaves, Invokes
  <2> QED
    BY <1>2, <2>1, <2>3, <2>4 DEF Invokes, SameReader
<1>3. CASE ~c.cancelled /\ ~c.invoke
  <2> DEFINE e == [c EXCEPT !.requested = ElementCountAdd(@, n)]
  <2>1. ElementCountAdd(c.requested, n) \in 0..MaxValue
    BY AddFacts DEF Client
  <2>2. e \in Client
    BY <2>1 DEF Client
  <2>3. d = IF e.state = "AWAITING_REQUEST" THEN ClientMaybeReadNext(e) ELSE e
    BY <1>3 DEF ServerStreamingRequest
  <2>4. e.state = "AWAITING_REQUEST" => [e EXCEPT !.state = "AWAITING_REQUEST"] = e
    BY <2>2 DEF Client
  <2>5. d = IF e.state = "AWAITING_REQUEST" /\ e.requested > 0
            THEN Starts([e EXCEPT !.requested = Decrement(@), !.state = "READING_RESPONSE"], "read")
            ELSE e
    <3> HIDE DEF e
    <3> QED
      BY <2>3, <2>4 DEF ClientMaybeReadNext
  <2>6. d = ReaderRequest(c, n)
    BY <2>5 DEF ReaderRequest
  <2>7. \/ d.state = c.state /\ d.ops = c.ops
        \/ /\ c.state = "AWAITING_REQUEST" /\ d.state = "READING_RESPONSE"
           /\ d.ops = c.ops \cup {"read"}
    BY <2>6, ReaderRequestFacts
  <2>8. d \in Client /\ OnlyReads(c, d) /\ ReaderAsked(c, d, n)
    BY <2>6, ReaderRequestAsked
  <2> QED
    BY <1>3, <2>7, <2>8 DEF OnlyReads
<1> QED
  BY <1>1, <1>2, <1>3 DEF ServerStreamingRequest

\* What every kind of call has in common when it is asked for more.
LEMMA RequestKeepsRest ==
  ASSUME RpcInv, NEW n \in 0..MaxValue, AppRequests(n), client' \in Client,
         RequestLeaves(client, client'), client.state = "END" => client'.state = "END",
         ClientWriterInv', ClientReaderInv',
         kind = "unary" => UnaryInv', kind = "server_streaming" => ServerStreamingInv',
         kind = "client_streaming" => ClientStreamingInv', kind = "bidi" => BidiInv'
  PROVE  RpcInv'
<1>1. UNCHANGED <<kind, server, wire, source, handler>> /\ app.end = "none"
  BY DEF AppRequests
<1>2. app' \in App
  BY AddFacts DEF AppRequests, RpcInv, TypeOK, App
<1>3. app'.got = app.got /\ app'.end = app.end /\ app'.ends = app.ends
  BY DEF AppRequests, RpcInv, TypeOK, App
<1>4. TypeOK'
  BY <1>1, <1>2 DEF RpcInv, TypeOK
<1>5. (Dead => Dead') /\ (GivenUp => GivenUp')
  BY <1>1 DEF Dead, GivenUp, RequestLeaves
<1>6. RequestsInv'
  BY <1>1, <1>5, RequestsFrame DEF RpcInv, RequestLeaves
<1>7. ServerReaderInv' /\ ServerWriterInv'
  BY <1>1, <1>5, ServerReaderFrame, ServerWriterFrame DEF RpcInv
<1>8. ResponsesInv'
  BY <1>1, <1>3, <1>5, ResponsesFrame DEF RpcInv
<1>9. AppEndInv'
  <2>1. app'.ends = (IF app'.end = "none" THEN 0 ELSE 1) /\ app'.end # "complete"
    BY <1>1, <1>3 DEF RpcInv, AppEndInv
  <2> QED
    BY <1>1, <2>1 DEF AppEndInv
<1> QED
  BY <1>4, <1>6, <1>7, <1>8, <1>9 DEF RpcInv

\* The writer when a call that streams its requests is asked for more.
LEMMA RequestKeepsWriter ==
  ASSUME RpcInv, NEW n \in 0..MaxValue, AppRequests(n), RequestLeaves(client, client'),
         StreamsRequests,
         \/ client' = client
         \/ OnlyReads(client, client')
         \/ StartsStream(client, client') /\ n # 0
  PROVE  ClientWriterInv'
<1>1. UNCHANGED <<kind, wire, source>> /\ app'.demand = ElementCountAdd(app.demand, n)
  BY DEF AppRequests, RpcInv, TypeOK, App
<1>2. app.demand # 0 \/ n # 0 => app'.demand # 0
  BY <1>1, AddFacts DEF RpcInv, TypeOK, App
<1>3. Dead' = Dead
  BY <1>1 DEF Dead
<1>4. CASE client' = client \/ OnlyReads(client, client')
  <2>1. /\ SameWriter(client, client') /\ client'.started = client.started
        /\ client'.invoke = client.invoke /\ client'.error = client.error
    BY <1>4 DEF OnlyReads, RequestLeaves, SameWriter
  <2>2. WriterOps' = WriterOps
    BY <1>4 DEF OnlyReads, WriterOps
  <2> QED
    BY <1>1, <1>2, <1>3, <2>1, <2>2, ClientWriterFrame DEF RpcInv
<1>5. CASE StartsStream(client, client') /\ n # 0
  <2>1. /\ ~client.started /\ WriterOps = {} /\ source.emitted = 0 /\ source.end = "none"
        /\ client.next = 0 /\ client.writing = 0
    BY <1>5 DEF RpcInv, ClientWriterInv, StartsStream
  <2>2. WriterOps' = {"start"}
    BY <1>5, <2>1 DEF StartsStream, WriterOps
  <2>3. \A op \in {"write", "writesDone", "finish"} : op \notin client'.ops
    BY <2>2 DEF WriterOps
  <2>4. client'.asked = source'.emitted + 1 - Slot(client'.next)
    BY SMT, <1>1, <1>5, <2>1 DEF StartsStream, RequestLeaves, Slot
  <2>5. ~client.sentFinal /\ ~client.finish /\ ~client.writesDone
    BY <2>1 DEF RpcInv, ClientWriterInv, WriterInv
  <2>6. WriterInv(client', source')
    BY <1>1, <1>5, <2>1, <2>2, <2>3, <2>4, <2>5
       DEF WriterInv, WriterOps, StartsStream, RequestLeaves
  <2> QED
    BY <1>1, <1>2, <1>3, <1>5, <2>1, <2>3, <2>5, <2>6
       DEF RpcInv, ClientWriterInv, StreamsRequests, StartsStream, RequestLeaves
<1> QED
  BY <1>4, <1>5

\* The reader's demand when the subscriber asks for more.
LEMMA RequestKeepsReader ==
  ASSUME RpcInv, NEW n \in 0..MaxValue, AppRequests(n), StreamsResponses,
         client' \in Client,
         client.requested + n < MaxValue => Outstanding(client') <= Outstanding(client) + n,
         "read" \in client'.ops => client'.state = "READING_RESPONSE"
  PROVE  ClientReaderInv'
<1>1. /\ kind' = kind /\ app'.demand = ElementCountAdd(app.demand, n) /\ app'.got = app.got
      /\ app.demand \in 0..MaxValue /\ app.got \in Seq(Nat)
      /\ client.requested \in 0..MaxValue /\ client'.requested \in 0..MaxValue
  BY DEF AppRequests, RpcInv, TypeOK, App, Client
<1>2. app'.demand \in 0..MaxValue /\ (app'.demand = Unbounded \/ app'.demand = app.demand + n)
  BY <1>1, AddFacts
<1>3. app.demand = Unbounded => app'.demand = Unbounded
  BY SMT, <1>1, <1>2, MaxValueAssumption DEF Unbounded
<1>4. CASE app'.demand = Unbounded
  BY <1>1, <1>4 DEF ClientReaderInv, StreamsResponses
<1>5. CASE app'.demand # Unbounded
  <2>1. Len(app.got) + Outstanding(client) <= app.demand
    BY <1>3, <1>5 DEF RpcInv, ClientReaderInv
  <2>2. Outstanding(client) \in Nat /\ Outstanding(client') \in Nat
        /\ client.requested <= Outstanding(client) /\ Len(app.got) \in Nat
    BY SMT, <1>1, MaxValueAssumption DEF Outstanding
  <2>3. client.requested + n < MaxValue
    BY SMT, <1>1, <1>2, <1>5, <2>1, <2>2, MaxValueAssumption DEF Unbounded
  <2>4. Len(app.got) + Outstanding(client') <= app'.demand
    BY SMT, <1>1, <1>2, <1>5, <2>1, <2>2, <2>3
  <2> QED
    BY <1>1, <2>4 DEF ClientReaderInv, StreamsResponses, Outstanding
<1> QED
  BY <1>4, <1>5

\* Request of the application's subscription, for the four kinds of call.
LEMMA RequestKeeps ==
  ASSUME RpcInv, NEW n \in Demands[kind], AppRequests(n)
  PROVE  RpcInv'
<1>1. n \in 0..MaxValue
  BY DemandFacts DEF RpcInv
<1>2. /\ client \in Client /\ kind \in KindSet /\ client' = ClientRequest(client, n)
      /\ UNCHANGED <<kind, server, wire, source, handler>>
      /\ app'.got = app.got /\ app'.end = app.end /\ app.end = "none"
      /\ app'.demand = ElementCountAdd(app.demand, n)
  BY RpcAssumption DEF RpcInv, TypeOK, AppRequests, App
<1>3. app.demand # 0 \/ n # 0 => app'.demand # 0
  BY <1>1, <1>2, AddFacts DEF RpcInv, TypeOK, App
<1>4. NothingToRead' = NothingToRead
  BY <1>2 DEF NothingToRead, Broken
<1>5. CASE kind = "unary"
  <2>1. client' = UnaryRequest(client, n)
    BY <1>2, <1>5 DEF ClientRequest
  <2>2. /\ client' \in Client /\ RequestLeaves(client, client')
        /\ SameReader(client, client') /\ StartsUnary(client, client', n)
    BY <1>1, <1>2, <2>1, UnaryRequestFacts
  <2>3. UnaryInv
    BY <1>5 DEF RpcInv, AppEndInv
  <2>4. UnaryInv'
    BY <1>2, <1>3, <2>2, <2>3 DEF UnaryInv, StartsUnary
  <2>5. ClientWriterInv' /\ ClientReaderInv'
    BY <1>2, <1>5, <2>2, <2>4
       DEF RpcInv, ClientWriterInv, ClientReaderInv, StreamsRequests, StreamsResponses,
           RequestLeaves, UnaryInv
  <2> QED
    BY <1>1, <1>5, <2>2, <2>4, <2>5, RequestKeepsRest DEF SameReader
<1>6. CASE kind = "server_streaming"
  <2>1. client' = ServerStreamingRequest(client, n)
    BY <1>2, <1>6 DEF ClientRequest
  <2>2. client' \in Client /\ RequestLeaves(client, client')
    BY <1>1, <1>2, <2>1, ServerStreamingRequestFacts
  <2>3. \/ client' = client
        \/ /\ client.invoke /\ n # 0 /\ client'.started /\ ~client'.invoke
           /\ client'.state = client.state /\ client'.requested = n
           /\ client'.ops = client.ops \cup {"start"}
        \/ /\ ~client.invoke /\ OnlyReads(client, client') /\ ReaderAsked(client, client', n)
           /\ \/ client'.state = client.state /\ client'.ops = client.ops
              \/ /\ client.state = "AWAITING_REQUEST" /\ client'.state = "READING_RESPONSE"
                 /\ client'.ops = client.ops \cup {"read"}
    BY <1>1, <1>2, <2>1, ServerStreamingRequestFacts
  <2>4. ServerStreamingInv
    BY <1>6 DEF RpcInv, AppEndInv
  <2>5. ServerStreamingInv'
    <3>1. CASE client' = client
      BY <1>2, <1>4, <2>4, <3>1 DEF ServerStreamingInv
    <3>2. CASE client.invoke /\ client'.started /\ ~client'.invoke
               /\ client'.state = client.state /\ client'.ops = client.ops \cup {"start"}
      BY <1>2, <1>4, <2>4, <3>2 DEF ServerStreamingInv
    <3>3. CASE OnlyReads(client, client') /\ client'.state = client.state
               /\ client'.ops = client.ops
      BY <1>2, <1>4, <2>4, <3>3 DEF ServerStreamingInv, OnlyReads
    <3>4. CASE ~client.invoke /\ OnlyReads(client, client') /\ client.state = "AWAITING_REQUEST"
               /\ client'.state = "READING_RESPONSE" /\ client'.ops = client.ops \cup {"read"}
      BY <1>2, <1>4, <2>4, <3>4 DEF ServerStreamingInv, OnlyReads
    <3> QED
      BY <2>3, <3>1, <3>2, <3>3, <3>4
  <2>6. "read" \in client'.ops => client'.state = "READING_RESPONSE"
    <3>1. "read" \in client.ops => client.state = "READING_RESPONSE"
      BY <1>6 DEF RpcInv, ClientReaderInv, StreamsResponses
    <3> QED
      BY SMT, <2>3, <3>1
  <2>7. client.requested + n < MaxValue => Outstanding(client') <= Outstanding(client) + n
    BY SMT, <1>1, <1>2, <2>3, MaxValueAssumption DEF ReaderAsked, Outstanding, Client
  <2>8. ClientWriterInv' /\ ClientReaderInv'
    BY <1>1, <1>2, <1>6, <2>2, <2>3, <2>6, <2>7, RequestKeepsReader
       DEF RpcInv, ClientWriterInv, StreamsRequests, StreamsResponses, RequestLeaves
  <2> QED
    BY <1>1, <1>6, <2>2, <2>3, <2>4, <2>5, <2>8, RequestKeepsRest DEF ServerStreamingInv
<1>7. CASE kind = "client_streaming"
  <2>1. client' = ClientStreamingRequest(client, n)
    BY <1>2, <1>7 DEF ClientRequest
  <2>2. client' \in Client /\ RequestLeaves(client, client') /\ SameReader(client, client')
    BY <1>1, <1>2, <2>1, ClientStreamingRequestFacts
  <2>3. \/ client' = client
        \/ StartsStream(client, client') /\ n # 0 /\ client'.ops = client.ops \cup {"start"}
    BY <1>1, <1>2, <2>1, ClientStreamingRequestFacts
  <2>4. ClientWriterInv'
    BY <1>1, <1>7, <2>2, <2>3, RequestKeepsWriter DEF StreamsRequests
  <2>5. ClientReaderInv'
    BY <1>2, <1>7, <2>3 DEF RpcInv, ClientReaderInv, StreamsResponses
  <2>6. ClientStreamingInv'
    BY <1>2, <1>7, <2>2, <2>3 DEF RpcInv, AppEndInv, ClientStreamingInv, RequestLeaves
  <2> QED
    BY <1>1, <1>7, <2>2, <2>4, <2>5, <2>6, RequestKeepsRest DEF SameReader
<1>8. CASE kind = "bidi"
  <2>1. client' = BidiRequest(client, n)
    BY <1>2, <1>8 DEF ClientRequest
  <2>2. client' \in Client /\ RequestLeaves(client, client')
    BY <1>1, <1>2, <2>1, BidiRequestFacts
  <2>3. \/ client' = client
        \/ OnlyReads(client, client') /\ ReaderAsked(client, client', n)
        \/ StartsStream(client, client') /\ n # 0 /\ ReaderAsked(client, client', n)
    BY <1>1, <1>2, <2>1, BidiRequestFacts
  <2>4. ClientWriterInv'
    BY <1>1, <1>8, <2>2, <2>3, RequestKeepsWriter DEF StreamsRequests
  <2>5. BidiInv /\ client.requested \in 0..MaxValue
    BY <1>2, <1>8 DEF RpcInv, AppEndInv, Client
  <2>6. client.requested + n < MaxValue => Outstanding(client') <= Outstanding(client) + n
    BY SMT, <1>1, <2>3, <2>5, MaxValueAssumption DEF ReaderAsked, Outstanding
  <2>7. "read" \in client'.ops => client'.state = "READING_RESPONSE"
    <3>1. "read" \in client.ops => client.state = "READING_RESPONSE"
      BY <1>8 DEF RpcInv, ClientReaderInv, StreamsResponses
    <3> QED
      BY SMT, <2>3, <3>1 DEF ReaderAsked
  <2>8. ClientReaderInv'
    BY <1>1, <1>8, <2>2, <2>6, <2>7, RequestKeepsReader DEF StreamsResponses
  <2>9. client'.state = client.state
        \/ (client.state = "AWAITING_REQUEST" /\ client'.state = "READING_RESPONSE")
    BY <2>3 DEF ReaderAsked
  <2>10. client.writerDone => WriterOps' = WriterOps /\ client'.busy
    BY <1>8, <2>3, <2>5
       DEF BidiInv, RpcInv, ClientWriterInv, StreamsRequests, WriterOps, OnlyReads, StartsStream
  <2>11. BidiInv'
    BY <1>2, <1>4, <2>2, <2>5, <2>9, <2>10 DEF BidiInv, RequestLeaves
  <2> QED
    BY <1>1, <1>8, <2>2, <2>4, <2>8, <2>9, <2>11, RequestKeepsRest
<1> QED
  BY <1>2, <1>5, <1>6, <1>7, <1>8 DEF KindSet

-----------------------------------------------------------------------------
(* The client's stream of requests.                                        *)

\* RunEnqueuedOperation starts the next operation of the writer, if there is one.
WriterLeaves(c, d) ==
  /\ d.started = c.started /\ d.invoke = c.invoke /\ d.cancelled = c.cancelled
  /\ d.error = c.error /\ d.writerDone = c.writerDone /\ SameReader(c, d)

StartsWrite(c, d) ==
  /\ ~c.busy /\ d.busy /\ c.next # 0 /\ d.writing = c.next /\ d.next = 0
  /\ d.asked = c.asked + 1 /\ d.ops = c.ops \cup {"write"}
  /\ d.writesDone = c.writesDone /\ d.finish = c.finish /\ d.sentFinal = c.sentFinal

StartsClosing(c, d) ==
  /\ ~c.busy /\ d.busy /\ c.next = 0 /\ d.next = 0 /\ d.writing = c.writing
  /\ d.asked = c.asked /\ d.ops = c.ops \cup {"writesDone"}
  /\ c.writesDone /\ ~d.writesDone /\ d.finish /\ d.sentFinal = c.sentFinal

StartsFinish(c, d) ==
  /\ ~c.busy /\ d.busy /\ c.next = 0 /\ d.next = 0 /\ d.writing = c.writing
  /\ d.asked = c.asked /\ d.ops = c.ops \cup {"finish"}
  /\ d.writesDone = c.writesDone /\ c.finish /\ ~d.finish /\ d.sentFinal

RunsWriter(c, d) ==
  d = c \/ StartsWrite(c, d) \/ StartsClosing(c, d) \/ StartsFinish(c, d)

\* One operation is started, if the writer has none: a write before the others.
LEMMA RunFacts ==
  ASSUME NEW c \in Client, NEW d, d = ClientRunEnqueuedOperation(c)
  PROVE  d \in Client /\ WriterLeaves(c, d) /\ RunsWriter(c, d)
<1> DEFINE write == [c EXCEPT !.busy = TRUE, !.writing = c.next, !.next = 0, !.asked = @ + 1]
           close == [c EXCEPT !.writesDone = FALSE, !.finish = TRUE, !.busy = TRUE]
           end == [c EXCEPT !.finish = FALSE, !.busy = TRUE, !.sentFinal = TRUE]
<1>1. CASE d = c
  BY <1>1 DEF WriterLeaves, SameReader, RunsWriter
<1>2. CASE ~c.busy /\ c.next # 0 /\ d = Starts(write, "write")
  <2>1. c.asked + 1 \in Nat /\ 0 \in Nat
    BY SMT DEF Client
  <2>2. write \in Client
    BY <2>1 DEF Client
  <2>3. d \in Client
    BY <1>2, <2>2, StartsType DEF ClientOps
  <2>4. WriterLeaves(c, d)
    BY <1>2 DEF Starts, Client, WriterLeaves, SameReader
  <2>5. d.busy /\ d.writing = c.next /\ d.next = 0 /\ d.asked = c.asked + 1
    BY <1>2 DEF Starts, Client
  <2>6. /\ d.writesDone = c.writesDone /\ d.finish = c.finish /\ d.sentFinal = c.sentFinal
        /\ d.ops = c.ops \cup {"write"}
    BY SMT, <1>2 DEF Starts, Client
  <2> QED
    BY <1>2, <2>3, <2>4, <2>5, <2>6 DEF RunsWriter, StartsWrite
<1>3. CASE ~c.busy /\ c.next = 0 /\ c.writesDone /\ d = Starts(close, "writesDone")
  <2>1. close \in Client
    BY DEF Client
  <2>2. d \in Client
    BY <1>3, <2>1, StartsType DEF ClientOps
  <2>3. WriterLeaves(c, d)
    BY <1>3 DEF Starts, Client, WriterLeaves, SameReader
  <2>4. /\ d.busy /\ d.next = c.next /\ d.writing = c.writing /\ d.asked = c.asked
        /\ d.ops = c.ops \cup {"writesDone"}
        /\ ~d.writesDone /\ d.finish /\ d.sentFinal = c.sentFinal
    BY <1>3 DEF Starts, Client
  <2> QED
    BY <1>3, <2>2, <2>3, <2>4 DEF RunsWriter, StartsClosing
<1>4. CASE ~c.busy /\ c.next = 0 /\ ~c.writesDone /\ c.finish /\ d = Starts(end, "finish")
  <2>1. end \in Client
    BY DEF Client
  <2>2. d \in Client
    BY <1>4, <2>1, StartsType DEF ClientOps
  <2>3. WriterLeaves(c, d)
    BY <1>4 DEF Starts, Client, WriterLeaves, SameReader
  <2>4. /\ d.busy /\ d.next = c.next /\ d.writing = c.writing /\ d.asked = c.asked
        /\ d.ops = c.ops \cup {"finish"}
        /\ d.writesDone = c.writesDone /\ ~d.finish /\ d.sentFinal
    BY <1>4 DEF Starts, Client
  <2> QED
    BY <1>4, <2>2, <2>3, <2>4 DEF RunsWriter, StartsFinish
<1> QED
  BY <1>1, <1>2, <1>3, <1>4 DEF ClientRunEnqueuedOperation

\* That keeps what is true of the writer.
LEMMA RunKeepsWriter ==
  ASSUME NEW c \in Client, NEW s \in Source, WriterInv(c, s),
         NEW d \in Client, WriterLeaves(c, d), RunsWriter(c, d)
  PROVE  WriterInv(d, s)
<1>1. ~c.busy => c.ops \subseteq {"read"} /\ ~c.sentFinal
  BY DEF WriterInv
<1>2. CASE StartsWrite(c, d)
  <2>1. d.ops \subseteq {"read", "write"} /\ ~("writesDone" \in d.ops) /\ ~("finish" \in d.ops)
    BY <1>1, <1>2 DEF StartsWrite
  <2>2. d.started => d.asked = s.emitted + 1 - Slot(d.next)
    BY SMT, <1>2 DEF StartsWrite, WriterInv, WriterLeaves, Slot, Client, Source
  <2> QED
    BY <1>1, <1>2, <2>1, <2>2 DEF StartsWrite, WriterInv, WriterLeaves
<1>3. CASE StartsClosing(c, d)
  <2>1. d.ops \subseteq {"read", "writesDone"} /\ ~("write" \in d.ops) /\ ~("finish" \in d.ops)
    BY <1>1, <1>3 DEF StartsClosing
  <2> QED
    BY <1>1, <1>3, <2>1 DEF StartsClosing, WriterInv, WriterLeaves
<1>4. CASE StartsFinish(c, d)
  <2>1. d.ops \subseteq {"read", "finish"} /\ ~("write" \in d.ops) /\ ~("writesDone" \in d.ops)
    BY <1>1, <1>4 DEF StartsFinish
  <2> QED
    BY <1>1, <1>4, <2>1 DEF StartsFinish, WriterInv, WriterLeaves
<1> QED
  BY <1>2, <1>3, <1>4 DEF RunsWriter

\* Requests stay in order when the writer goes from c to its next operation.
LEMMA RunKeepsRequests ==
  ASSUME RpcInv, StreamsRequests, UNCHANGED <<kind, handler>>, Dead' = Dead,
         app'.demand = app.demand, client.started, source' \in Source,
         wire'.toServer = wire.toServer, wire.closed => wire'.closed,
         NEW c \in Client, c.started, ~c.invoke, WriterInv(c, source'),
         client' \in Client, WriterLeaves(c, client'), RunsWriter(c, client'),
         wire'.closed => c.finish \/ c.sentFinal,
         ~Dead /\ c.writing # 0 => "write" \in c.ops,
         NEW sent, sent = Len(handler.received) + Len(wire.toServer),
         ~Dead => sent + Slot(c.writing) + Slot(c.next) = source'.emitted,
         ~Dead /\ c.writing # 0 => c.writing = sent + 1
  PROVE  ClientWriterInv' /\ RequestsInv'
<1>1. WriterInv(client', source')
  BY RunKeepsWriter
<1>2. ~Dead /\ ~c.busy => c.writing = 0
  BY DEF WriterInv
<1>3. ~Dead' /\ client'.writing # 0 => "write" \in client'.ops
  BY <1>2 DEF RunsWriter, StartsWrite, StartsClosing, StartsFinish
<1>4. wire'.closed => client'.finish \/ client'.sentFinal
  BY DEF RunsWriter, StartsWrite, StartsClosing, StartsFinish
<1>5. client'.started /\ ~client'.invoke /\ app'.demand # 0
  BY DEF WriterLeaves, RpcInv, ClientWriterInv
<1>6. ClientWriterInv'
  BY <1>1, <1>3, <1>4, <1>5 DEF ClientWriterInv, StreamsRequests
<1>7. /\ handler.received \in Seq(Nat) /\ wire.toServer \in Seq(Nat)
      /\ c.next \in Nat /\ c.writing \in Nat /\ source'.emitted \in Nat
  BY DEF RpcInv, TypeOK, Handler, Wire, Client, Source
<1>8. ~Dead => /\ sent + Slot(client'.writing) + Slot(client'.next) = source'.emitted
               /\ client'.writing # 0 => client'.writing = sent + 1
  <2>1. CASE StartsWrite(c, client')
    <3>1. sent \in Nat
      BY <1>7, LengthsFacts
    <3>2. /\ c.next # 0 /\ c.next = source'.emitted /\ client'.writing = c.next
          /\ client'.next = 0 /\ (~Dead => c.writing = 0)
      BY <1>2, <2>1 DEF StartsWrite, WriterInv
    <3> QED
      <4>1. ~Dead => sent + Slot(c.writing) + Slot(c.next) = source'.emitted
        OBVIOUS
      <4> QED
        BY ONLY SMT, <1>7, <3>1, <3>2, <4>1 DEF Slot
  <2>2. CASE StartsClosing(c, client') \/ StartsFinish(c, client')
    BY <2>2 DEF StartsClosing, StartsFinish
  <2> QED
    BY <2>1, <2>2 DEF RunsWriter
<1>9. RequestsInv'
  <2>1. /\ \A i \in 1..Len(handler'.received) : handler'.received[i] = i
        /\ Follows(wire'.toServer, Len(handler'.received))
    BY SMT DEF RpcInv, RequestsInv, Follows
  <2>2. handler'.sawEnd => StreamsRequests' /\ (Dead' \/ (wire'.closed /\ wire'.toServer = <<>>))
    BY DEF RpcInv, RequestsInv, StreamsRequests
  <2> QED
    BY <1>8, <2>1, <2>2 DEF RequestsInv
<1> QED
  BY <1>6, <1>9

\* What else stays when the client's stream of requests emits or ends.
LEMMA SourceKeepsRest ==
  ASSUME RpcInv, StreamsRequests, UNCHANGED <<kind, server, wire, app, handler>>,
         NEW c \in Client, client' \in Client, source' \in Source, client.started,
         WriterInv(c, source'), WriterLeaves(c, client'), RunsWriter(c, client'),
         c.started, ~c.invoke, SameReader(client, c), c.writerDone = client.writerDone,
         c.sentFinal = client.sentFinal, c.ops = client.ops, c.busy = client.busy,
         c.cancelled = client.cancelled,
         client.error => c.error, source.end = "none",
         ClientWriterInv', RequestsInv'
  PROVE  RpcInv'
<1>1. TypeOK'
  BY DEF RpcInv, TypeOK
<1>2. (Dead => Dead') /\ (GivenUp => GivenUp') /\ (NothingToRead' = NothingToRead)
  BY DEF Dead, GivenUp, NothingToRead, Broken, WriterLeaves, SameReader
<1>3. ServerReaderInv' /\ ServerWriterInv'
  BY <1>2, ServerReaderFrame, ServerWriterFrame DEF RpcInv
<1>4. ResponsesInv'
  BY <1>2, ResponsesFrame DEF RpcInv
<1>5. "read" \in client'.ops <=> "read" \in client.ops
  BY DEF RunsWriter, StartsWrite, StartsClosing, StartsFinish
<1>6. ClientReaderInv'
  BY <1>5, ClientReaderFrame DEF RpcInv, WriterLeaves, SameReader
<1>7. app.end # "complete"
  BY DEF RpcInv, AppEndInv
<1>8. kind = "client_streaming" => ClientStreamingInv'
  <2>1. ~client'.sentFinal => ~client.sentFinal
    BY DEF RunsWriter, StartsWrite, StartsClosing, StartsFinish, WriterInv
  <2>2. "finish" \in client'.ops => "finish" \in client.ops \/ ~client.sentFinal
    BY DEF RunsWriter, StartsWrite, StartsClosing, StartsFinish, WriterInv
  <2> QED
    BY <2>1, <2>2 DEF RpcInv, AppEndInv, ClientStreamingInv
<1>9. kind = "bidi" => BidiInv'
  <2> SUFFICES ASSUME BidiInv PROVE BidiInv'
    BY DEF RpcInv, AppEndInv
  <2>1. client.writerDone => client'.ops = client.ops /\ client'.busy
                               /\ client'.sentFinal = client.sentFinal
    BY DEF RunsWriter, StartsWrite, StartsClosing, StartsFinish, BidiInv
  <2>2. client'.error \/ ~client.error
    BY DEF WriterLeaves
  <2> QED
    BY <1>2, <2>1, <2>2 DEF BidiInv, WriterLeaves, SameReader, WriterOps
<1>10. AppEndInv'
  BY <1>7, <1>8, <1>9 DEF RpcInv, AppEndInv, StreamsRequests
<1> QED
  BY <1>1, <1>3, <1>4, <1>6, <1>10 DEF RpcInv

\* A writer that is given a request to send, or told the end, and nothing else.
LEMMA SourceRunsFacts ==
  ASSUME RpcInv, SourceRuns
  PROVE  /\ StreamsRequests /\ client.started /\ ~client.invoke /\ source.end = "none"
         /\ client \in Client /\ source \in Source /\ WriterInv(client, source)
         /\ ~client.finish /\ ~client.sentFinal /\ ~wire.closed /\ ~client.writesDone
<1>1. StreamsRequests /\ client.started /\ source.end = "none"
  BY DEF SourceRuns
<1>2. ClientWriterInv /\ client \in Client /\ source \in Source
  BY DEF RpcInv, TypeOK
<1> QED
  BY <1>1, <1>2 DEF ClientWriterInv, WriterInv

\* The client's stream emits a request.
LEMMA SourceEmitsKeeps ==
  ASSUME RpcInv, SourceEmits
  PROVE  RpcInv'
<1> DEFINE c == [client EXCEPT !.next = source.emitted + 1]
<1>1. SourceRuns /\ UNCHANGED <<kind, server, wire, app, handler>>
  BY DEF SourceEmits
<1>2. /\ StreamsRequests /\ client.started /\ ~client.invoke /\ source.end = "none"
      /\ client \in Client /\ source \in Source /\ WriterInv(client, source)
      /\ ~client.finish /\ ~client.sentFinal /\ ~wire.closed /\ ~client.writesDone
  BY <1>1, SourceRunsFacts
<1>3. source.emitted \in Nat /\ client.next \in Nat /\ client.asked \in Nat
  BY <1>2 DEF Source, Client
<1>4. client.next = 0
  <2>1. client.asked = source.emitted + 1 - Slot(client.next) /\ source.emitted < client.asked
    BY <1>2 DEF WriterInv, SourceEmits
  <2> QED
    BY SMT, <1>3, <2>1 DEF Slot
<1>5. source.emitted + 1 \in Nat /\ source.emitted + 1 # 0
  BY SMT, <1>3
<1>6. c \in Client
  BY <1>2, <1>5 DEF Client
<1>7. /\ SameReader(client, c) /\ c.started = client.started /\ c.invoke = client.invoke
      /\ c.writerDone = client.writerDone /\ c.sentFinal = client.sentFinal
      /\ c.ops = client.ops /\ c.busy = client.busy /\ c.cancelled = client.cancelled
      /\ c.error = client.error /\ c.finish = client.finish /\ c.writesDone = client.writesDone
      /\ c.writing = client.writing /\ c.asked = client.asked /\ c.next = source.emitted + 1
  BY <1>2 DEF Client, SameReader
<1>8. /\ source' \in Source /\ source'.emitted = source.emitted + 1
      /\ source'.end = source.end
  BY <1>2, <1>5 DEF SourceEmits, Source
<1>9. client' = ClientRunEnqueuedOperation(c)
  BY <1>4 DEF SourceEmits, ClientOnNext
<1> HIDE DEF c
<1>10. client' \in Client /\ WriterLeaves(c, client') /\ RunsWriter(c, client')
  BY <1>6, <1>9, RunFacts
<1>11. WriterInv(c, source')
  <2>1. c.asked = source'.emitted + 1 - Slot(c.next)
    <3>1. client.asked = source.emitted + 1 - Slot(client.next)
      BY <1>2 DEF WriterInv
    <3> QED
      BY SMT, <1>3, <1>4, <1>5, <1>7, <1>8, <3>1 DEF Slot
  <2> QED
    BY <1>2, <1>7, <1>8, <2>1 DEF WriterInv
<1>12. ClientWriterInv' /\ RequestsInv'
  <2> DEFINE sent == Len(handler.received) + Len(wire.toServer)
  <2>1. sent \in Nat
    BY LengthsFacts DEF RpcInv, TypeOK, Handler, Wire
  <2>2. ~Dead => /\ sent + Slot(client.writing) + Slot(client.next) = source.emitted
                 /\ client.writing # 0 => client.writing = sent + 1
    BY <1>2 DEF RpcInv, RequestsInv
  <2> HIDE DEF sent
  <2>3. ~Dead => /\ sent + Slot(c.writing) + Slot(c.next) = source'.emitted
                 /\ c.writing # 0 => c.writing = sent + 1
    BY SMT, <1>3, <1>4, <1>5, <1>7, <1>8, <2>1, <2>2 DEF Slot
  <2>4. Dead' = Dead
    BY <1>1 DEF Dead
  <2>5. ~Dead /\ c.writing # 0 => "write" \in c.ops
    BY <1>2, <1>7 DEF RpcInv, ClientWriterInv
  <2> QED
    BY <1>1, <1>2, <1>6, <1>7, <1>8, <1>10, <1>11, <2>3, <2>4, <2>5, RunKeepsRequests
    DEF sent
<1> QED
  BY <1>1, <1>2, <1>6, <1>7, <1>8, <1>10, <1>11, <1>12, SourceKeepsRest

\* The client's stream of requests ends.
LEMMA SourceEndsKeeps ==
  ASSUME RpcInv, NEW how \in {"complete", "error"}, SourceEnds(how)
  PROVE  RpcInv'
<1> DEFINE c == IF how = "error" THEN [client EXCEPT !.error = TRUE, !.writesDone = TRUE]
                ELSE [client EXCEPT !.writesDone = TRUE]
<1>1. SourceRuns /\ UNCHANGED <<kind, server, wire, app, handler>>
  BY DEF SourceEnds
<1>2. /\ StreamsRequests /\ client.started /\ ~client.invoke /\ source.end = "none"
      /\ client \in Client /\ source \in Source /\ WriterInv(client, source)
      /\ ~client.finish /\ ~client.sentFinal /\ ~wire.closed /\ ~client.writesDone
  BY <1>1, SourceRunsFacts
<1>3. c \in Client
  BY <1>2 DEF Client
<1>4. /\ SameReader(client, c) /\ c.started = client.started /\ c.invoke = client.invoke
      /\ c.writerDone = client.writerDone /\ c.sentFinal = client.sentFinal
      /\ c.ops = client.ops /\ c.busy = client.busy /\ c.cancelled = client.cancelled
  BY <1>2 DEF Client, SameReader
<1>5. /\ c.finish = client.finish /\ c.writing = client.writing /\ c.asked = client.asked
      /\ c.next = client.next /\ (client.error => c.error) /\ (how = "error" => c.error)
  BY <1>2 DEF Client
<1>6. source' \in Source /\ source'.emitted = source.emitted /\ source'.end = how
  BY <1>2 DEF SourceEnds, Source, Endings
<1>7. client' = ClientRunEnqueuedOperation(c)
  BY DEF SourceEnds, ClientOnError, ClientOnComplete
<1> HIDE DEF c
<1>8. client' \in Client /\ WriterLeaves(c, client') /\ RunsWriter(c, client')
  BY <1>3, <1>7, RunFacts
<1>9. WriterInv(c, source')
  BY <1>2, <1>4, <1>5, <1>6 DEF WriterInv
<1>10. ClientWriterInv' /\ RequestsInv'
  <2> DEFINE sent == Len(handler.received) + Len(wire.toServer)
  <2>1. ~Dead => /\ sent + Slot(c.writing) + Slot(c.next) = source'.emitted
                 /\ c.writing # 0 => c.writing = sent + 1
    BY <1>2, <1>5, <1>6 DEF RpcInv, RequestsInv
  <2>2. Dead' = Dead
    BY <1>1 DEF Dead
  <2>3. ~Dead /\ c.writing # 0 => "write" \in c.ops
    BY <1>2, <1>4, <1>5 DEF RpcInv, ClientWriterInv
  <2> HIDE DEF sent
  <2> QED
    BY <1>1, <1>2, <1>3, <1>4, <1>5, <1>6, <1>8, <1>9, <2>1, <2>2, <2>3, RunKeepsRequests
       DEF sent
<1> QED
  BY <1>1, <1>2, <1>3, <1>4, <1>5, <1>6, <1>8, <1>9, <1>10, SourceKeepsRest

-----------------------------------------------------------------------------
(* The transport.                                                          *)

\* A request leaves the client.
LEMMA RequestIsSentKeeps ==
  ASSUME RpcInv, RequestIsSent
  PROVE  RpcInv'
<1>1. /\ client.writing # 0 /\ client \in Client /\ wire \in Wire
      /\ UNCHANGED <<kind, server, app, source, handler>>
  BY DEF RequestIsSent, RpcInv, TypeOK
<1>2. /\ client' \in Client /\ SameCall(client, client') /\ SameReader(client, client')
      /\ client'.cancelled = client.cancelled
  BY <1>1 DEF RequestIsSent, Client, SameCall, SameReader
<1>3. /\ client'.busy = client.busy /\ client'.next = client.next /\ client'.asked = client.asked
      /\ client'.writesDone = client.writesDone /\ client'.finish = client.finish
      /\ client'.sentFinal = client.sentFinal /\ client'.writerDone = client.writerDone
      /\ client'.writing = 0
  BY <1>1 DEF RequestIsSent, Client
<1>4. StreamsRequests /\ client.started
  BY <1>1 DEF RpcInv, ClientWriterInv
<1> DEFINE sent == Len(handler.received) + Len(wire.toServer)
<1>5. ~Dead => client.writing = sent + 1
  BY <1>1, <1>4 DEF RpcInv, RequestsInv
<1>6. /\ handler.received \in Seq(Nat) /\ wire.toServer \in Seq(Nat)
      /\ Follows(wire.toServer, Len(handler.received)) /\ Len(handler.received) \in Nat
  BY LengthsFacts DEF RpcInv, TypeOK, Handler, Wire, RequestsInv
<1>7. /\ wire'.closed = wire.closed /\ wire'.toClient = wire.toClient
      /\ wire'.status = wire.status /\ wire'.cancelled = wire.cancelled
      /\ wire'.stopped = wire.stopped
      /\ wire'.toServer = IF Dead THEN wire.toServer ELSE Append(wire.toServer, client.writing)
  BY <1>1 DEF RequestIsSent, Wire
<1>8. /\ wire'.toServer \in Seq(Nat) /\ Follows(wire'.toServer, Len(handler.received))
      /\ ~Dead => Len(wire'.toServer) = Len(wire.toServer) + 1
  <2>1. CASE Dead
    BY <1>6, <1>7, <2>1
  <2>2. CASE ~Dead
    <3>1. wire'.toServer = Append(wire.toServer, client.writing)
      BY <1>7, <2>2
    <3>2. client.writing = Len(handler.received) + Len(wire.toServer) + 1
      BY <1>5, <2>2
    <3>3. wire'.toServer \in Seq(Nat) /\ Len(wire'.toServer) = Len(wire.toServer) + 1
          /\ Follows(wire'.toServer, Len(handler.received))
      BY ONLY <1>6, <3>1, <3>2, AppendFacts, Zenon
    <3> QED
      BY <3>3
  <2> QED
    BY <2>1, <2>2
<1>9. TypeOK'
  <2>1. wire' \in Wire
    <3>1. CASE Dead
      BY <1>1, <3>1 DEF RequestIsSent
    <3>2. CASE ~Dead
      BY <1>1, <1>7, <1>8, <3>2 DEF RequestIsSent, Wire
    <3> QED
      BY <3>1, <3>2
  <2> QED
    BY <1>1, <1>2, <2>1 DEF RpcInv, TypeOK
<1>10. Dead' = Dead /\ NothingToRead' = NothingToRead /\ GivenUp' = GivenUp
  BY <1>2, <1>7 DEF Dead, NothingToRead, Broken, GivenUp, SameCall, SameReader
<1>11. ClientWriterInv'
  <2>1. WriterInv(client', source')
    BY <1>1, <1>2, <1>3, <1>4 DEF RpcInv, ClientWriterInv, WriterInv, SameCall
  <2> QED
    BY <1>1, <1>2, <1>3, <1>4, <1>7, <2>1
       DEF RpcInv, ClientWriterInv, StreamsRequests, SameCall
<1>12. RequestsInv'
  <2>1. handler.sawEnd => Dead
    BY <1>1, <1>4 DEF RpcInv, RequestsInv, ClientWriterInv, WriterInv
  <2>2. ~Dead => Len(handler.received) + Len(wire'.toServer) + Slot(client'.writing)
                   + Slot(client'.next) = source.emitted
    <3> DEFINE r == Len(handler.received)
               t == Len(wire.toServer)
               u == Len(wire'.toServer)
    <3>1. ~Dead => r + t + Slot(client.writing) + Slot(client.next) = source.emitted
      BY <1>4 DEF RpcInv, RequestsInv
    <3>2. r \in Nat /\ t \in Nat /\ source.emitted \in Nat
      BY <1>6, LengthsFacts DEF RpcInv, TypeOK, Source
    <3>3. /\ Slot(client.writing) = 1 /\ Slot(client'.writing) = 0
          /\ Slot(client'.next) = Slot(client.next) /\ (~Dead => u = t + 1)
      BY <1>1, <1>3, <1>8 DEF Slot
    <3>4. Slot(client.next) \in Nat
      BY SMT DEF Slot
    <3> HIDE DEF r, t, u
    <3>5. ~Dead => r + u + Slot(client'.writing) + Slot(client'.next) = source.emitted
      BY ONLY SMT, <3>1, <3>2, <3>3, <3>4
    <3> QED
      BY <3>5 DEF r, u
  <2>3. \A i \in 1..Len(handler.received) : handler.received[i] = i
    BY DEF RpcInv, RequestsInv
  <2> QED
    BY <1>1, <1>3, <1>4, <1>8, <1>10, <2>1, <2>2, <2>3 DEF RequestsInv, StreamsRequests
<1>13. ServerReaderInv' /\ ServerWriterInv'
  BY <1>1, <1>10, ServerReaderFrame, ServerWriterFrame DEF RpcInv
<1>14. ResponsesInv'
  BY <1>1, <1>7, <1>10, ResponsesFrame DEF RpcInv
<1>15. ClientReaderInv'
  BY <1>1, <1>2, ClientReaderFrame DEF RpcInv, SameCall, SameReader
<1>16. AppEndInv'
  BY <1>1, <1>2, <1>3, <1>7, <1>10, AppEndFrame DEF RpcInv
<1> QED
  BY <1>9, <1>11, <1>12, <1>13, <1>14, <1>15, <1>16 DEF RpcInv

\* A call that has not been accepted does nothing yet.
LEMMA IdleFacts ==
  ASSUME RpcInv, ~handler.running
  PROVE  /\ server.ops \subseteq {"request"} /\ server.writing = 0 /\ server.next = 0
         /\ ~server.retained /\ ~server.finish /\ ~server.busy /\ ~server.sentFinal
         /\ ~server.finished /\ ~server.error /\ server.responses = 0 /\ server.status = "ok"
         /\ handler = HandlerInit
<1>1. handler = HandlerInit /\ server \in {ServerInit, ReleaseTag(ServerInit, "request")}
  BY DEF RpcInv, ServerReaderInv
<1>2. CASE server = ServerInit
  BY <1>1, <1>2 DEF ServerInit
<1>3. CASE server = ReleaseTag(ServerInit, "request")
  BY <1>1, <1>3 DEF ServerInit, ReleaseTag
<1> QED
  BY <1>1, <1>2, <1>3

\* The server's call for the parts of the invariant that do not look at it.
SameServer(s, t) ==
  /\ t.state = s.state /\ t.requested = s.requested /\ t.next = s.next /\ t.finish = s.finish
  /\ t.status = s.status /\ t.busy = s.busy /\ t.sentFinal = s.sentFinal
  /\ t.responses = s.responses /\ t.error = s.error /\ t.finished = s.finished
  /\ t.retained = s.retained /\ t.asked = s.asked /\ t.ops = s.ops

\* A response leaves the server.
LEMMA ResponseIsSentKeeps ==
  ASSUME RpcInv, ResponseIsSent
  PROVE  RpcInv'
<1>1. /\ server.writing # 0 /\ server \in Server /\ wire \in Wire
      /\ UNCHANGED <<kind, client, app, source, handler>>
  BY DEF ResponseIsSent, RpcInv, TypeOK
<1>2. server' \in Server /\ SameServer(server, server') /\ server'.writing = 0
  BY <1>1 DEF ResponseIsSent, Server, SameServer
<1>3. StreamsResponses
  BY <1>1 DEF RpcInv, ServerWriterInv
<1>4. handler.running
  BY <1>1, IdleFacts
<1> DEFINE r == Len(app.got)
           t == Len(wire.toClient)
           u == Len(wire'.toClient)
<1>5. ~GivenUp => /\ Follows(wire.toClient, r) /\ r + t <= handler.emitted
                  /\ ~Dead => /\ r + t + Slot(server.writing) + Slot(server.next) = handler.emitted
                              /\ server.writing = r + t + 1
                  /\ wire.status = "ok" => r + t = handler.emitted
  BY <1>1, <1>3 DEF RpcInv, ResponsesInv
<1>6. app.got \in Seq(Nat) /\ wire.toClient \in Seq(Nat) /\ handler.emitted \in Nat
  BY DEF RpcInv, TypeOK, App, Wire, Handler
<1>7. r \in Nat /\ t \in Nat
  BY <1>6, LengthsFacts
<1>8. /\ wire'.closed = wire.closed /\ wire'.toServer = wire.toServer
      /\ wire'.status = wire.status /\ wire'.cancelled = wire.cancelled
      /\ wire'.stopped = wire.stopped
      /\ wire'.toClient = IF Dead THEN wire.toClient ELSE Append(wire.toClient, server.writing)
  BY <1>1 DEF ResponseIsSent, Wire
<1>9. wire'.toClient \in Seq(Nat) /\ wire' \in Wire
  <2>1. CASE Dead
    BY <1>1, <1>6, <1>8, <2>1 DEF ResponseIsSent
  <2>2. CASE ~Dead
    <3>1. wire'.toClient \in Seq(Nat)
      BY SMT, <1>1, <1>6, <1>8, <2>2 DEF Server
    <3> QED
      BY <1>1, <1>8, <2>2, <3>1 DEF ResponseIsSent, Wire
  <2> QED
    BY <2>1, <2>2
<1>10. TypeOK'
  BY <1>1, <1>2, <1>9 DEF RpcInv, TypeOK
<1>11. /\ Dead' = Dead /\ GivenUp' = GivenUp
       /\ (NothingToRead => NothingToRead') /\ (wire'.toClient = wire.toClient \/ ~Dead)
  BY <1>1, <1>8 DEF Dead, NothingToRead, Broken, GivenUp
<1>12. ~GivenUp /\ ~Dead => Follows(wire'.toClient, r) /\ u = t + 1
  <2> SUFFICES ASSUME ~GivenUp, ~Dead PROVE Follows(wire'.toClient, r) /\ u = t + 1
    OBVIOUS
  <2>1. wire'.toClient = Append(wire.toClient, server.writing)
    BY <1>8
  <2>2. Follows(wire.toClient, r) /\ server.writing = r + t + 1
    BY <1>5
  <2>3. wire'.toClient \in Seq(Nat) /\ u = t + 1 /\ Follows(wire'.toClient, r)
    BY ONLY <1>6, <1>7, <2>1, <2>2, AppendFacts, Zenon
  <2> QED
    BY <2>3
<1>13. ResponsesInv'
  <2>1. ~GivenUp /\ ~Dead => /\ r + u + Slot(server'.writing) + Slot(server'.next) = handler.emitted
                             /\ r + u <= handler.emitted
    <3>1. /\ Slot(server.writing) = 1 /\ Slot(server'.writing) = 0
          /\ Slot(server'.next) = Slot(server.next)
      BY <1>1, <1>2 DEF Slot, SameServer
    <3>2. Slot(server.next) \in Nat
      BY SMT DEF Slot
    <3>3. ~GivenUp /\ ~Dead =>
            r + t + Slot(server.writing) + Slot(server.next) = handler.emitted /\ u = t + 1
      BY <1>5, <1>12
    <3>4. r \in Nat /\ t \in Nat /\ handler.emitted \in Nat
      BY <1>6, <1>7
    <3> HIDE DEF r, t, u
    <3> QED
      BY ONLY SMT, <3>1, <3>2, <3>3, <3>4
  <2>2. wire.status = "ok" => Dead
    BY DEF Dead
  <2> HIDE DEF u
  <2>3. ~GivenUp => /\ Follows(wire'.toClient, r) /\ r + u <= handler.emitted
                    /\ ~Dead => r + u + Slot(server'.writing) + Slot(server'.next) = handler.emitted
                    /\ wire.status = "ok" => r + u = handler.emitted
    <3>1. Dead => u = t /\ wire'.toClient = wire.toClient
      BY <1>8 DEF u
    <3> QED
      BY <1>5, <1>12, <2>1, <2>2, <3>1
  <2>4. /\ Len(app.got) <= handler.emitted /\ \A i \in 1..Len(app.got) : app.got[i] = i
        /\ wire.status = "ok" => handler.end = "complete"
    BY DEF RpcInv, ResponsesInv
  <2> QED
    BY <1>1, <1>2, <1>3, <1>8, <1>11, <2>3, <2>4 DEF ResponsesInv, StreamsResponses, u
<1>14. ServerReaderInv' /\ ServerWriterInv'
  BY <1>1, <1>2, <1>4, <1>3
     DEF RpcInv, ServerReaderInv, ServerWriterInv, StreamsRequests, StreamsResponses, SameServer
<1>15. /\ SameCall(client, client') /\ SameReader(client, client')
       /\ SameWriter(client, client') /\ WriterOps' = WriterOps
  BY <1>1 DEF SameCall, SameReader, SameWriter, WriterOps
<1>16. ClientWriterInv' /\ RequestsInv' /\ ClientReaderInv'
  BY <1>1, <1>8, <1>11, <1>15, ClientWriterFrame, RequestsFrame, ClientReaderFrame
  DEF RpcInv
<1>17. AppEndInv'
  BY <1>1, <1>8, <1>11
     DEF RpcInv, AppEndInv, StreamsRequests, StreamsResponses, UnaryInv, ServerStreamingInv,
         ClientStreamingInv, BidiInv, WriterOps, Dead
<1> QED
  BY <1>10, <1>13, <1>14, <1>16, <1>17 DEF RpcInv

\* The call ends, which nobody has noticed yet.
LEMMA CallEndsKeeps ==
  ASSUME RpcInv, UNCHANGED <<kind, client, server, app, source, handler>>, wire' \in Wire,
         wire'.toServer = wire.toServer, wire'.closed = wire.closed,
         wire'.toClient = wire.toClient, Dead => Dead', NothingToRead => NothingToRead',
         wire.status = "ok" => wire'.status = "ok", ResponsesInv'
  PROVE  RpcInv'
<1>1. TypeOK'
  BY DEF RpcInv, TypeOK
<1>2. /\ SameCall(client, client') /\ SameReader(client, client')
      /\ SameWriter(client, client') /\ WriterOps' = WriterOps
  BY DEF SameCall, SameReader, SameWriter, WriterOps
<1>3. ClientWriterInv' /\ RequestsInv' /\ ClientReaderInv'
  BY <1>2, ClientWriterFrame, RequestsFrame, ClientReaderFrame DEF RpcInv
<1>4. ServerReaderInv' /\ ServerWriterInv'
  BY ServerReaderFrame, ServerWriterFrame DEF RpcInv
<1>5. AppEndInv'
  BY <1>2, AppEndFrame DEF RpcInv, SameWriter
<1> QED
  BY <1>1, <1>3, <1>4, <1>5 DEF RpcInv

\* When the server finishes a call, its responses are sent and its stream ended.
LEMMA FinishFacts ==
  ASSUME RpcInv, "finish" \in server.ops
  PROVE  /\ server.next = 0 /\ (~Dead => server.writing = 0) /\ handler.end # "none"
         /\ StreamsResponses => "write" \notin server.ops
         /\ server.status = "ok" => handler.end = "complete"
         /\ server.status = "ok" /\ ~StreamsResponses => handler.emitted = 1
<1>1. CASE kind = "server_streaming"
  BY <1>1 DEF RpcInv, ServerWriterInv, StreamsResponses, TypeOK, Handler, Endings
<1>2. CASE kind = "bidi"
  BY <1>2 DEF RpcInv, ServerWriterInv, StreamsResponses, TypeOK, Handler, Endings
<1>3. CASE ~StreamsResponses
  BY <1>3 DEF RpcInv, ServerWriterInv
<1> QED
  BY <1>1, <1>2, <1>3 DEF StreamsResponses

\* The status follows the last response.
LEMMA StatusIsSentKeeps ==
  ASSUME RpcInv, StatusIsSent
  PROVE  RpcInv'
<1>1. /\ "finish" \in server.ops /\ ~Dead /\ server \in Server /\ wire \in Wire
      /\ UNCHANGED <<kind, client, server, app, source, handler>>
  BY DEF StatusIsSent, RpcInv, TypeOK
<1>2. /\ wire' \in Wire /\ wire'.status = server.status /\ wire'.toServer = wire.toServer
      /\ wire'.closed = wire.closed /\ wire'.toClient = wire.toClient
  BY <1>1 DEF StatusIsSent, Wire, Server
<1>3. ~NothingToRead /\ wire.status = "none" /\ server.status # "none"
  BY <1>1 DEF NothingToRead, Broken, Dead, Server
<1>4. Dead'
  BY <1>2, <1>3 DEF Dead
<1>5. /\ server.next = 0 /\ server.writing = 0 /\ handler.end # "none"
      /\ server.status = "ok" => handler.end = "complete"
      /\ server.status = "ok" /\ ~StreamsResponses => handler.emitted = 1
  BY <1>1, FinishFacts
<1> DEFINE sent == Len(app.got) + Len(wire.toClient)
<1>6. StreamsResponses /\ ~GivenUp => sent = handler.emitted
  <2>1. sent \in Nat
    BY LengthsFacts DEF RpcInv, TypeOK, App, Wire
  <2>2. StreamsResponses /\ ~GivenUp =>
          sent + Slot(server.writing) + Slot(server.next) = handler.emitted
    BY <1>1 DEF RpcInv, ResponsesInv
  <2>3. Slot(server.writing) = 0 /\ Slot(server.next) = 0
    BY <1>5 DEF Slot
  <2> HIDE DEF sent
  <2> QED
    BY ONLY SMT, <2>1, <2>2, <2>3
<1>7. ResponsesInv'
  BY <1>1, <1>2, <1>3, <1>4, <1>5, <1>6 DEF RpcInv, ResponsesInv, StreamsResponses, GivenUp
<1> QED
  BY <1>1, <1>2, <1>3, <1>4, <1>7, CallEndsKeeps

\* One side of the call is freed, or the server stops.
LEMMA CallGoneKeeps ==
  ASSUME RpcInv, ServerCallIsGone \/ ClientCallIsGone \/ ServerStops
  PROVE  RpcInv'
<1>1. wire \in Wire /\ UNCHANGED <<kind, client, server, app, source, handler>>
  BY DEF ServerCallIsGone, ClientCallIsGone, ServerStops, RpcInv, TypeOK
<1>2. /\ wire' \in Wire /\ wire'.toServer = wire.toServer
      /\ wire'.closed = wire.closed /\ wire'.toClient = wire.toClient
      /\ (wire.cancelled => wire'.cancelled) /\ (wire.stopped => wire'.stopped)
      /\ \/ wire'.status = wire.status /\ (wire'.cancelled \/ wire'.stopped)
         \/ ~Dead /\ wire'.status = "error"
  BY <1>1 DEF ServerCallIsGone, ClientCallIsGone, ServerStops, Wire
<1>3. /\ Dead' /\ (NothingToRead => NothingToRead') /\ (wire.status = "ok" <=> wire'.status = "ok")
      /\ GivenUp' = GivenUp
  BY <1>1, <1>2 DEF Dead, NothingToRead, Broken, GivenUp
<1>4. ResponsesInv'
  BY <1>1, <1>2, <1>3, ResponsesFrame DEF RpcInv
<1> QED
  BY <1>1, <1>2, <1>3, <1>4, CallEndsKeeps

-----------------------------------------------------------------------------
(* The client's completion queue.                                          *)

\* What stays when an operation of the client completes without a response.
LEMMA CompletionKeepsRest ==
  ASSUME RpcInv, UNCHANGED <<kind, server, source, handler>>, client' \in Client,
         app' \in App, app'.got = app.got, wire' \in Wire, wire'.toClient = wire.toClient,
         wire'.status = wire.status, Dead' = Dead, GivenUp => GivenUp',
         ClientWriterInv', RequestsInv', ClientReaderInv', AppEndInv'
  PROVE  RpcInv'
<1>1. TypeOK'
  BY DEF RpcInv, TypeOK
<1>2. ServerReaderInv' /\ ServerWriterInv'
  BY ServerReaderFrame, ServerWriterFrame DEF RpcInv
<1>3. ResponsesInv'
  BY ResponsesFrame DEF RpcInv
<1> QED
  BY <1>1, <1>2, <1>3 DEF RpcInv

\* The call c after op has gone.
Released(c, d, op) ==
  /\ d.ops = c.ops \ {op} /\ d.started = c.started /\ d.invoke = c.invoke
  /\ d.error = c.error /\ d.cancelled = c.cancelled
  /\ SameReader(c, d) /\ SameWriter(c, d)

\* A completed operation lets go of the call and changes nothing else.
LEMMA ReleaseFacts ==
  ASSUME NEW c \in Client, NEW op \in ClientOps, NEW d, d = ReleaseTag(c, op)
  PROVE  d \in Client /\ Released(c, d, op)
<1>1. c.ops \ {op} \in SUBSET ClientOps
  BY DEF Client, ClientOps
<1>2. d \in Client
  BY <1>1 DEF ReleaseTag, Client, ClientOps
<1>3. Released(c, d, op)
  BY DEF ReleaseTag, Client, Released, SameReader, SameWriter
<1> QED
  BY <1>2, <1>3

\* The completion of an operation is what ClientDone says.
LEMMA CompletesFacts ==
  ASSUME NEW op, NEW success, NEW response, ClientCompletes(op, success, response),
         NEW d, NEW a,
         ClientDone(ReleaseTag(client, op), app, op, success, response) = <<d, a>>
  PROVE  client' = d /\ app' = a
BY SMT DEF ClientCompletes

\* An operation that sends fails only when the call is over.
LEMMA SendFacts ==
  ASSUME RpcInv, NEW op \in {"start", "write", "writesDone"}, NEW success \in BOOLEAN,
         ClientSendCompletes(op, success)
  PROVE  /\ op \in client.ops /\ (success \/ Dead)
         /\ success /\ op = "write" => client.writing = 0
         /\ UNCHANGED <<kind, server, source, handler>> /\ wire' \in Wire
         /\ wire'.toServer = wire.toServer /\ wire'.toClient = wire.toClient
         /\ wire'.status = wire.status /\ wire'.cancelled = wire.cancelled
         /\ wire'.stopped = wire.stopped
         /\ wire'.closed = (wire.closed \/ (op = "writesDone" /\ success))
<1>1. wire \in Wire
  BY DEF RpcInv, TypeOK
<1>2. /\ op \in client.ops /\ UNCHANGED <<kind, server, source, handler>>
      /\ success \in SendResults(IF op = "write" THEN client.writing ELSE 0)
      /\ wire' = [wire EXCEPT !.closed = @ \/ (op = "writesDone" /\ success),
                              !.sendFailed = @ \/ ~success]
  BY DEF ClientSendCompletes
<1>3. (success \/ Dead) /\ (success /\ op = "write" => client.writing = 0)
  BY <1>2 DEF SendResults
<1>4. wire' \in Wire
  BY <1>1, <1>2 DEF Wire
<1> QED
  BY <1>1, <1>2, <1>3, <1>4 DEF Wire

\* The call goes on to read, or waits to be asked.
Continues(c, d) ==
  /\ RequestLeaves(c, d) /\ d.started = c.started /\ d.invoke = c.invoke
  /\ d.busy = c.busy /\ d.asked = c.asked
  /\ \/ d.state = "READING_RESPONSE" /\ d.ops = c.ops \cup {"read"}
     \/ d.state = "AWAITING_REQUEST" /\ d.ops = c.ops
  /\ c.requested < MaxValue => Outstanding(d) = c.requested

\* The demand that is left is read, or there is none.
LEMMA ContinueFacts ==
  ASSUME NEW c \in Client, NEW d, d = ClientMaybeReadNext(c)
  PROVE  d \in Client /\ Continues(c, d)
<1>1. d \in Client /\ RequestLeaves(c, d)
  BY ClientMaybeReadNextFacts
<1>2. d.started = c.started /\ d.invoke = c.invoke /\ d.busy = c.busy /\ d.asked = c.asked
  BY ClientMaybeReadNextFacts
<1>3. \/ Reads(c, d)
      \/ c.requested = 0 /\ d.requested = 0 /\ d.state = "AWAITING_REQUEST" /\ d.ops = c.ops
  BY ClientMaybeReadNextFacts
<1>4. c.requested \in 0..MaxValue /\ d.requested \in 0..MaxValue
  BY <1>1 DEF Client
<1>5. c.requested < MaxValue => Outstanding(d) = c.requested
  BY SMT, <1>3, <1>4, MaxValueAssumption DEF Reads, Outstanding, Unbounded
<1> QED
  BY <1>1, <1>2, <1>3, <1>5 DEF Continues, Reads

\* The demand that is left after the elements that were got.
LEMMA DemandLeft ==
  ASSUME RpcInv, StreamsResponses, app.demand # Unbounded
  PROVE  /\ Len(app.got) + Outstanding(client) <= app.demand
         /\ client.requested < MaxValue
<1>1. Len(app.got) + Outstanding(client) <= app.demand
  BY DEF RpcInv, ClientReaderInv
<1>2. app.got \in Seq(Nat) /\ client.requested \in 0..MaxValue /\ app.demand \in 0..MaxValue
  BY DEF RpcInv, TypeOK, App, Client
<1>3. Len(app.got) \in Nat
  BY <1>2, LengthsFacts
<1> DEFINE g == Len(app.got)
<1> HIDE DEF g
<1>4. g \in Nat /\ g + Outstanding(client) <= app.demand
  BY <1>1, <1>3 DEF g
<1> QED
  BY SMT, <1>1, <1>2, <1>4, MaxValueAssumption DEF Outstanding, Unbounded

\* The first operation of a server streaming call completes.
LEMMA ServerStreamingStartKeeps ==
  ASSUME RpcInv, NEW op \in {"start", "write", "writesDone"}, NEW success \in BOOLEAN,
         ClientSendCompletes(op, success), kind = "server_streaming"
  PROVE  RpcInv'
<1> DEFINE c == ReleaseTag(client, op)
<1>1. client \in Client /\ ServerStreamingInv /\ ClientWriterInv /\ ClientReaderInv
  BY DEF RpcInv, TypeOK, AppEndInv
<1>2. /\ op \in client.ops /\ UNCHANGED <<kind, server, source, handler>> /\ wire' \in Wire
      /\ wire'.toServer = wire.toServer /\ wire'.toClient = wire.toClient
      /\ wire'.status = wire.status /\ wire'.cancelled = wire.cancelled
      /\ wire'.stopped = wire.stopped
      /\ wire'.closed = (wire.closed \/ (op = "writesDone" /\ success))
  BY SendFacts
<1>3. op = "start" /\ ~wire'.closed
  BY <1>1, <1>2 DEF ClientWriterInv, StreamsRequests
<1>4. client.state = "INIT" /\ client.started /\ client.ops = {"start"}
  <2>1. client.state \in {"INIT", "AWAITING_REQUEST", "READING_RESPONSE", "FINISHING", "END"}
    BY <1>1 DEF Client
  <2>2. client.state = "INIT"
    BY <1>1, <1>2, <1>3, <2>1 DEF ServerStreamingInv
  <2> QED
    BY <1>1, <1>2, <1>3, <2>2 DEF ServerStreamingInv
<1>5. c \in Client /\ Released(client, c, op)
  BY <1>1, <1>3, ReleaseFacts DEF ClientOps
<1>6. client' = ClientMaybeReadNext(c) /\ app' = app
  <2>1. c.state = "INIT"
    BY <1>4, <1>5 DEF Released, SameReader
  <2>2. ServerStreamingDone(c, app, success, 0) = <<ClientMaybeReadNext(c), app>>
    BY <2>1 DEF ServerStreamingDone
  <2>3. ClientDone(c, app, op, success, 0) = <<ClientMaybeReadNext(c), app>>
    BY <2>2 DEF ClientDone
  <2> QED
    BY <2>3, CompletesFacts DEF ClientSendCompletes
<1> HIDE DEF c
<1>7. client' \in Client /\ Continues(c, client')
  BY <1>5, <1>6, ContinueFacts
<1>8. /\ client'.started /\ ~client'.invoke
      /\ \/ client'.state = "READING_RESPONSE" /\ client'.ops = {"read"}
         \/ client'.state = "AWAITING_REQUEST" /\ client'.ops = {}
      /\ client'.next = client.next /\ client'.writing = client.writing
  <2>1. c.ops = {}
    BY <1>3, <1>4, <1>5 DEF Released
  <2> QED
    BY <1>1, <1>4, <1>5, <1>7, <2>1
       DEF Continues, Released, ServerStreamingInv, RequestLeaves, SameWriter
<1>9. ClientWriterInv' /\ RequestsInv'
  <2>1. ClientWriterInv'
    BY <1>1, <1>2, <1>3, <1>8 DEF ClientWriterInv, StreamsRequests
  <2>2. wire'.closed = wire.closed
    BY <1>2, <1>3 DEF RpcInv, TypeOK, Wire
  <2>3. Dead => Dead'
    BY <1>2 DEF Dead
  <2> QED
    BY <1>2, <1>8, <2>1, <2>2, <2>3, RequestsFrame DEF RpcInv
<1>10. ClientReaderInv'
  <2>1. c.requested = client.requested
    BY <1>5 DEF Released, SameReader
  <2>2. app.demand # Unbounded => Outstanding(client') = client.requested
    BY <1>7, <2>1, DemandLeft DEF Continues, StreamsResponses
  <2>3. Outstanding(client) = client.requested
    BY SMT, <1>1, <1>4 DEF Outstanding, Client
  <2>4. app.demand # Unbounded => Len(app.got) + Outstanding(client') <= app.demand
    BY <2>2, <2>3, DemandLeft DEF StreamsResponses
  <2> QED
    BY <1>2, <1>6, <1>8, <2>4 DEF ClientReaderInv, StreamsResponses, Outstanding
<1>11. AppEndInv'
  <2>1. app.end = "none"
    BY <1>1, <1>4 DEF ServerStreamingInv
  <2>2. ServerStreamingInv'
    BY <1>6, <1>8, <2>1 DEF ServerStreamingInv
  <2> QED
    BY <1>2, <1>6, <2>1, <2>2 DEF RpcInv, AppEndInv
<1>12. Dead' = Dead /\ (GivenUp => GivenUp')
  BY <1>2, <1>4 DEF Dead, GivenUp
<1> QED
  BY <1>2, <1>6, <1>7, <1>9, <1>10, <1>11, <1>12, CompletionKeepsRest DEF RpcInv, TypeOK

\* A stream of requests whose writer has an operation.
LEMMA WriterBusyFacts ==
  ASSUME RpcInv, StreamsRequests, NEW op \in ClientOps \ {"read"}, op \in client.ops
  PROVE  /\ client \in Client /\ source \in Source /\ WriterInv(client, source)
         /\ client.started /\ ~client.invoke /\ client.busy
         /\ client.ops \ {op} \subseteq {"read"}
         /\ op # "finish" => ~client.sentFinal /\ app.end = "none"
         /\ kind = "bidi" => ~client.writerDone /\ app.end = "none"
         /\ ~Dead /\ client.writing # 0 => op = "write"
<1>1. ClientWriterInv /\ client \in Client /\ source \in Source /\ WriterInv(client, source)
  BY DEF RpcInv, TypeOK, ClientWriterInv
<1>2. client.started /\ ~client.invoke
  BY <1>1 DEF ClientWriterInv, WriterOps
<1>3. client.busy /\ client.ops \ {op} \subseteq {"read"}
  BY <1>1 DEF WriterInv
<1>4. op # "finish" => ~client.sentFinal
  BY <1>1 DEF WriterInv
<1>5. kind = "client_streaming" /\ ~client.sentFinal => app.end = "none"
  BY DEF RpcInv, AppEndInv, ClientStreamingInv
<1>6. kind = "bidi" => ~client.writerDone /\ app.end = "none"
  BY DEF RpcInv, AppEndInv, BidiInv, WriterOps
<1>7. ~Dead /\ client.writing # 0 => op = "write"
  <2>1. ~Dead /\ client.writing # 0 => "write" \in client.ops
    BY <1>1 DEF ClientWriterInv
  <2> QED
    BY SMT, <1>3, <2>1
<1> QED
  BY <1>1, <1>2, <1>3, <1>4, <1>5, <1>6, <1>7 DEF StreamsRequests

\* An operation of the writer succeeds, and the next one starts.
LEMMA StreamSendSucceeds ==
  ASSUME RpcInv, NEW op \in {"start", "write", "writesDone"}, ClientSendCompletes(op, TRUE),
         StreamsRequests
  PROVE  RpcInv'
<1> DEFINE b == ReleaseTag(client, op)
           c == [b EXCEPT !.busy = FALSE]
<1>1. /\ op \in client.ops /\ (op = "write" => client.writing = 0)
      /\ UNCHANGED <<kind, server, source, handler>> /\ wire' \in Wire
      /\ wire'.toServer = wire.toServer /\ wire'.toClient = wire.toClient
      /\ wire'.status = wire.status /\ wire'.cancelled = wire.cancelled
      /\ wire'.stopped = wire.stopped /\ wire'.closed = (wire.closed \/ op = "writesDone")
  BY SendFacts
<1>2. /\ client \in Client /\ source \in Source /\ WriterInv(client, source)
      /\ client.started /\ ~client.invoke /\ client.busy
      /\ client.ops \ {op} \subseteq {"read"}
      /\ ~client.sentFinal /\ app.end = "none"
      /\ kind = "bidi" => ~client.writerDone
      /\ ~Dead /\ client.writing # 0 => op = "write"
  BY <1>1, WriterBusyFacts DEF ClientOps
<1>3. b \in Client /\ Released(client, b, op)
  BY <1>2, ReleaseFacts DEF ClientOps
<1>4. client' = ClientRunEnqueuedOperation(c) /\ app' = app
  <2>1. ~b.sentFinal
    BY <1>2, <1>3 DEF Released, SameWriter
  <2>2. CASE kind = "client_streaming"
    <3>1. ClientDone(b, app, op, TRUE, 0) = <<ClientRunEnqueuedOperation(c), app>>
      BY <2>1, <2>2 DEF ClientDone, ClientStreamingDone
    <3> QED
      BY <3>1, CompletesFacts DEF ClientSendCompletes
  <2>3. CASE kind = "bidi"
    <3>1. ClientDone(b, app, op, TRUE, 0) = <<ClientRunEnqueuedOperation(c), app>>
      BY <2>1, <2>3 DEF ClientDone, BidiDone
    <3> QED
      BY <3>1, CompletesFacts DEF ClientSendCompletes
  <2> QED
    BY <2>2, <2>3 DEF StreamsRequests
<1> HIDE DEF b
<1>5. c \in Client
  BY <1>3 DEF Client
<1>6. /\ c.ops = b.ops /\ c.started = b.started /\ c.invoke = b.invoke /\ c.error = b.error
      /\ c.cancelled = b.cancelled /\ SameReader(b, c) /\ c.next = b.next /\ c.asked = b.asked
      /\ c.writing = b.writing /\ c.writesDone = b.writesDone /\ c.finish = b.finish
      /\ c.sentFinal = b.sentFinal /\ c.writerDone = b.writerDone /\ ~c.busy
  BY <1>3 DEF Client, SameReader
<1> HIDE DEF c
<1>7. /\ c.ops = client.ops \ {op} /\ c.started /\ ~c.invoke /\ c.error = client.error
      /\ SameReader(client, c) /\ c.next = client.next /\ c.asked = client.asked
      /\ c.writing = client.writing /\ c.writesDone = client.writesDone
      /\ c.finish = client.finish /\ ~c.sentFinal /\ c.writerDone = client.writerDone
  BY <1>2, <1>3, <1>6 DEF Released, SameReader, SameWriter
<1>8. client' \in Client /\ WriterLeaves(c, client') /\ RunsWriter(c, client')
  BY <1>4, <1>5, RunFacts
<1>9. c.ops \subseteq {"read"}
  BY <1>2, <1>7
<1>10. WriterInv(c, source)
  BY <1>2, <1>6, <1>7, <1>9 DEF WriterInv
<1>11. Dead' = Dead
  BY <1>1 DEF Dead
<1>12. ~Dead => c.writing = 0
  BY <1>1, <1>2, <1>7
<1>13. ClientWriterInv' /\ RequestsInv'
  <2> DEFINE sent == Len(handler.received) + Len(wire.toServer)
  <2>1. ~Dead => /\ sent + Slot(c.writing) + Slot(c.next) = source.emitted
                 /\ c.writing # 0 => c.writing = sent + 1
    BY <1>7 DEF RpcInv, RequestsInv
  <2>2. wire'.closed => c.finish \/ c.sentFinal
    <3>1. wire.closed \/ op = "writesDone" => client.finish \/ client.sentFinal
      BY <1>1, <1>2 DEF RpcInv, ClientWriterInv, WriterInv
    <3> QED
      BY <1>1, <1>2, <1>7, <3>1
  <2> HIDE DEF sent
  <2> QED
    BY <1>1, <1>2, <1>4, <1>5, <1>7, <1>8, <1>10, <1>11, <1>12, <2>1, <2>2, RunKeepsRequests
       DEF sent
<1>14. "read" \in client'.ops <=> "read" \in client.ops
  BY <1>1, <1>7, <1>8 DEF RunsWriter, StartsWrite, StartsClosing, StartsFinish
<1>15. ClientReaderInv'
  BY <1>1, <1>4, <1>7, <1>8, <1>14, ClientReaderFrame DEF RpcInv, WriterLeaves, SameReader
<1>16. (GivenUp => GivenUp') /\ NothingToRead' = NothingToRead
  BY <1>1, <1>7, <1>8 DEF GivenUp, NothingToRead, Broken, WriterLeaves, SameReader
<1>17. AppEndInv'
  <2>1. kind = "client_streaming" => ClientStreamingInv'
    BY <1>2, <1>4 DEF RpcInv, AppEndInv, ClientStreamingInv
  <2>2. kind = "bidi" => BidiInv'
    BY <1>2, <1>4, <1>7, <1>8, <1>16
       DEF RpcInv, AppEndInv, BidiInv, WriterLeaves, SameReader
  <2> QED
    BY <1>1, <1>2, <1>4, <2>1, <2>2 DEF RpcInv, AppEndInv, StreamsRequests
<1> QED
  BY <1>1, <1>4, <1>8, <1>11, <1>13, <1>15, <1>16, <1>17, CompletionKeepsRest
  DEF RpcInv, TypeOK

\* An operation that fails ends the writer: the call is over.
LEMMA StreamSendFails ==
  ASSUME RpcInv, NEW op \in {"start", "write", "writesDone"}, ClientSendCompletes(op, FALSE),
         StreamsRequests
  PROVE  RpcInv'
<1> DEFINE b == ReleaseTag(client, op)
<1>1. /\ op \in client.ops /\ Dead /\ UNCHANGED <<kind, server, source, handler>>
      /\ wire' \in Wire /\ wire'.toServer = wire.toServer /\ wire'.toClient = wire.toClient
      /\ wire'.status = wire.status /\ wire'.cancelled = wire.cancelled
      /\ wire'.stopped = wire.stopped /\ wire'.closed = (wire.closed \/ FALSE)
  BY SendFacts
<1>2. /\ client \in Client /\ source \in Source /\ WriterInv(client, source)
      /\ client.started /\ ~client.invoke /\ client.busy
      /\ client.ops \ {op} \subseteq {"read"}
      /\ ~client.sentFinal /\ app.end = "none" /\ (kind = "bidi" => ~client.writerDone)
  BY <1>1, WriterBusyFacts DEF ClientOps
<1>3. b \in Client /\ Released(client, b, op)
  BY <1>2, ReleaseFacts DEF ClientOps
<1>4. /\ app' = app
      /\ \/ kind = "client_streaming" /\ client' = b
         \/ kind = "bidi" /\ client' = [b EXCEPT !.writerDone = TRUE, !.cancelled = TRUE]
  <2>1. ~b.sentFinal
    BY <1>2, <1>3 DEF Released, SameWriter
  <2>2. CASE kind = "client_streaming"
    <3>1. ClientDone(b, app, op, FALSE, 0) = <<b, app>>
      BY <2>1, <2>2 DEF ClientDone, ClientStreamingDone
    <3> QED
      BY <2>2, <3>1, CompletesFacts DEF ClientSendCompletes
  <2>3. CASE kind = "bidi"
    <3> DEFINE d == [b EXCEPT !.writerDone = TRUE, !.cancelled = TRUE]
    <3>1. d.cancelled
      BY <1>3 DEF Client
    <3>2. ClientDone(b, app, op, FALSE, 0) = BidiDone(b, app, FALSE)
      BY <2>3 DEF ClientDone
    <3>3. BidiDone(b, app, FALSE) = <<d, TryShutdown(d, app)>>
      BY <2>1 DEF BidiDone
    <3> HIDE DEF d
    <3>4. TryShutdown(d, app) = app
      BY <3>1 DEF TryShutdown
    <3>5. ClientDone(b, app, op, FALSE, 0) = <<d, app>>
      BY <3>2, <3>3, <3>4
    <3>6. client' = d /\ app' = app
      BY <3>5, CompletesFacts DEF ClientSendCompletes
    <3> QED
      BY <2>3, <3>6 DEF d
  <2> QED
    BY <2>2, <2>3 DEF StreamsRequests
<1> HIDE DEF b
<1>5. /\ client' \in Client /\ client'.ops = b.ops /\ client'.started = b.started
      /\ client'.invoke = b.invoke /\ client'.error = b.error /\ SameReader(b, client')
      /\ client'.next = b.next /\ client'.asked = b.asked /\ client'.busy = b.busy
      /\ client'.writing = b.writing /\ client'.writesDone = b.writesDone
      /\ client'.finish = b.finish /\ client'.sentFinal = b.sentFinal
      /\ kind = "bidi" => client'.cancelled
  <2>1. CASE client' = b /\ kind = "client_streaming"
    BY <1>3, <2>1 DEF SameReader
  <2>2. CASE client' = [b EXCEPT !.writerDone = TRUE, !.cancelled = TRUE]
    BY <1>3, <2>2 DEF Client, SameReader
  <2> QED
    BY <1>4, <2>1, <2>2
<1>6. /\ client'.ops = client.ops \ {op} /\ client'.started /\ ~client'.invoke
      /\ client'.error = client.error /\ SameReader(client, client')
      /\ client'.next = client.next /\ client'.asked = client.asked /\ client'.busy
      /\ client'.writing = client.writing /\ client'.writesDone = client.writesDone
      /\ client'.finish = client.finish /\ ~client'.sentFinal
  BY <1>2, <1>3, <1>5 DEF Released, SameReader, SameWriter
<1>7. client'.ops \subseteq {"read"}
  BY <1>2, <1>6
<1>8. WriterInv(client', source')
  BY <1>1, <1>2, <1>6, <1>7 DEF WriterInv
<1>9. Dead' = Dead /\ Dead' /\ wire'.closed = wire.closed
  BY <1>1 DEF Dead, RpcInv, TypeOK, Wire
<1>10. ClientWriterInv'
  BY <1>1, <1>2, <1>4, <1>6, <1>8, <1>9 DEF RpcInv, ClientWriterInv, StreamsRequests
<1>11. RequestsInv'
  BY <1>1, <1>6, <1>9, RequestsFrame DEF RpcInv
<1>12. "read" \in client'.ops <=> "read" \in client.ops
  BY <1>6
<1>13. ClientReaderInv'
  BY <1>1, <1>4, <1>6, <1>12, ClientReaderFrame DEF RpcInv, SameReader
<1>14. (GivenUp => GivenUp') /\ NothingToRead' = NothingToRead
  BY <1>1, <1>6 DEF GivenUp, NothingToRead, Broken, SameReader
<1>15. AppEndInv'
  <2>1. kind = "client_streaming" => ClientStreamingInv'
    BY <1>2, <1>4 DEF RpcInv, AppEndInv, ClientStreamingInv
  <2>2. kind = "bidi" => BidiInv'
    <3>1. client'.ops \ {"read"} = {}
      BY <1>7
    <3> QED
      BY <1>2, <1>4, <1>5, <1>6, <1>14, <3>1
         DEF RpcInv, AppEndInv, BidiInv, SameReader, WriterOps
  <2> QED
    BY <1>1, <1>2, <1>4, <2>1, <2>2 DEF RpcInv, AppEndInv, StreamsRequests
<1> QED
  BY <1>1, <1>4, <1>5, <1>9, <1>10, <1>11, <1>13, <1>14, <1>15, CompletionKeepsRest
     DEF RpcInv, TypeOK

\* An operation that sends completes, in any kind of call.
LEMMA SendKeeps ==
  ASSUME RpcInv, NEW op \in {"start", "write", "writesDone"}, NEW success \in BOOLEAN,
         ClientSendCompletes(op, success)
  PROVE  RpcInv'
<1>1. op \in client.ops
  BY SendFacts
<1>2. kind # "unary"
  BY <1>1 DEF RpcInv, AppEndInv, UnaryInv
<1>3. kind \in KindSet
  BY RpcAssumption DEF RpcInv, TypeOK
<1>4. kind = "server_streaming" \/ StreamsRequests
  BY <1>2, <1>3 DEF KindSet, StreamsRequests
<1>5. ClientSendCompletes(op, TRUE) \/ ClientSendCompletes(op, FALSE)
  OBVIOUS
<1> QED
  BY <1>4, <1>5, ServerStreamingStartKeeps, StreamSendSucceeds, StreamSendFails

\* A read is under way only in a call that has not told the end.
LEMMA ReadingFacts ==
  ASSUME RpcInv, "read" \in client.ops
  PROVE  /\ StreamsResponses /\ client.state = "READING_RESPONSE" /\ ~GivenUp
         /\ app.end = "none" /\ client \in Client /\ app \in App /\ wire \in Wire
         /\ kind = "bidi" => ~client.readerDone
<1>1. StreamsResponses /\ client.state = "READING_RESPONSE"
  BY DEF RpcInv, ClientReaderInv
<1>2. kind = "server_streaming" => app.end = "none"
  BY <1>1 DEF RpcInv, AppEndInv, ServerStreamingInv
<1>3. kind = "bidi" => app.end = "none" /\ ~client.readerDone
  BY <1>1 DEF RpcInv, AppEndInv, BidiInv
<1> QED
  BY <1>1, <1>2, <1>3 DEF RpcInv, TypeOK, GivenUp, StreamsResponses

\* The response that is read is the one after those that were got.
LEMMA GotFacts ==
  ASSUME RpcInv, StreamsResponses, ~GivenUp, wire.toClient # <<>>,
         UNCHANGED <<kind, server, handler>>, Dead' = Dead, wire'.status = wire.status,
         wire'.toClient = Tail(wire.toClient),
         app'.got = Append(app.got, Head(wire.toClient))
  PROVE  /\ app'.got \in Seq(Nat) /\ Len(app'.got) = Len(app.got) + 1
         /\ wire'.toClient \in Seq(Nat) /\ ResponsesInv'
<1> DEFINE g == Len(app.got)
           t == Len(wire.toClient)
<1>1. app.got \in Seq(Nat) /\ wire.toClient \in Seq(Nat) /\ handler.emitted \in Nat
      /\ server.writing \in Nat /\ server.next \in Nat
  BY DEF RpcInv, TypeOK, App, Wire, Handler, Server
<1>2. g \in Nat /\ t \in Nat
  BY <1>1, LengthsFacts
<1>3. /\ Follows(wire.toClient, g) /\ g + t <= handler.emitted
      /\ ~Dead => /\ g + t + Slot(server.writing) + Slot(server.next) = handler.emitted
                  /\ server.writing # 0 => server.writing = g + t + 1
      /\ wire.status = "ok" => g + t = handler.emitted
      /\ \A i \in 1..g : app.got[i] = i
      /\ wire.status = "ok" => handler.end = "complete"
  BY DEF RpcInv, ResponsesInv
<1>4. /\ wire'.toClient \in Seq(Nat) /\ Len(wire'.toClient) + 1 = t
      /\ Head(wire.toClient) = g + 1 /\ Follows(wire'.toClient, g + 1)
  BY <1>1, <1>2, <1>3, TailFacts
<1>5. app'.got \in Seq(Nat) /\ Len(app'.got) = g + 1 /\ \A i \in 1..g + 1 : app'.got[i] = i
  <2>1. app'.got = Append(app.got, g + 1)
    BY <1>4
  <2>2. app.got \in Seq(Nat) /\ \A i \in 1..Len(app.got) : app.got[i] = i
    BY <1>1, <1>3
  <2> QED BY ONLY SMT, <2>1, <2>2
<1> DEFINE u == Len(wire'.toClient)
           v == Len(app'.got)
<1>6. u \in Nat /\ u + 1 = t /\ v = g + 1
  BY <1>4, <1>5, LengthsFacts
<1> HIDE DEF g, t, u, v
<1>7. /\ v + u = g + t /\ v <= handler.emitted
  BY ONLY SMT, <1>1, <1>2, <1>3, <1>6
<1>8. handler' = handler /\ server' = server /\ StreamsResponses' = StreamsResponses
  BY DEF StreamsResponses
<1>9. /\ v <= handler'.emitted /\ \A i \in 1..v : app'.got[i] = i
      /\ Follows(wire'.toClient, v)
  BY <1>4, <1>5, <1>6, <1>7, <1>8
<1>10. /\ v + u <= handler'.emitted
       /\ ~Dead' => /\ v + u + Slot(server'.writing) + Slot(server'.next) = handler'.emitted
                    /\ server'.writing # 0 => server'.writing = v + u + 1
       /\ wire'.status = "ok" => v + u = handler'.emitted
       /\ wire'.status = "ok" => handler'.end = "complete"
  BY <1>3, <1>7, <1>8
<1>11. ResponsesInv'
  BY <1>8, <1>9, <1>10 DEF ResponsesInv, u, v
<1> QED
  BY <1>4, <1>5, <1>11 DEF g

\* The element that was got is no longer outstanding.
LEMMA GotKeepsReader ==
  ASSUME RpcInv, "read" \in client.ops, kind' = kind, app'.demand = app.demand,
         Len(app'.got) = Len(app.got) + 1, client' \in Client,
         client.requested < MaxValue => Outstanding(client') <= client.requested,
         "read" \in client'.ops => client'.state = "READING_RESPONSE"
  PROVE  ClientReaderInv'
<1>1. StreamsResponses /\ client.state = "READING_RESPONSE"
  BY ReadingFacts
<1> DEFINE g == Len(app.got)
           h == Len(app'.got)
<1>2. app.got \in Seq(Nat) /\ client.requested \in 0..MaxValue /\ app.demand \in 0..MaxValue
      /\ client'.requested \in 0..MaxValue
  BY DEF RpcInv, TypeOK, App, Client
<1>3. g \in Nat /\ h = g + 1
  BY <1>2, LengthsFacts
<1>4. app.demand # Unbounded => g + Outstanding(client) <= app.demand /\ client.requested < MaxValue
  BY <1>1, DemandLeft
<1> HIDE DEF g, h
<1>5. app.demand # Unbounded => h + Outstanding(client') <= app.demand
  BY SMT, <1>1, <1>2, <1>3, <1>4, MaxValueAssumption DEF Outstanding
<1>6. app'.demand = Unbounded \/ Len(app'.got) + Outstanding(client') <= app'.demand
  BY <1>5 DEF h
<1> QED
  BY <1>1, <1>6 DEF ClientReaderInv, StreamsResponses, Outstanding

\* Another response is got, and the call goes on.
LEMMA GotKeeps ==
  ASSUME RpcInv, "read" \in client.ops, wire.toClient # <<>>,
         UNCHANGED <<kind, server, source, handler>>,
         wire' = [wire EXCEPT !.toClient = Tail(@)],
         app' = Got(app, Head(wire.toClient)),
         client' \in Client, client'.started = client.started, client'.invoke = client.invoke,
         client'.error = client.error, client'.cancelled = client.cancelled,
         SameWriter(client, client'), client'.readerDone = client.readerDone,
         client'.ops \ {"read"} = client.ops \ {"read"},
         client.requested < MaxValue => Outstanding(client') <= client.requested,
         \/ client'.state = "AWAITING_REQUEST" /\ "read" \notin client'.ops
         \/ client'.state = "READING_RESPONSE" /\ "read" \in client'.ops
  PROVE  RpcInv'
<1>1. /\ StreamsResponses /\ client.state = "READING_RESPONSE" /\ ~GivenUp
      /\ app.end = "none" /\ client \in Client /\ app \in App /\ wire \in Wire
      /\ kind = "bidi" => ~client.readerDone
  BY ReadingFacts
<1>2. /\ app'.got = Append(app.got, Head(wire.toClient)) /\ app'.demand = app.demand
      /\ app'.end = "none" /\ app'.ends = app.ends
  BY <1>1 DEF Got, App
<1>3. /\ wire'.toClient = Tail(wire.toClient) /\ wire'.status = wire.status
      /\ wire'.toServer = wire.toServer /\ wire'.closed = wire.closed
      /\ wire'.cancelled = wire.cancelled /\ wire'.stopped = wire.stopped
  BY <1>1 DEF Wire
<1>4. Dead' = Dead /\ StreamsResponses' = StreamsResponses
  BY <1>3 DEF Dead, StreamsResponses
<1>5. /\ app'.got \in Seq(Nat) /\ Len(app'.got) = Len(app.got) + 1
      /\ wire'.toClient \in Seq(Nat) /\ ResponsesInv'
  BY <1>1, <1>2, <1>3, <1>4, GotFacts
<1>6. app' \in App /\ wire' \in Wire
  BY <1>1, <1>2, <1>3, <1>5 DEF App, Wire, Got
<1>7. ClientReaderInv'
  BY <1>2, <1>5, GotKeepsReader
<1>8. ClientWriterInv'
  BY <1>2, <1>3, <1>4, ClientWriterFrame DEF RpcInv, WriterOps
<1>9. RequestsInv'
  BY <1>3, <1>4, RequestsFrame DEF RpcInv, SameWriter
<1>10. ServerReaderInv' /\ ServerWriterInv'
  BY <1>4, ServerReaderFrame, ServerWriterFrame DEF RpcInv
<1>11. kind = "server_streaming" => ServerStreamingInv'
  <2>1. kind = "server_streaming" => ServerStreamingInv /\ client.ops = {"read"}
    BY <1>1 DEF RpcInv, AppEndInv, ServerStreamingInv
  <2>2. /\ client.ops = {"read"} /\ "read" \notin client'.ops => client'.ops = {}
        /\ client.ops = {"read"} /\ "read" \in client'.ops => client'.ops = {"read"}
    BY SMT
  <2> QED
    BY <1>1, <1>2, <2>1, <2>2 DEF ServerStreamingInv
<1>12. kind = "bidi" => BidiInv'
  BY <1>1, <1>2 DEF RpcInv, AppEndInv, BidiInv, SameWriter, WriterOps
<1>13. AppEndInv'
  BY <1>1, <1>2, <1>11, <1>12 DEF RpcInv, AppEndInv, StreamsResponses
<1> QED
  BY <1>5, <1>6, <1>7, <1>8, <1>9, <1>10, <1>13 DEF RpcInv, TypeOK

\* A client of a stream of responses has read one.
LEMMA ServerStreamingReadKeeps ==
  ASSUME RpcInv, ClientReadSucceeds, kind = "server_streaming"
  PROVE  RpcInv'
<1> DEFINE b == ReleaseTag(client, "read")
           r == Head(wire.toClient)
<1>1. /\ "read" \in client.ops /\ wire.toClient # <<>> /\ ClientCompletes("read", TRUE, r)
      /\ UNCHANGED <<kind, server, source, handler>>
      /\ wire' = [wire EXCEPT !.toClient = Tail(@)]
  BY DEF ClientReadSucceeds
<1> HIDE DEF r
<1>2. client.state = "READING_RESPONSE" /\ client \in Client
  BY <1>1, ReadingFacts
<1>3. b \in Client /\ Released(client, b, "read")
  BY <1>2, ReleaseFacts DEF ClientOps
<1>4. client' = ClientMaybeReadNext(b) /\ app' = Got(app, r)
  <2>1. b.state = "READING_RESPONSE"
    BY <1>2, <1>3 DEF Released, SameReader
  <2>2. ServerStreamingDone(b, app, TRUE, r) = <<ClientMaybeReadNext(b), Got(app, r)>>
    BY <2>1 DEF ServerStreamingDone
  <2>3. ClientDone(b, app, "read", TRUE, r) = <<ClientMaybeReadNext(b), Got(app, r)>>
    BY <2>2 DEF ClientDone
  <2> QED
    BY <1>1, <2>3, CompletesFacts
<1> HIDE DEF b
<1>5. client' \in Client /\ Continues(b, client')
  BY <1>3, <1>4, ContinueFacts
<1>6. /\ client'.started = client.started /\ client'.invoke = client.invoke
      /\ client'.error = client.error /\ client'.cancelled = client.cancelled
      /\ client'.readerDone = client.readerDone /\ SameWriter(client, client')
  BY <1>3, <1>5 DEF Continues, Released, SameReader, SameWriter, RequestLeaves
<1>7. /\ \/ client'.state = "AWAITING_REQUEST" /\ "read" \notin client'.ops
         \/ client'.state = "READING_RESPONSE" /\ "read" \in client'.ops
      /\ client'.ops \ {"read"} = client.ops \ {"read"}
  BY <1>3, <1>5 DEF Continues, Released
<1>8. client.requested < MaxValue => Outstanding(client') <= client.requested
  <2>1. client.requested < MaxValue => Outstanding(client') = client.requested
    BY <1>3, <1>5 DEF Continues, Released, SameReader
  <2>2. client.requested \in 0..MaxValue
    BY <1>2 DEF Client
  <2> QED
    BY SMT, <2>1, <2>2
<1> QED
  BY <1>1, <1>4, <1>5, <1>6, <1>7, <1>8, GotKeeps DEF r

\* A bidi client has read a response that it passes on.
LEMMA BidiReadKeeps ==
  ASSUME RpcInv, ClientReadSucceeds, kind = "bidi", ~client.error
  PROVE  RpcInv'
<1> DEFINE b == ReleaseTag(client, "read")
           e == [b EXCEPT !.state = "AWAITING_REQUEST"]
           r == Head(wire.toClient)
<1>1. /\ "read" \in client.ops /\ wire.toClient # <<>> /\ ClientCompletes("read", TRUE, r)
      /\ UNCHANGED <<kind, server, source, handler>>
      /\ wire' = [wire EXCEPT !.toClient = Tail(@)]
  BY DEF ClientReadSucceeds
<1> HIDE DEF r
<1>2. client.state = "READING_RESPONSE" /\ client \in Client
  BY <1>1, ReadingFacts
<1>3. b \in Client /\ Released(client, b, "read")
  BY <1>2, ReleaseFacts DEF ClientOps
<1>4. client' = ReaderRequest(e, 0) /\ app' = Got(app, r)
  <2>1. ~b.error
    BY <1>3 DEF Released
  <2>2. BidiReadDone(b, app, TRUE, r) = <<ReaderRequest(e, 0), Got(app, r)>>
    BY <2>1 DEF BidiReadDone
  <2>3. ClientDone(b, app, "read", TRUE, r) = <<ReaderRequest(e, 0), Got(app, r)>>
    BY <2>2 DEF ClientDone
  <2> QED
    BY <1>1, <2>3, CompletesFacts
<1> HIDE DEF b
<1>5. /\ e \in Client /\ e.ops = b.ops /\ e.started = b.started /\ e.invoke = b.invoke
      /\ e.error = b.error /\ e.cancelled = b.cancelled /\ SameWriter(b, e)
      /\ e.readerDone = b.readerDone /\ e.requested = b.requested /\ e.state = "AWAITING_REQUEST"
  BY <1>3 DEF Client, SameWriter
<1> HIDE DEF e
<1>6. 0 \in 0..MaxValue
  BY SMT, MaxValueAssumption
<1>7. client' \in Client /\ OnlyReads(e, client') /\ ReaderAsked(e, client', 0)
  BY <1>4, <1>5, <1>6, ReaderRequestAsked
<1>8. \/ client'.state = "READING_RESPONSE" /\ client'.ops = e.ops \cup {"read"}
      \/ client'.state = "AWAITING_REQUEST" /\ client'.ops = e.ops
  BY <1>4, <1>5, <1>6, ReaderRequestFacts
<1>9. /\ client'.started = client.started /\ client'.invoke = client.invoke
      /\ client'.error = client.error /\ client'.cancelled = client.cancelled
      /\ client'.readerDone = client.readerDone /\ SameWriter(client, client')
  BY <1>3, <1>5, <1>7 DEF OnlyReads, Released, SameReader, SameWriter, RequestLeaves
<1>10. /\ \/ client'.state = "AWAITING_REQUEST" /\ "read" \notin client'.ops
          \/ client'.state = "READING_RESPONSE" /\ "read" \in client'.ops
       /\ client'.ops \ {"read"} = client.ops \ {"read"}
  BY <1>3, <1>5, <1>8 DEF Released
<1>11. client.requested < MaxValue => Outstanding(client') <= client.requested
  <2>1. e.requested = client.requested /\ client.requested \in 0..MaxValue
    BY <1>2, <1>3, <1>5 DEF Released, SameReader, Client
  <2>2. client'.requested \in 0..MaxValue
    BY <1>7 DEF Client
  <2>3. e.requested + 0 < MaxValue => Outstanding(client') <= Outstanding(e) + 0
    BY <1>7 DEF ReaderAsked
  <2> QED
    BY SMT, <1>5, <2>1, <2>2, <2>3 DEF Outstanding
<1> QED
  BY <1>1, <1>4, <1>7, <1>9, <1>10, <1>11, GotKeeps DEF r

\* What the end of a stream is told to be.
ToldEnd(a, b, c) ==
  /\ b.got = a.got /\ b.demand = a.demand
  /\ \/ b.end = a.end /\ b.ends = a.ends
     \/ /\ c.writerDone /\ c.readerDone /\ ~c.cancelled /\ b.ends = a.ends + 1
        /\ b.end \in {"complete", "error"}
        /\ b.end = "complete" => wire.status = "ok" /\ ~c.error

\* TryShutdown tells the end when the reader and the writer are done.
LEMMA ShutdownFacts ==
  ASSUME NEW a \in App, NEW c \in Client, NEW b, b = TryShutdown(c, a)
  PROVE  b \in App /\ ToldEnd(a, b, c)
<1>1. CASE b = a
  BY <1>1 DEF ToldEnd
<1>2. CASE /\ c.writerDone /\ c.readerDone /\ ~c.cancelled
           /\ b = Ended(a, IF Status = "ok" /\ ~c.error THEN "complete" ELSE "error")
  <2>1. a.ends \in Nat
    BY DEF App
  <2>2. a.ends + 1 \in Nat
    BY SMT, <2>1
  <2> DEFINE how == IF Status = "ok" /\ ~c.error THEN "complete" ELSE "error"
  <2>3. how \in {"complete", "error"} /\ (how = "complete" => wire.status = "ok" /\ ~c.error)
    BY DEF Status
  <2>4. b = Ended(a, how)
    BY <1>2
  <2> HIDE DEF how
  <2>5. how \in Endings
    BY <2>3 DEF Endings
  <2>6. b \in App
    BY <2>2, <2>4, <2>5 DEF Ended, App
  <2>7. b.got = a.got /\ b.demand = a.demand /\ b.end = how /\ b.ends = a.ends + 1
    BY <2>4 DEF Ended, App
  <2> QED
    BY <1>2, <2>3, <2>6, <2>7 DEF ToldEnd
<1> QED
  BY <1>1, <1>2 DEF TryShutdown

\* The reader of a bidi call is done: with the responses, or with what comes
\* after an error of the requests, which it drops.
LEMMA BidiReadEnds ==
  ASSUME RpcInv, kind = "bidi", "read" \in client.ops,
         UNCHANGED <<kind, server, source, handler>>, wire' \in Wire,
         wire'.toServer = wire.toServer, wire'.closed = wire.closed,
         wire'.status = wire.status, wire'.cancelled = wire.cancelled,
         wire'.stopped = wire.stopped,
         \/ client.error
         \/ wire'.toClient = wire.toClient /\ NothingToRead,
         NEW b, b = ReleaseTag(client, "read"),
         client' = [b EXCEPT !.state = "END", !.readerDone = TRUE],
         app' = TryShutdown(client', app)
  PROVE  RpcInv'
<1>1. /\ StreamsResponses /\ client.state = "READING_RESPONSE" /\ ~GivenUp
      /\ app.end = "none" /\ client \in Client /\ app \in App
  BY ReadingFacts
<1>2. b \in Client /\ Released(client, b, "read")
  BY <1>1, ReleaseFacts DEF ClientOps
<1>3. /\ client' \in Client /\ client'.ops = b.ops /\ client'.started = b.started
      /\ client'.invoke = b.invoke /\ client'.error = b.error
      /\ client'.cancelled = b.cancelled /\ SameWriter(b, client')
      /\ client'.readerDone /\ client'.requested = b.requested /\ client'.state = "END"
  BY <1>2 DEF Client, SameWriter
<1>4. /\ client'.ops = client.ops \ {"read"} /\ client'.started = client.started
      /\ client'.invoke = client.invoke /\ client'.error = client.error
      /\ client'.cancelled = client.cancelled /\ SameWriter(client, client')
      /\ client'.requested = client.requested
  BY <1>2, <1>3 DEF Released, SameReader, SameWriter
<1>5. app' \in App /\ ToldEnd(app, app', client')
  BY <1>1, <1>3, ShutdownFacts
<1>6. app'.got = app.got /\ app'.demand = app.demand
  BY <1>5 DEF ToldEnd
<1>7. /\ Dead' = Dead /\ Broken' = Broken /\ StreamsResponses'
      /\ (GivenUp' <=> client.error)
  BY <1>1, <1>3, <1>4 DEF Dead, Broken, GivenUp, StreamsResponses
<1>8. ClientWriterInv'
  BY <1>4, <1>6, <1>7, ClientWriterFrame DEF RpcInv, WriterOps
<1>9. RequestsInv'
  BY <1>4, <1>7, RequestsFrame DEF RpcInv, SameWriter
<1>10. ServerReaderInv' /\ ServerWriterInv'
  BY <1>7, ServerReaderFrame, ServerWriterFrame DEF RpcInv
<1>11. ResponsesInv'
  <2>1. CASE client.error
    BY <1>1, <1>6, <1>7, <2>1 DEF RpcInv, ResponsesInv
  <2>2. CASE wire'.toClient = wire.toClient
    BY <1>1, <1>6, <1>7, <2>2, ResponsesFrame DEF RpcInv
  <2> QED
    BY <2>1, <2>2
<1>12. ClientReaderInv'
  <2> DEFINE g == Len(app.got)
  <2>1. client.requested \in 0..MaxValue /\ app.got \in Seq(Nat) /\ app.demand \in 0..MaxValue
    BY <1>1 DEF Client, App
  <2>2. g \in Nat
    BY <2>1, LengthsFacts
  <2>3. app.demand = Unbounded \/ g + Outstanding(client) <= app.demand
    BY <1>1, DemandLeft
  <2> HIDE DEF g
  <2>4. app.demand = Unbounded \/ g + Outstanding(client') <= app.demand
    BY SMT, <1>1, <1>3, <1>4, <2>1, <2>2, <2>3, MaxValueAssumption DEF Outstanding
  <2>5. "read" \notin client'.ops
    BY <1>4
  <2> QED
    BY <1>6, <1>7, <2>4, <2>5 DEF ClientReaderInv, g, StreamsResponses, Outstanding
<1>13. client.error \/ NothingToRead'
  BY <1>7 DEF NothingToRead
<1>14. BidiInv'
  <2>1. BidiInv
    BY DEF RpcInv, AppEndInv
  <2>2. WriterOps' = WriterOps
    BY <1>4 DEF WriterOps
  <2> QED
    BY <1>1, <1>3, <1>4, <1>5, <1>13, <2>1, <2>2 DEF BidiInv, ToldEnd, SameWriter
<1>15. AppEndInv'
  <2>1. app.ends = 0
    BY <1>1 DEF RpcInv, AppEndInv
  <2>2. 0 + 1 = 1
    BY SMT
  <2>3. app'.ends = IF app'.end = "none" THEN 0 ELSE 1
    BY <1>1, <1>5, <2>1, <2>2 DEF ToldEnd
  <2>4. ASSUME app'.end = "complete"
        PROVE  /\ wire'.status = "ok" /\ wire'.toClient = <<>> /\ ~GivenUp'
               /\ source'.end = "complete"
    <3>1. /\ client.writerDone /\ ~client.cancelled /\ wire.status = "ok" /\ ~client.error
      BY <1>1, <1>4, <1>5, <2>4 DEF ToldEnd, SameWriter
    <3>2. client.sentFinal
      BY <3>1 DEF RpcInv, AppEndInv, BidiInv
    <3>3. source.end # "none" /\ source.end # "error"
      BY <3>1, <3>2 DEF RpcInv, ClientWriterInv, WriterInv, StreamsRequests
    <3>4. source.end \in {"none", "complete", "error"}
      BY DEF RpcInv, TypeOK, Source, Endings
    <3>5. source'.end = "complete"
      BY <3>3, <3>4
    <3>6. wire'.toClient = <<>>
      BY <1>13, <3>1 DEF NothingToRead, Broken
    <3> QED
      BY <1>7, <3>1, <3>5, <3>6
  <2> QED
    BY <1>7, <1>14, <2>3, <2>4 DEF AppEndInv
<1> QED
  BY <1>3, <1>5, <1>8, <1>9, <1>10, <1>11, <1>12, <1>15 DEF RpcInv, TypeOK

\* A read of the client succeeds.
LEMMA ReadSucceedsKeeps ==
  ASSUME RpcInv, ClientReadSucceeds
  PROVE  RpcInv'
<1> DEFINE b == ReleaseTag(client, "read")
           d == [b EXCEPT !.state = "END", !.readerDone = TRUE]
           r == Head(wire.toClient)
<1>1. /\ "read" \in client.ops /\ wire.toClient # <<>> /\ ClientCompletes("read", TRUE, r)
      /\ UNCHANGED <<kind, server, source, handler>>
      /\ wire' = [wire EXCEPT !.toClient = Tail(@)]
  BY DEF ClientReadSucceeds
<1> HIDE DEF r
<1>2. StreamsResponses /\ client \in Client /\ wire \in Wire
  BY <1>1, ReadingFacts
<1>3. CASE kind = "server_streaming"
  BY <1>3, ServerStreamingReadKeeps
<1>4. CASE kind = "bidi" /\ ~client.error
  BY <1>4, BidiReadKeeps
<1>5. CASE kind = "bidi" /\ client.error
  <2>1. b.error
    BY <1>2, <1>5, ReleaseFacts DEF ClientOps, Released
  <2>2. BidiReadDone(b, app, TRUE, r) = <<d, TryShutdown(d, app)>>
    BY <2>1 DEF BidiReadDone
  <2>3. ClientDone(b, app, "read", TRUE, r) = <<d, TryShutdown(d, app)>>
    BY <1>5, <2>2 DEF ClientDone
  <2>4. client' = d /\ app' = TryShutdown(d, app)
    <3> HIDE DEF d
    <3> QED
      BY <1>1, <2>3, CompletesFacts
  <2>5. wire.toClient \in Seq(Nat)
    BY <1>2 DEF Wire
  <2>6. Tail(wire.toClient) \in Seq(Nat)
    BY SMT, <1>1, <2>5
  <2>7. wire' \in Wire
    BY <1>1, <1>2, <2>6 DEF Wire
  <2>8. /\ wire'.toServer = wire.toServer /\ wire'.closed = wire.closed
        /\ wire'.status = wire.status /\ wire'.cancelled = wire.cancelled
        /\ wire'.stopped = wire.stopped
    BY <1>1, <1>2 DEF Wire
  <2> QED
    BY <1>1, <1>5, <2>4, <2>7, <2>8, BidiReadEnds
<1> QED
  BY <1>2, <1>3, <1>4, <1>5 DEF StreamsResponses

\* The read of a server streaming call fails: it goes on to ask for the status.
LEMMA ServerStreamingReadFailsKeeps ==
  ASSUME RpcInv, ClientReadFails, kind = "server_streaming"
  PROVE  RpcInv'
<1> DEFINE b == ReleaseTag(client, "read")
           e == [b EXCEPT !.state = "FINISHING"]
<1>1. /\ "read" \in client.ops /\ NothingToRead /\ ClientCompletes("read", FALSE, 0)
      /\ UNCHANGED <<kind, server, wire, source, handler>>
  BY DEF ClientReadFails, NothingToRead
<1>2. /\ client.state = "READING_RESPONSE" /\ client \in Client /\ app \in App
      /\ app.end = "none" /\ StreamsResponses
  BY <1>1, ReadingFacts
<1>3. b \in Client /\ Released(client, b, "read")
  BY <1>2, ReleaseFacts DEF ClientOps
<1>4. client' = Starts(e, "finish") /\ app' = app
  <2>1. b.state = "READING_RESPONSE"
    BY <1>2, <1>3 DEF Released, SameReader
  <2>2. ServerStreamingDone(b, app, FALSE, 0) = <<Starts(e, "finish"), app>>
    BY <2>1 DEF ServerStreamingDone
  <2>3. ClientDone(b, app, "read", FALSE, 0) = <<Starts(e, "finish"), app>>
    BY <2>2 DEF ClientDone
  <2> QED
    BY <1>1, <2>3, CompletesFacts
<1> HIDE DEF b
<1>5. e \in Client
  BY <1>3 DEF Client
<1>6. client' \in Client
  BY <1>4, <1>5, StartsType DEF ClientOps
<1>7. /\ client'.state = "FINISHING" /\ client'.ops = b.ops \cup {"finish"}
      /\ client'.started = b.started /\ client'.invoke = b.invoke
      /\ client'.requested = b.requested /\ SameWriter(b, client')
  BY <1>3, <1>4 DEF Starts, Client, SameWriter
<1>8. ServerStreamingInv /\ client.ops = {"read"} /\ ClientWriterInv
  BY <1>2 DEF RpcInv, AppEndInv, ServerStreamingInv
<1>9. /\ client'.ops = {"finish"} /\ client'.started = client.started
      /\ client'.invoke = client.invoke /\ client'.requested = client.requested
      /\ client'.next = client.next /\ client'.writing = client.writing
  BY <1>3, <1>7, <1>8 DEF Released, SameReader, SameWriter
<1>10. /\ Dead' = Dead /\ NothingToRead' /\ (GivenUp => GivenUp')
       /\ StreamsResponses' /\ StreamsRequests' = StreamsRequests
  BY <1>1, <1>2 DEF Dead, NothingToRead, Broken, GivenUp, StreamsResponses, StreamsRequests
<1>11. ClientWriterInv' /\ RequestsInv'
  <2>1. ClientWriterInv'
    BY <1>1, <1>8, <1>9, <1>10 DEF ClientWriterInv, StreamsRequests
  <2> QED
    BY <1>1, <1>9, <1>10, <2>1, RequestsFrame DEF RpcInv
<1>12. ClientReaderInv'
  <2> DEFINE g == Len(app.got)
  <2>1. client.requested \in 0..MaxValue /\ app.got \in Seq(Nat) /\ app.demand \in 0..MaxValue
    BY <1>2 DEF Client, App
  <2>2. g \in Nat
    BY <2>1, LengthsFacts
  <2>3. app.demand = Unbounded \/ g + Outstanding(client) <= app.demand
    BY <1>2, DemandLeft
  <2> HIDE DEF g
  <2>4. app.demand = Unbounded \/ g + Outstanding(client') <= app.demand
    BY SMT, <1>2, <1>7, <1>9, <2>1, <2>2, <2>3, MaxValueAssumption DEF Outstanding
  <2>5. "read" \notin client'.ops
    BY <1>9
  <2> QED
    BY <1>4, <1>10, <2>4, <2>5 DEF ClientReaderInv, g, StreamsResponses, Outstanding
<1>13. AppEndInv'
  <2>1. ServerStreamingInv'
    BY <1>2, <1>4, <1>7, <1>8, <1>9, <1>10 DEF ServerStreamingInv
  <2> QED
    BY <1>1, <1>2, <1>4, <2>1 DEF RpcInv, AppEndInv
<1> QED
  BY <1>1, <1>2, <1>4, <1>6, <1>10, <1>11, <1>12, <1>13, CompletionKeepsRest
  DEF RpcInv, TypeOK

\* A read of the client fails.
LEMMA ReadFailsKeeps ==
  ASSUME RpcInv, ClientReadFails
  PROVE  RpcInv'
<1> DEFINE b == ReleaseTag(client, "read")
           d == [b EXCEPT !.state = "END", !.readerDone = TRUE]
<1>1. /\ "read" \in client.ops /\ NothingToRead /\ ClientCompletes("read", FALSE, 0)
      /\ UNCHANGED <<kind, server, wire, source, handler>>
  BY DEF ClientReadFails, NothingToRead
<1>2. StreamsResponses /\ wire \in Wire
  BY <1>1, ReadingFacts
<1>3. CASE kind = "bidi"
  <2>1. BidiReadDone(b, app, FALSE, 0) = <<d, TryShutdown(d, app)>>
    BY DEF BidiReadDone
  <2>2. ClientDone(b, app, "read", FALSE, 0) = <<d, TryShutdown(d, app)>>
    BY <1>3, <2>1 DEF ClientDone
  <2>3. client' = d /\ app' = TryShutdown(d, app)
    BY <1>1, <2>2, CompletesFacts
  <2> QED
    BY <1>1, <1>2, <1>3, <2>3, BidiReadEnds
<1> QED
  BY <1>2, <1>3, ServerStreamingReadFailsKeeps DEF StreamsResponses

\* Finish completes: the application is told the end, unless it cancelled.
LEMMA FinishKeeps ==
  ASSUME RpcInv, UNCHANGED <<kind, server, wire, source, handler>>,
         "finish" \in client.ops, client' \in Client, app' \in App,
         client'.ops = client.ops \ {"finish"}, client'.started = client.started,
         client'.invoke = client.invoke, client'.error = client.error,
         SameReader(client, client'), client'.busy = client.busy,
         client'.next = client.next, client'.asked = client.asked,
         client'.writing = client.writing, client'.writesDone = client.writesDone,
         client'.finish = client.finish, client'.sentFinal = client.sentFinal,
         app'.demand = app.demand, Dead,
         ResponsesInv', ClientReaderInv', AppEndInv'
  PROVE  RpcInv'
<1>1. Dead' = Dead /\ StreamsRequests' = StreamsRequests
  BY DEF Dead, StreamsRequests
<1>2. ClientWriterInv'
  <2>1. CASE StreamsRequests
    <3>1. WriterInv(client', source')
      BY <2>1 DEF RpcInv, ClientWriterInv, WriterInv
    <3>2. client.started
      BY <2>1 DEF RpcInv, ClientWriterInv, WriterOps
    <3> QED
      BY <1>1, <2>1, <3>1, <3>2 DEF RpcInv, ClientWriterInv
  <2>2. CASE ~StreamsRequests
    BY <1>1, <2>2 DEF RpcInv, ClientWriterInv
  <2> QED
    BY <2>1, <2>2
<1>3. RequestsInv'
  BY <1>1, RequestsFrame DEF RpcInv
<1>4. ServerReaderInv' /\ ServerWriterInv'
  BY <1>1, ServerReaderFrame, ServerWriterFrame DEF RpcInv
<1> QED
  BY <1>2, <1>3, <1>4 DEF RpcInv, TypeOK

\* What a call with one response tells of it.
ToldResponse(a, b) ==
  \/ b = a
  \/ b.demand = a.demand /\ b.ends = a.ends + 1 /\ b.end = "error" /\ b.got = a.got
  \/ /\ b.demand = a.demand /\ b.ends = a.ends + 1 /\ b.end = "complete"
     /\ b.got = Append(a.got, 1) /\ wire.status = "ok"

\* An error is told once.
LEMMA ErrorFacts ==
  ASSUME NEW a \in App, NEW b, b = Ended(a, "error")
  PROVE  b \in App /\ ToldResponse(a, b)
<1>1. a.ends + 1 \in Nat
  BY SMT DEF App
<1>2. b \in App
  BY <1>1 DEF Ended, App, Endings
<1>3. b.demand = a.demand /\ b.ends = a.ends + 1 /\ b.end = "error" /\ b.got = a.got
  BY DEF Ended, App
<1> QED
  BY <1>2, <1>3 DEF ToldResponse

\* HandleUnaryResponse tells the response and the end, or an error.
LEMMA HandleUnaryResponseFacts ==
  ASSUME NEW a \in App, NEW b, b = HandleUnaryResponse(a)
  PROVE  b \in App /\ ToldResponse(a, b)
<1>1. CASE Status = "ok"
  <2> DEFINE g == Append(a.got, 1)
  <2>1. a.got \in Seq(Nat) /\ a.ends \in Nat
    BY DEF App
  <2>2. g \in Seq(Nat) /\ a.ends + 1 \in Nat
    BY SMT, <2>1
  <2>3. b = [[a EXCEPT !.got = g] EXCEPT !.end = "complete", !.ends = @ + 1]
    BY <1>1 DEF HandleUnaryResponse, Ended, Got
  <2>4. wire.status = "ok"
    BY <1>1 DEF Status
  <2> HIDE DEF g
  <2>5. b \in App
    BY <2>2, <2>3 DEF App, Endings
  <2>6. b.demand = a.demand /\ b.ends = a.ends + 1 /\ b.end = "complete" /\ b.got = g
    BY <2>3 DEF App
  <2> QED
    BY <2>4, <2>5, <2>6 DEF ToldResponse, g
<1>2. CASE Status # "ok"
  BY <1>2, ErrorFacts DEF HandleUnaryResponse
<1> QED
  BY <1>1, <1>2

\* The finish of a call with one response.
LEMMA ResponseToldKeeps ==
  ASSUME RpcInv, ClientFinishes, kind \in {"unary", "client_streaming"},
         NEW b, b = ReleaseTag(client, "finish"), client' = b,
         app' \in App, ToldResponse(app, app'),
         kind = "client_streaming" /\ client.error => app'.end # "complete"
  PROVE  RpcInv'
<1>1. /\ "finish" \in client.ops /\ Dead /\ UNCHANGED <<kind, server, wire, source, handler>>
  BY DEF ClientFinishes
<1>2. client \in Client /\ app \in App /\ source \in Source
  BY DEF RpcInv, TypeOK
<1>3. client' \in Client /\ Released(client, client', "finish")
  BY <1>2, ReleaseFacts DEF ClientOps
<1>4. /\ ~StreamsResponses /\ Dead' = Dead /\ app.end = "none" /\ app.got = <<>>
      /\ StreamsResponses' = StreamsResponses /\ StreamsRequests' = StreamsRequests
  BY <1>1 DEF RpcInv, AppEndInv, UnaryInv, ClientStreamingInv, StreamsResponses,
              StreamsRequests, Dead
<1>5. app.ends = 0 /\ app'.demand = app.demand
  BY <1>4 DEF RpcInv, AppEndInv, ToldResponse
<1>6. Append(<<>>, 1) = <<1>> /\ Len(<<1>>) = 1 /\ <<1>>[1] = 1 /\ 1 # 0 /\ 0 + 1 = 1
      /\ <<1>> # <<>> /\ 1 <= 1 /\ Len(<<>>) = 0
      /\ \A i \in 1..1 : <<1>>[i] = i
  BY SMT
<1>7. \/ app' = app
      \/ app'.ends = 1 /\ app'.end = "error" /\ app'.got = <<>>
      \/ app'.ends = 1 /\ app'.end = "complete" /\ app'.got = <<1>> /\ wire.status = "ok"
  BY <1>4, <1>5, <1>6 DEF ToldResponse
<1>8. ResponsesInv'
  <2>1. CASE app'.got = app.got
    <3>1. GivenUp => GivenUp'
      BY <1>3 DEF GivenUp, Released, SameReader
    <3> QED
      BY <1>1, <1>4, <2>1, <3>1, ResponsesFrame DEF RpcInv
  <2>2. CASE app'.got = <<1>> /\ wire.status = "ok"
    <3>1. handler.emitted = 1 /\ handler.end = "complete" /\ wire.toClient = <<>>
      BY <1>4, <2>2 DEF RpcInv, ResponsesInv
    <3>2. Len(app'.got) = 1 /\ Len(app'.got) <= handler'.emitted
          /\ \A i \in 1..Len(app'.got) : app'.got[i] = i
      BY <1>1, <1>6, <2>2, <3>1
    <3> QED
      BY <1>1, <1>4, <2>2, <3>1, <3>2 DEF ResponsesInv
  <2> QED
    BY <1>4, <1>7, <2>1, <2>2
<1>9. ClientReaderInv'
  <2>1. "read" \notin client'.ops
    BY <1>3, <1>4 DEF RpcInv, ClientReaderInv, Released
  <2> QED
    BY <1>4, <2>1 DEF ClientReaderInv
<1>10. kind = "unary" => UnaryInv'
  <2>1. UnaryInv /\ kind = "unary" => client.ops = {"finish"} /\ client'.ops = {}
    BY <1>1, <1>3 DEF UnaryInv, Released
  <2> QED
    BY <1>1, <1>3, <1>4, <1>5, <1>7, <2>1 DEF RpcInv, AppEndInv, UnaryInv, Released
<1>11. kind = "client_streaming" => client.sentFinal /\ source.end # "none"
                                      /\ (source.end = "error" => client.error)
  BY <1>1 DEF RpcInv, ClientWriterInv, WriterInv, StreamsRequests
<1>12. kind = "client_streaming" => ClientStreamingInv'
  BY <1>1, <1>3, <1>4, <1>7, <1>11 DEF ClientStreamingInv, Released, SameWriter
<1>13. app'.end = "complete" =>
         /\ wire'.status = "ok" /\ Len(app'.got) = 1
         /\ StreamsRequests => source'.end = "complete"
  <2>1. source.end \in {"none", "complete", "error"}
    BY <1>2 DEF Source, Endings
  <2> QED
    BY <1>1, <1>4, <1>6, <1>7, <1>11, <2>1 DEF StreamsRequests
<1>14. app'.ends = IF app'.end = "none" THEN 0 ELSE 1
  BY <1>4, <1>5, <1>7
<1>15. AppEndInv'
  BY <1>1, <1>4, <1>10, <1>12, <1>13, <1>14 DEF AppEndInv
<1> QED
  BY <1>1, <1>3, <1>5, <1>8, <1>9, <1>15, FinishKeeps DEF Released, SameWriter

\* A server streaming call has got its status.
LEMMA ServerStreamingFinishKeeps ==
  ASSUME RpcInv, ClientFinishes, kind = "server_streaming"
  PROVE  RpcInv'
<1> DEFINE b == ReleaseTag(client, "finish")
           how == IF Status = "ok" THEN "complete" ELSE "error"
<1>1. /\ "finish" \in client.ops /\ Dead /\ ClientCompletes("finish", TRUE, 0)
      /\ UNCHANGED <<kind, server, wire, source, handler>>
  BY DEF ClientFinishes
<1>2. client \in Client /\ app \in App /\ ServerStreamingInv
  BY DEF RpcInv, TypeOK, AppEndInv
<1>3. b \in Client /\ Released(client, b, "finish")
  BY <1>2, ReleaseFacts DEF ClientOps
<1>4. client.state = "FINISHING" /\ client.ops = {"finish"} /\ NothingToRead /\ app.end = "none"
  <2>1. client.state \in {"INIT", "AWAITING_REQUEST", "READING_RESPONSE", "FINISHING", "END"}
    BY <1>2 DEF Client
  <2>2. client.state = "FINISHING"
    BY SMT, <1>1, <1>2, <2>1 DEF ServerStreamingInv
  <2> QED
    BY <1>1, <1>2, <2>2 DEF ServerStreamingInv
<1>5. client' = b /\ app' = Ended(app, how)
  <2>1. b.state = "FINISHING"
    BY <1>3, <1>4 DEF Released, SameReader
  <2>2. ServerStreamingDone(b, app, TRUE, 0) = <<b, Ended(app, how)>>
    BY <2>1 DEF ServerStreamingDone
  <2>3. ClientDone(b, app, "finish", TRUE, 0) = <<b, Ended(app, how)>>
    BY <2>2 DEF ClientDone
  <2> QED
    BY <1>1, <2>3, CompletesFacts
<1>6. how \in {"complete", "error"} /\ (how = "complete" => wire.status = "ok")
  BY DEF Status
<1> HIDE DEF b, how
<1>7. app.ends = 0 /\ 0 + 1 = 1 /\ 1 \in Nat
  <2>1. 0 + 1 = 1 /\ 1 \in Nat
    BY SMT
  <2> QED
    BY <1>4, <2>1 DEF RpcInv, AppEndInv
<1>8. app' \in App
  BY <1>2, <1>5, <1>6, <1>7 DEF Ended, App, Endings
<1>9. app'.got = app.got /\ app'.demand = app.demand /\ app'.end = how /\ app'.ends = 1
  BY <1>2, <1>5, <1>7 DEF Ended, App
<1>10. /\ client'.ops = {} /\ client'.started = client.started /\ client'.invoke = client.invoke
       /\ client'.error = client.error /\ SameReader(client, client')
       /\ SameWriter(client, client')
  BY <1>3, <1>4, <1>5 DEF Released
<1>11. /\ Dead' = Dead /\ NothingToRead' /\ ~GivenUp' /\ ~GivenUp
       /\ StreamsResponses /\ StreamsResponses' /\ ~StreamsRequests'
  BY <1>1, <1>4, <1>10
     DEF Dead, NothingToRead, Broken, GivenUp, StreamsResponses, StreamsRequests, SameReader
<1>12. ResponsesInv'
  BY <1>1, <1>9, <1>11, ResponsesFrame DEF RpcInv
<1>13. ClientReaderInv'
  <2>1. "read" \notin client.ops /\ "read" \notin client'.ops
    BY <1>4, <1>10
  <2> QED
    BY <1>1, <1>9, <1>10, <2>1, ClientReaderFrame DEF RpcInv, SameReader
<1>14. ServerStreamingInv'
  BY <1>2, <1>4, <1>10, <1>11 DEF ServerStreamingInv, SameReader
<1>15. app'.end = "complete" => wire'.status = "ok" /\ wire'.toClient = <<>>
  BY <1>1, <1>4, <1>6, <1>9 DEF NothingToRead, Broken
<1>16. AppEndInv'
  BY <1>1, <1>6, <1>9, <1>11, <1>14, <1>15 DEF AppEndInv
<1>17. client'.ops = client.ops \ {"finish"}
  BY <1>4, <1>10
<1> QED
  BY <1>1, <1>3, <1>5, <1>8, <1>9, <1>10, <1>12, <1>13, <1>16, <1>17, FinishKeeps
  DEF SameWriter

\* A bidi call has got its status: its writer is done.
LEMMA BidiFinishKeeps ==
  ASSUME RpcInv, ClientFinishes, kind = "bidi"
  PROVE  RpcInv'
<1> DEFINE b == ReleaseTag(client, "finish")
           d == [b EXCEPT !.writerDone = TRUE]
<1>1. /\ "finish" \in client.ops /\ Dead /\ ClientCompletes("finish", TRUE, 0)
      /\ UNCHANGED <<kind, server, wire, source, handler>>
  BY DEF ClientFinishes
<1>2. /\ client \in Client /\ app \in App /\ BidiInv /\ StreamsRequests /\ StreamsResponses
      /\ WriterInv(client, source)
  BY DEF RpcInv, TypeOK, AppEndInv, StreamsRequests, StreamsResponses, ClientWriterInv
<1>3. b \in Client /\ Released(client, b, "finish")
  BY <1>2, ReleaseFacts DEF ClientOps
<1>4. /\ client.sentFinal /\ client.busy /\ ~client.writerDone /\ app.end = "none"
      /\ source.end # "none" /\ (source.end = "error" => client.error)
      /\ client.ops \subseteq {"read", "finish"}
  BY <1>1, <1>2 DEF BidiInv, WriterInv, WriterOps
<1>5. client' = d /\ app' = TryShutdown(d, app)
  <2>1. b.sentFinal
    BY <1>3, <1>4 DEF Released, SameWriter
  <2>2. BidiDone(b, app, TRUE) = <<d, TryShutdown(d, app)>>
    BY <2>1 DEF BidiDone
  <2>3. ClientDone(b, app, "finish", TRUE, 0) = <<d, TryShutdown(d, app)>>
    BY <2>2 DEF ClientDone
  <2> HIDE DEF d
  <2> QED
    BY <1>1, <2>3, CompletesFacts
<1> HIDE DEF b
<1>6. /\ d \in Client /\ d.ops = b.ops /\ d.started = b.started /\ d.invoke = b.invoke
      /\ d.error = b.error /\ d.cancelled = b.cancelled /\ SameReader(b, d)
      /\ d.busy = b.busy /\ d.next = b.next /\ d.asked = b.asked /\ d.writing = b.writing
      /\ d.writesDone = b.writesDone /\ d.finish = b.finish /\ d.sentFinal = b.sentFinal
      /\ d.writerDone
  BY <1>3 DEF Client, SameReader
<1> HIDE DEF d
<1>7. app' \in App /\ ToldEnd(app, app', client')
  BY <1>2, <1>5, <1>6, ShutdownFacts
<1>8. /\ client'.ops = client.ops \ {"finish"} /\ client'.started = client.started
      /\ client'.invoke = client.invoke /\ client'.error = client.error
      /\ SameReader(client, client') /\ client'.busy = client.busy
      /\ client'.next = client.next /\ client'.asked = client.asked
      /\ client'.writing = client.writing /\ client'.writesDone = client.writesDone
      /\ client'.finish = client.finish /\ client'.sentFinal = client.sentFinal
      /\ client'.cancelled = client.cancelled /\ client'.writerDone
  BY <1>3, <1>5, <1>6 DEF Released, SameReader, SameWriter
<1>9. app'.got = app.got /\ app'.demand = app.demand
  BY <1>7 DEF ToldEnd
<1>10. /\ Dead' = Dead /\ (NothingToRead => NothingToRead') /\ (GivenUp <=> GivenUp')
       /\ StreamsResponses' /\ StreamsRequests'
  BY <1>1, <1>2, <1>8
     DEF Dead, NothingToRead, Broken, GivenUp, StreamsResponses, StreamsRequests, SameReader
<1>11. ResponsesInv'
  BY <1>1, <1>9, <1>10, ResponsesFrame DEF RpcInv
<1>12. ClientReaderInv'
  <2>1. "read" \in client'.ops <=> "read" \in client.ops
    BY <1>8
  <2> QED
    BY <1>1, <1>8, <1>9, <2>1, ClientReaderFrame DEF RpcInv, SameReader
<1>13. BidiInv'
  <2>1. WriterOps' = {}
    BY <1>4, <1>8 DEF WriterOps
  <2> QED
    BY <1>2, <1>4, <1>7, <1>8, <1>10, <2>1 DEF BidiInv, ToldEnd, SameReader
<1>14. app.ends = 0 /\ 0 + 1 = 1
  <2>1. 0 + 1 = 1
    BY SMT
  <2> QED
    BY <1>4, <2>1 DEF RpcInv, AppEndInv
<1>15. app'.ends = IF app'.end = "none" THEN 0 ELSE 1
  BY <1>4, <1>7, <1>14 DEF ToldEnd
<1>16. ASSUME app'.end = "complete"
       PROVE  /\ wire'.status = "ok" /\ wire'.toClient = <<>> /\ ~GivenUp'
              /\ source'.end = "complete"
  <2>1. client.readerDone /\ wire.status = "ok" /\ ~client.error
    BY <1>4, <1>7, <1>8, <1>16 DEF ToldEnd, SameReader
  <2>2. wire.toClient = <<>>
    BY <1>2, <2>1 DEF BidiInv, NothingToRead, Broken
  <2>3. source.end \in {"none", "complete", "error"}
    BY DEF RpcInv, TypeOK, Source, Endings
  <2>4. source.end = "complete"
    BY <1>4, <2>1, <2>3
  <2> QED
    BY <1>1, <1>10, <2>1, <2>2, <2>4 DEF GivenUp
<1>17. AppEndInv'
  BY <1>1, <1>10, <1>13, <1>15, <1>16 DEF AppEndInv
<1> QED
  BY <1>1, <1>5, <1>6, <1>7, <1>8, <1>9, <1>11, <1>12, <1>17, FinishKeeps

\* The client's Finish completes.
LEMMA FinishesKeeps ==
  ASSUME RpcInv, ClientFinishes
  PROVE  RpcInv'
<1> DEFINE b == ReleaseTag(client, "finish")
<1>1. "finish" \in client.ops /\ ClientCompletes("finish", TRUE, 0)
  BY DEF ClientFinishes
<1>2. client \in Client /\ app \in App /\ kind \in KindSet
  BY RpcAssumption DEF RpcInv, TypeOK
<1>3. b \in Client /\ Released(client, b, "finish")
  BY <1>2, ReleaseFacts DEF ClientOps
<1>4. CASE kind = "unary"
  <2> DEFINE a == IF b.cancelled THEN app ELSE HandleUnaryResponse(app)
  <2>1. ClientDone(b, app, "finish", TRUE, 0) = <<b, a>>
    BY <1>4 DEF ClientDone, UnaryDone
  <2>2. client' = b /\ app' = a
    BY <1>1, <2>1, CompletesFacts
  <2>3. app' \in App /\ ToldResponse(app, app')
    BY <1>2, <2>2, HandleUnaryResponseFacts DEF ToldResponse
  <2> QED
    BY <1>4, <2>2, <2>3, ResponseToldKeeps
<1>5. CASE kind = "client_streaming"
  <2> DEFINE a == IF b.cancelled THEN app
                  ELSE IF b.error THEN Ended(app, "error") ELSE HandleUnaryResponse(app)
  <2>1. client.sentFinal
    BY <1>1, <1>5 DEF RpcInv, ClientWriterInv, WriterInv, StreamsRequests
  <2>2. b.sentFinal
    BY <1>3, <2>1 DEF Released, SameWriter
  <2>3. ClientDone(b, app, "finish", TRUE, 0) = <<b, a>>
    BY <1>5, <2>2 DEF ClientDone, ClientStreamingDone
  <2>4. client' = b /\ app' = a
    BY <1>1, <2>3, CompletesFacts
  <2>5. app' \in App /\ ToldResponse(app, app')
    BY <1>2, <2>4, HandleUnaryResponseFacts, ErrorFacts DEF ToldResponse
  <2>6. ASSUME client.error
        PROVE  app'.end # "complete"
    <3>1. app' = app \/ app' = Ended(app, "error")
      BY <1>3, <2>4, <2>6 DEF Released
    <3>2. app.end = "none"
      BY <1>1, <1>5 DEF RpcInv, AppEndInv, ClientStreamingInv
    <3> QED
      BY <1>2, <3>1, <3>2 DEF Ended, App
  <2> QED
    BY <1>5, <2>4, <2>5, <2>6, ResponseToldKeeps
<1> QED
  BY <1>2, <1>4, <1>5, ServerStreamingFinishKeeps, BidiFinishKeeps DEF KindSet

-----------------------------------------------------------------------------
(* What the operations on the server's call do to it.                      *)

ServerOps == {"request", "read", "write", "finish"}

\* An operation of the server's call is started.
LEMMA ServerStartsType ==
  ASSUME NEW s \in Server, NEW op \in ServerOps
  PROVE  Starts(s, op) \in Server
<1>1. s.ops \cup {op} \in SUBSET ServerOps
  BY DEF Server, ServerOps
<1> QED
  BY <1>1 DEF Starts, Server, ServerOps

\* The server's call s after op has gone.
ServerReleased(s, t, op) ==
  /\ t.ops = s.ops \ {op} /\ t.state = s.state /\ t.requested = s.requested
  /\ t.next = s.next /\ t.finish = s.finish /\ t.status = s.status /\ t.busy = s.busy
  /\ t.sentFinal = s.sentFinal /\ t.responses = s.responses /\ t.error = s.error
  /\ t.finished = s.finished /\ t.retained = s.retained /\ t.asked = s.asked
  /\ t.writing = s.writing

\* A completed operation lets go of the call and changes nothing else.
LEMMA ServerReleaseFacts ==
  ASSUME NEW s \in Server, NEW op \in ServerOps, NEW t, t = ReleaseTag(s, op)
  PROVE  t \in Server /\ ServerReleased(s, t, op)
<1>1. s.ops \ {op} \in SUBSET ServerOps
  BY DEF Server, ServerOps
<1>2. t \in Server
  BY <1>1 DEF ReleaseTag, Server, ServerOps
<1>3. ServerReleased(s, t, op)
  BY DEF ReleaseTag, Server, ServerReleased
<1> QED
  BY <1>2, <1>3

\* A response is taken from the queue and written, and the next one asked for.
SendsResponse(s, t) ==
  /\ s.next # 0 /\ t.writing = s.next /\ t.next = 0 /\ t.asked = s.asked + 1
  /\ t.ops = s.ops \cup {"write"} /\ t.finish = s.finish /\ t.status = s.status
  /\ kind = "server_streaming" => s.state = "AWAITING_RESPONSE" /\ t.state = "SENDING_RESPONSE"
  /\ kind = "bidi" => ~s.busy /\ t.busy /\ t.state = s.state /\ t.sentFinal = s.sentFinal

\* After the last one the status is sent.
SendsStatus(s, t) ==
  /\ s.next = 0 /\ s.finish /\ t.writing = s.writing /\ t.next = 0 /\ t.asked = s.asked
  /\ t.ops = s.ops \cup {"finish"} /\ ~t.finish /\ t.status = s.status
  /\ kind = "server_streaming" =>
       s.state = "AWAITING_RESPONSE" /\ t.state = "SENT_FINAL_RESPONSE"
  /\ kind = "bidi" => ~s.busy /\ t.busy /\ t.state = s.state /\ t.sentFinal

RunsResponder(s, t) == t = s \/ SendsResponse(s, t) \/ SendsStatus(s, t)

\* RunEnqueuedOperation of a server streaming call.
LEMMA StreamRunFacts ==
  ASSUME NEW s \in Server, NEW t, t = StreamRunEnqueuedOperation(s), kind = "server_streaming"
  PROVE  t \in Server /\ RunsResponder(s, t)
<1>0. s.asked \in Nat /\ s.next \in Nat /\ 0 \in Nat
  BY SMT DEF Server
<1>1. s.asked + 1 \in Nat
  BY SMT, <1>0
<1>2. CASE t = s
  BY <1>2 DEF RunsResponder
<1>3. CASE /\ s.state = "AWAITING_RESPONSE" /\ s.next # 0
           /\ t = Starts([s EXCEPT !.state = "SENDING_RESPONSE", !.writing = s.next,
                                   !.next = 0, !.asked = @ + 1], "write")
  <2> DEFINE u == [s EXCEPT !.state = "SENDING_RESPONSE", !.writing = s.next,
                            !.next = 0, !.asked = @ + 1]
  <2>1. u \in Server
    BY <1>0, <1>1 DEF Server
  <2>2. t \in Server
    BY <1>3, <2>1, ServerStartsType DEF ServerOps
  <2>3. SendsResponse(s, t)
    BY <1>3 DEF SendsResponse, Starts, Server
  <2> QED
    BY <2>2, <2>3 DEF RunsResponder
<1>4. CASE /\ s.state = "AWAITING_RESPONSE" /\ s.next = 0 /\ s.finish
           /\ t = Starts([s EXCEPT !.finish = FALSE, !.state = "SENT_FINAL_RESPONSE"], "finish")
  <2> DEFINE u == [s EXCEPT !.finish = FALSE, !.state = "SENT_FINAL_RESPONSE"]
  <2>1. u \in Server
    BY DEF Server
  <2>2. t \in Server
    BY <1>4, <2>1, ServerStartsType DEF ServerOps
  <2>3. SendsStatus(s, t)
    BY <1>4 DEF SendsStatus, Starts, Server
  <2> QED
    BY <2>2, <2>3 DEF RunsResponder
<1> QED
  BY <1>2, <1>3, <1>4 DEF StreamRunEnqueuedOperation

\* RunEnqueuedOperation of the Writer of a bidi call.
LEMMA WriterRunFacts ==
  ASSUME NEW s \in Server, NEW t, t = WriterRunEnqueuedOperation(s), kind = "bidi"
  PROVE  t \in Server /\ RunsResponder(s, t)
<1>0. s.asked \in Nat /\ s.next \in Nat /\ 0 \in Nat
  BY SMT DEF Server
<1>1. s.asked + 1 \in Nat
  BY SMT, <1>0
<1>2. CASE t = s
  BY <1>2 DEF RunsResponder
<1>3. CASE /\ ~s.busy /\ s.next # 0
           /\ t = Starts([s EXCEPT !.busy = TRUE, !.writing = s.next, !.next = 0,
                                   !.asked = @ + 1], "write")
  <2> DEFINE u == [s EXCEPT !.busy = TRUE, !.writing = s.next, !.next = 0, !.asked = @ + 1]
  <2>1. u \in Server
    BY <1>0, <1>1 DEF Server
  <2>2. t \in Server
    BY <1>3, <2>1, ServerStartsType DEF ServerOps
  <2>3. SendsResponse(s, t)
    BY <1>3 DEF SendsResponse, Starts, Server
  <2> QED
    BY <2>2, <2>3 DEF RunsResponder
<1>4. CASE /\ ~s.busy /\ s.next = 0 /\ s.finish
           /\ t = Starts([s EXCEPT !.finish = FALSE, !.busy = TRUE, !.sentFinal = TRUE], "finish")
  <2> DEFINE u == [s EXCEPT !.finish = FALSE, !.busy = TRUE, !.sentFinal = TRUE]
  <2>1. u \in Server
    BY DEF Server
  <2>2. t \in Server
    BY <1>4, <2>1, ServerStartsType DEF ServerOps
  <2>3. SendsStatus(s, t)
    BY <1>4 DEF SendsStatus, Starts, Server
  <2> QED
    BY <2>2, <2>3 DEF RunsResponder
<1> QED
  BY <1>2, <1>3, <1>4 DEF WriterRunEnqueuedOperation

\* RunEnqueuedOperation of the two calls with a stream of responses
LEMMA RespondFacts ==
  ASSUME NEW s \in Server, NEW t, t = RunEnqueuedOperation(s), StreamsResponses
  PROVE  t \in Server /\ RunsResponder(s, t)
<1>1. CASE kind = "server_streaming"
  BY <1>1, StreamRunFacts DEF RunEnqueuedOperation
<1>2. CASE kind = "bidi"
  BY <1>2, WriterRunFacts DEF RunEnqueuedOperation
<1> QED
  BY <1>1, <1>2 DEF StreamsResponses

\* The invariant of the server's writer, of a call s whose handler's stream is h.
ResponderInv(s, h) ==
  /\ s.asked = h.emitted + 1 - Slot(s.next)
  /\ s.next # 0 => s.next = h.emitted
  /\ s.finish => h.end # "none"
  /\ h.end = "error" => s.status = "error"
  /\ kind = "server_streaming" =>
       /\ "write" \in s.ops => s.state = "SENDING_RESPONSE"
       /\ "finish" \in s.ops => s.state = "SENT_FINAL_RESPONSE"
       /\ s.state = "SENT_FINAL_RESPONSE" => s.next = 0 /\ h.end # "none"
  /\ kind = "bidi" =>
       /\ ~s.busy => "write" \notin s.ops /\ "finish" \notin s.ops
       /\ s.sentFinal => s.busy /\ "write" \notin s.ops /\ s.next = 0 /\ h.end # "none"
       /\ "finish" \in s.ops => s.sentFinal

\* It holds of the server's call.
LEMMA ResponderFacts ==
  ASSUME RpcInv, StreamsResponses, handler.running
  PROVE  /\ ResponderInv(server, handler) /\ server \in Server /\ handler \in Handler
         /\ "request" \notin server.ops /\ handler.emitted <= NumResponses[kind]
         /\ ~Dead /\ server.writing # 0 => "write" \in server.ops
<1>1. ServerWriterInv /\ ServerReaderInv /\ server \in Server /\ handler \in Handler
  BY DEF RpcInv, TypeOK
<1>2. /\ server.asked = handler.emitted + 1 - Slot(server.next)
      /\ server.next # 0 => server.next = handler.emitted
      /\ ~Dead /\ server.writing # 0 => "write" \in server.ops
      /\ server.finish => handler.end # "none"
      /\ handler.end = "error" => server.status = "error"
  BY <1>1 DEF ServerWriterInv
<1>3. kind = "bidi" /\ ~server.busy => "write" \notin server.ops /\ "finish" \notin server.ops
  BY <1>1 DEF ServerWriterInv
<1>4. ResponderInv(server, handler)
  BY <1>1, <1>2, <1>3 DEF ServerWriterInv, ResponderInv
<1> QED
  BY <1>1, <1>2, <1>4 DEF ServerWriterInv, ServerReaderInv

\* RunEnqueuedOperation keeps it.
LEMMA RunKeepsResponder ==
  ASSUME NEW s \in Server, NEW h \in Handler, ResponderInv(s, h), StreamsResponses,
         NEW t \in Server, RunsResponder(s, t)
  PROVE  ResponderInv(t, h)
<1>1. CASE t = s
  BY <1>1
<1>2. CASE SendsResponse(s, t)
  <2>1. t.asked = h.emitted + 1 - Slot(t.next)
    BY SMT, <1>2 DEF SendsResponse, ResponderInv, Slot, Server, Handler
  <2>2. t.next = 0 /\ t.finish = s.finish /\ t.status = s.status
    BY <1>2 DEF SendsResponse
  <2>3. kind = "server_streaming" =>
          t.state = "SENDING_RESPONSE" /\ "finish" \notin t.ops
    BY <1>2 DEF SendsResponse, ResponderInv
  <2>4. kind = "bidi" => t.busy /\ ~t.sentFinal /\ "finish" \notin t.ops
    BY <1>2 DEF SendsResponse, ResponderInv
  <2> QED
    BY <2>1, <2>2, <2>3, <2>4 DEF ResponderInv
<1>3. CASE SendsStatus(s, t)
  <2>1. t.asked = h.emitted + 1 - Slot(t.next)
    BY <1>3 DEF SendsStatus, ResponderInv
  <2>2. t.next = 0 /\ ~t.finish /\ t.status = s.status /\ h.end # "none"
    BY <1>3 DEF SendsStatus, ResponderInv
  <2>3. kind = "server_streaming" =>
          t.state = "SENT_FINAL_RESPONSE" /\ "write" \notin t.ops
    BY <1>3 DEF SendsStatus, ResponderInv
  <2>4. kind = "bidi" => t.busy /\ t.sentFinal /\ "write" \notin t.ops
    BY <1>3 DEF SendsStatus, ResponderInv
  <2> QED
    BY <2>1, <2>2, <2>3, <2>4 DEF ResponderInv
<1> QED
  BY <1>1, <1>2, <1>3 DEF RunsResponder

\* What a step of the server leaves alone.
LEMMA ServerKeepsRest ==
  ASSUME RpcInv, UNCHANGED <<kind, client, app, source>>, server' \in Server,
         handler' \in Handler, wire' \in Wire, wire'.closed = wire.closed,
         wire'.toClient = wire.toClient, wire'.status = wire.status,
         wire'.cancelled = wire.cancelled, wire'.stopped = wire.stopped,
         RequestsInv', ServerReaderInv', ServerWriterInv', ResponsesInv'
  PROVE  RpcInv'
<1>1. /\ SameCall(client, client') /\ SameReader(client, client')
      /\ SameWriter(client, client') /\ WriterOps' = WriterOps
  BY DEF SameCall, SameReader, SameWriter, WriterOps
<1>2. (Dead => Dead') /\ (NothingToRead => NothingToRead')
  BY DEF Dead, NothingToRead, Broken
<1>3. ClientWriterInv'
  BY <1>1, <1>2, ClientWriterFrame DEF RpcInv
<1>4. ClientReaderInv'
  BY ClientReaderFrame DEF RpcInv
<1>5. AppEndInv'
  BY <1>1, <1>2, AppEndFrame DEF RpcInv
<1> QED
  BY <1>3, <1>4, <1>5 DEF RpcInv, TypeOK

\* A step of the server of a stream of responses, from a call s with what is to
\* be sent to the call after RunEnqueuedOperation.
LEMMA RespondKeeps ==
  ASSUME RpcInv, StreamsResponses, UNCHANGED <<kind, client, app, source>>,
         wire' \in Wire, wire'.closed = wire.closed,
         wire'.toClient = wire.toClient, wire'.status = wire.status,
         wire'.cancelled = wire.cancelled, wire'.stopped = wire.stopped,
         RequestsInv', ServerReaderInv',
         handler' \in Handler, handler'.running,
         handler.emitted <= handler'.emitted, handler'.emitted <= NumResponses[kind],
         wire.status = "ok" => handler'.emitted = handler.emitted /\ handler'.end = handler.end,
         NEW s \in Server, ResponderInv(s, handler'),
         ~Dead /\ s.writing # 0 => "write" \in s.ops,
         NEW sent, sent = Len(app.got) + Len(wire.toClient),
         ~GivenUp /\ ~Dead =>
           /\ sent + Slot(s.writing) + Slot(s.next) = handler'.emitted
           /\ s.writing # 0 => s.writing = sent + 1,
         server' \in Server, RunsResponder(s, server')
  PROVE  RpcInv'
<1>1. /\ Dead' = Dead /\ GivenUp' = GivenUp /\ StreamsResponses' = StreamsResponses
  BY DEF Dead, GivenUp, StreamsResponses
<1>2. ResponderInv(server', handler')
  BY RunKeepsResponder
<1>3. SendsResponse(s, server') => Dead \/ s.writing = 0
  <2>1. SendsResponse(s, server') => "write" \notin s.ops
    BY DEF SendsResponse, ResponderInv, StreamsResponses
  <2> QED
    BY <2>1
<1>4. ~Dead /\ server'.writing # 0 => "write" \in server'.ops
  BY DEF RunsResponder, SendsResponse, SendsStatus
<1>5. ServerWriterInv'
  <2>1. kind' = "bidi" /\ ~server'.busy => server'.ops \cap {"write", "finish"} = {}
    BY <1>2 DEF ResponderInv
  <2> QED
    BY <1>1, <1>2, <1>4, <2>1 DEF ServerWriterInv, ResponderInv, StreamsResponses
<1>6. /\ app.got \in Seq(Nat) /\ wire.toClient \in Seq(Nat) /\ handler.emitted \in Nat
      /\ handler'.emitted \in Nat /\ s.next \in Nat /\ s.writing \in Nat
  BY DEF RpcInv, TypeOK, App, Wire, Handler, Server
<1>7. sent \in Nat /\ Len(app.got) \in Nat
  BY <1>6, LengthsFacts
<1>8. ~GivenUp /\ ~Dead =>
        /\ sent + Slot(server'.writing) + Slot(server'.next) = handler'.emitted
        /\ server'.writing # 0 => server'.writing = sent + 1
  <2>1. CASE server' = s
    BY <2>1
  <2>2. CASE SendsResponse(s, server')
    <3>1. ~Dead => s.writing = 0
      BY <1>3, <2>2
    <3>2. s.next # 0 /\ server'.writing = s.next /\ server'.next = 0 /\ s.next = handler'.emitted
      BY <2>2 DEF SendsResponse, ResponderInv
    <3>3. ~GivenUp /\ ~Dead => sent + Slot(s.writing) + Slot(s.next) = handler'.emitted
      OBVIOUS
    <3> QED
      BY ONLY SMT, <1>6, <1>7, <3>1, <3>2, <3>3 DEF Slot
  <2>3. CASE SendsStatus(s, server')
    BY <2>3 DEF SendsStatus
  <2> QED
    BY <2>1, <2>2, <2>3 DEF RunsResponder
<1>9. /\ Len(app.got) <= handler.emitted /\ \A i \in 1..Len(app.got) : app.got[i] = i
      /\ ~GivenUp => /\ Follows(wire.toClient, Len(app.got)) /\ sent <= handler.emitted
                     /\ wire.status = "ok" => sent = handler.emitted
      /\ wire.status = "ok" => handler.end = "complete"
  BY DEF RpcInv, ResponsesInv
<1>10. Len(app.got) <= handler'.emitted /\ (~GivenUp => sent <= handler'.emitted)
  <2> DEFINE g == Len(app.got)
  <2>1. g \in Nat /\ g <= handler.emitted /\ (~GivenUp => sent <= handler.emitted)
    BY <1>7, <1>9
  <2> HIDE DEF g
  <2>2. g <= handler'.emitted /\ (~GivenUp => sent <= handler'.emitted)
    BY ONLY SMT, <1>6, <1>7, <2>1, handler.emitted <= handler'.emitted
  <2> QED
    BY <2>2 DEF g
<1>11. ResponsesInv'
  BY <1>1, <1>8, <1>9, <1>10 DEF ResponsesInv, StreamsResponses
<1> QED
  BY <1>5, <1>11, ServerKeepsRest

\* Responses on their way, being written and queued make up what was emitted.
LEMMA SentFacts ==
  ASSUME RpcInv, StreamsResponses, ~GivenUp, ~Dead,
         NEW sent, sent = Len(app.got) + Len(wire.toClient)
  PROVE  /\ sent + Slot(server.writing) + Slot(server.next) = handler.emitted
         /\ server.writing # 0 => server.writing = sent + 1
BY DEF RpcInv, ResponsesInv

\* Numbers and their successors.
LEMMA LeastFacts ==
  ASSUME NEW k \in Nat
  PROVE  k <= k /\ k <= k + 1 /\ k + 1 \in Nat
BY SMT

\* What is sent to the client leaves the server's reads alone.
LEMMA RespondKeepsReader ==
  ASSUME RpcInv, StreamsResponses, kind' = kind, handler'.running,
         "request" \notin server.ops, NEW s \in Server, s.ops \subseteq server.ops,
         kind = "bidi" => s.state = server.state, RunsResponder(s, server')
  PROVE  ServerReaderInv'
<1>1. "read" \in server.ops => StreamsRequests /\ server.state = "REQUESTED_DATA"
  BY DEF RpcInv, ServerReaderInv
<1>2. \/ server'.ops = s.ops
      \/ server'.ops = s.ops \cup {"write"}
      \/ server'.ops = s.ops \cup {"finish"}
  BY DEF RunsResponder, SendsResponse, SendsStatus
<1>3. "request" \notin server'.ops /\ ("read" \in server'.ops => "read" \in server.ops)
  BY SMT, <1>2
<1>4. StreamsRequests => kind = "bidi"
  BY DEF StreamsRequests, StreamsResponses
<1>5. kind = "bidi" => server'.state = server.state
  BY DEF RunsResponder, SendsResponse, SendsStatus
<1> QED
  BY <1>1, <1>3, <1>4, <1>5 DEF ServerReaderInv, StreamsRequests

\* The handler's stream emits a response.
LEMMA StreamEmitsKeeps ==
  ASSUME RpcInv, HandlerEmits, StreamsResponses
  PROVE  RpcInv'
<1> DEFINE s == [server EXCEPT !.next = handler.emitted + 1]
           sent == Len(app.got) + Len(wire.toClient)
<1>1. /\ handler.running /\ handler.end = "none" /\ handler.emitted < NumResponses[kind]
      /\ handler.emitted < server.asked /\ UNCHANGED <<kind, client, wire, app, source>>
      /\ handler' = [handler EXCEPT !.emitted = @ + 1]
      /\ server' = ServerOnNext(server, handler.emitted + 1)
  BY DEF HandlerEmits, HandlerRuns
<1>2. /\ ResponderInv(server, handler) /\ server \in Server /\ handler \in Handler
      /\ "request" \notin server.ops
      /\ ~Dead /\ server.writing # 0 => "write" \in server.ops
  BY <1>1, ResponderFacts
<1>3. handler.emitted \in Nat /\ server.asked \in Nat /\ server.next \in Nat
      /\ NumResponses[kind] \in Nat
  BY <1>2, RpcAssumption DEF Handler, Server, RpcInv, TypeOK
<1>4. server.next = 0
  BY SMT, <1>1, <1>2, <1>3 DEF ResponderInv, Slot
<1>5. handler.emitted <= handler.emitted + 1 /\ handler.emitted + 1 \in Nat
      /\ handler.emitted + 1 # 0 /\ handler.emitted + 1 <= NumResponses[kind]
  BY SMT, <1>1, <1>3
<1>6. /\ handler' \in Handler /\ handler'.emitted = handler.emitted + 1 /\ handler'.running
      /\ handler'.end = "none" /\ handler'.received = handler.received
      /\ handler'.sawEnd = handler.sawEnd
  BY <1>1, <1>2, <1>5 DEF Handler
<1>7. server' = RunEnqueuedOperation(s)
  BY <1>1, <1>4 DEF ServerOnNext, StreamOnNext
<1>8. /\ s \in Server /\ s.next = handler.emitted + 1 /\ s.ops = server.ops
      /\ s.state = server.state /\ s.writing = server.writing /\ s.asked = server.asked
      /\ s.finish = server.finish /\ s.status = server.status /\ s.busy = server.busy
      /\ s.sentFinal = server.sentFinal
  BY <1>2, <1>5 DEF Server
<1> HIDE DEF s
<1>9. server' \in Server /\ RunsResponder(s, server')
  BY <1>7, <1>8, RespondFacts
<1>10. ResponderInv(s, handler')
  <2>1. s.asked = handler'.emitted + 1 - Slot(s.next)
    BY SMT, <1>2, <1>3, <1>4, <1>5, <1>6, <1>8 DEF ResponderInv, Slot
  <2>2. ~server.finish
    BY <1>1, <1>2 DEF ResponderInv
  <2>3. kind = "server_streaming" => server.state # "SENT_FINAL_RESPONSE"
    BY <1>1, <1>2 DEF ResponderInv
  <2>4. kind = "bidi" => ~server.sentFinal
    BY <1>1, <1>2 DEF ResponderInv
  <2> QED
    BY <1>2, <1>6, <1>8, <2>1, <2>2, <2>3, <2>4 DEF ResponderInv
<1>11. wire.status # "ok"
  BY <1>1 DEF RpcInv, ResponsesInv
<1>12. RequestsInv'
  <2>1. Dead => Dead'
    BY <1>1 DEF Dead
  <2> QED
    BY <1>1, <1>6, <2>1, RequestsFrame DEF RpcInv
<1>13. ServerReaderInv'
  BY <1>1, <1>2, <1>6, <1>8, <1>9, RespondKeepsReader
<1>14. ~GivenUp /\ ~Dead =>
         /\ sent + Slot(s.writing) + Slot(s.next) = handler'.emitted
         /\ s.writing # 0 => s.writing = sent + 1
  <2>1. app.got \in Seq(Nat) /\ wire.toClient \in Seq(Nat)
    BY DEF RpcInv, TypeOK, App, Wire
  <2>2. sent \in Nat
    BY <2>1, LengthsFacts
  <2>3. ~GivenUp /\ ~Dead =>
          /\ sent + Slot(server.writing) + Slot(server.next) = handler.emitted
          /\ server.writing # 0 => server.writing = sent + 1
    BY SentFacts
  <2> HIDE DEF sent
  <2>4. Slot(server.next) = 0 /\ Slot(s.next) = 1 /\ Slot(server.writing) \in Nat
        /\ Slot(s.writing) = Slot(server.writing)
    BY SMT, <1>4, <1>5, <1>8 DEF Slot
  <2>5. ~GivenUp /\ ~Dead => sent + Slot(s.writing) + Slot(s.next) = handler'.emitted
    BY ONLY SMT, <1>3, <1>6, <2>2, <2>3, <2>4
  <2> QED
    BY <1>8, <2>3, <2>5
<1> HIDE DEF sent
<1>15. /\ wire' \in Wire /\ wire'.closed = wire.closed /\ wire'.toClient = wire.toClient
       /\ wire'.status = wire.status /\ wire'.cancelled = wire.cancelled
       /\ wire'.stopped = wire.stopped
  BY <1>1 DEF RpcInv, TypeOK
<1> QED
  BY <1>1, <1>2, <1>5, <1>6, <1>8, <1>9, <1>10, <1>11, <1>12, <1>13, <1>14, <1>15,
     RespondKeeps
     DEF sent

\* The handler's stream ends, well or not: RunEnqueuedOperation sends the status
\* after what is queued.
LEMMA StreamEndsKeeps ==
  ASSUME RpcInv, NEW how \in {"complete", "error"}, HandlerEnds(how), StreamsResponses
  PROVE  RpcInv'
<1> DEFINE sent == Len(app.got) + Len(wire.toClient)
<1>1. /\ handler.running /\ handler.end = "none" /\ UNCHANGED <<kind, client, wire, app, source>>
      /\ handler' = [handler EXCEPT !.end = how]
      /\ server' = IF how = "error" THEN ServerOnError(server) ELSE ServerOnComplete(server)
  BY DEF HandlerEnds, HandlerRuns
<1>2. /\ ResponderInv(server, handler) /\ server \in Server /\ handler \in Handler
      /\ "request" \notin server.ops /\ handler.emitted <= NumResponses[kind]
      /\ ~Dead /\ server.writing # 0 => "write" \in server.ops
  BY <1>1, ResponderFacts
<1>3. /\ handler' \in Handler /\ handler'.emitted = handler.emitted /\ handler'.running
      /\ handler'.end = how /\ handler'.received = handler.received
      /\ handler'.sawEnd = handler.sawEnd
  BY <1>1, <1>2 DEF Handler, Endings
<1>4. PICK status \in {"ok", "error"} :
        /\ how = "error" => status = "error"
        /\ server' = RunEnqueuedOperation([server EXCEPT !.finish = TRUE, !.status = status])
  <2>1. CASE how = "error"
    <3>1. server' = StreamOnError(server)
      BY <1>1, <2>1 DEF ServerOnError, StreamsResponses
    <3>2. [server EXCEPT !.status = "error", !.finish = TRUE]
            = [server EXCEPT !.finish = TRUE, !.status = "error"]
      BY <1>2 DEF Server
    <3> QED
      BY <3>1, <3>2 DEF StreamOnError
  <2>2. CASE how = "complete"
    <3> DEFINE status == IF kind = "bidi" THEN server.status ELSE "ok"
    <3>1. server' = StreamOnComplete(server)
      BY <1>1, <2>2 DEF ServerOnComplete, StreamsResponses
    <3>2. status \in {"ok", "error"}
      BY <1>2 DEF Server
    <3>3. server' = RunEnqueuedOperation([server EXCEPT !.finish = TRUE, !.status = status])
      BY <3>1 DEF StreamOnComplete
    <3> QED
      BY <2>2, <3>2, <3>3
  <2> QED
    BY <2>1, <2>2
<1> DEFINE s == [server EXCEPT !.finish = TRUE, !.status = status]
<1>5. /\ s \in Server /\ s.next = server.next /\ s.ops = server.ops
      /\ s.state = server.state /\ s.writing = server.writing /\ s.asked = server.asked
      /\ s.finish /\ s.status = status /\ s.busy = server.busy /\ s.sentFinal = server.sentFinal
  BY <1>2 DEF Server
<1>6. server' = RunEnqueuedOperation(s)
  BY <1>4
<1> HIDE DEF s
<1>7. server' \in Server /\ RunsResponder(s, server')
  BY <1>5, <1>6, RespondFacts
<1>8. ResponderInv(s, handler')
  BY <1>1, <1>2, <1>3, <1>4, <1>5 DEF ResponderInv
<1>9. wire.status # "ok"
  BY <1>1 DEF RpcInv, ResponsesInv
<1>10. RequestsInv'
  <2>1. Dead => Dead'
    BY <1>1 DEF Dead
  <2> QED
    BY <1>1, <1>3, <2>1, RequestsFrame DEF RpcInv
<1>11. ServerReaderInv'
  BY <1>1, <1>2, <1>3, <1>5, <1>7, RespondKeepsReader
<1>12. ~GivenUp /\ ~Dead =>
         /\ sent + Slot(s.writing) + Slot(s.next) = handler'.emitted
         /\ s.writing # 0 => s.writing = sent + 1
  BY <1>3, <1>5, SentFacts
<1>13. handler.emitted <= handler'.emitted
  BY <1>2, <1>3, LeastFacts DEF Handler
<1> HIDE DEF sent
<1>14. /\ wire' \in Wire /\ wire'.closed = wire.closed /\ wire'.toClient = wire.toClient
       /\ wire'.status = wire.status /\ wire'.cancelled = wire.cancelled
       /\ wire'.stopped = wire.stopped
  BY <1>1 DEF RpcInv, TypeOK
<1> QED
  BY <1>1, <1>2, <1>3, <1>5, <1>7, <1>8, <1>9, <1>10, <1>11, <1>12, <1>13, <1>14,
     RespondKeeps
     DEF sent

\* What a completed operation leaves of a stream of responses.
LEMMA StreamCompletesKeeps ==
  ASSUME RpcInv, StreamsResponses, handler.running,
         UNCHANGED <<kind, client, wire, app, source, handler>>,
         NEW s \in Server, s.next = server.next, s.writing = server.writing,
         s.ops \subseteq server.ops, ~Dead => s.writing = 0,
         kind = "bidi" => s.state = server.state, ResponderInv(s, handler),
         server' \in Server, RunsResponder(s, server')
  PROVE  RpcInv'
<1> DEFINE sent == Len(app.got) + Len(wire.toClient)
<1>1. /\ handler \in Handler /\ "request" \notin server.ops
      /\ handler.emitted <= NumResponses[kind]
  BY ResponderFacts
<1>2. RequestsInv'
  <2>1. Dead => Dead'
    BY DEF Dead
  <2> QED
    BY <2>1, RequestsFrame DEF RpcInv
<1>3. ServerReaderInv'
  BY <1>1, RespondKeepsReader
<1>4. ~GivenUp /\ ~Dead =>
         /\ sent + Slot(s.writing) + Slot(s.next) = handler'.emitted
         /\ s.writing # 0 => s.writing = sent + 1
  BY SentFacts
<1>5. handler.emitted <= handler'.emitted
  BY <1>1, LeastFacts DEF Handler
<1> HIDE DEF sent
<1>6. /\ wire' \in Wire /\ wire'.closed = wire.closed /\ wire'.toClient = wire.toClient
      /\ wire'.status = wire.status /\ wire'.cancelled = wire.cancelled
      /\ wire'.stopped = wire.stopped
  BY DEF RpcInv, TypeOK
<1> QED
  BY <1>1, <1>2, <1>3, <1>4, <1>5, <1>6, RespondKeeps DEF sent

\* The call is over, and the server lets go of it.
LEMMA LetsGoKeeps ==
  ASSUME RpcInv, StreamsResponses, handler.running, Dead,
         UNCHANGED <<kind, client, wire, app, source, handler>>,
         NEW op \in {"write", "finish"}, NEW b, b = ReleaseTag(server, op),
         server' = [b EXCEPT !.retained = FALSE]
  PROVE  RpcInv'
<1>1. ResponderInv(server, handler) /\ server \in Server
  BY ResponderFacts
<1>2. b \in Server /\ ServerReleased(server, b, op)
  BY <1>1, ServerReleaseFacts DEF ServerOps
<1>3. /\ server' \in Server /\ server'.next = b.next /\ server'.ops = b.ops
      /\ server'.state = b.state /\ server'.writing = b.writing /\ server'.asked = b.asked
      /\ server'.finish = b.finish /\ server'.status = b.status /\ server'.busy = b.busy
      /\ server'.sentFinal = b.sentFinal
  BY <1>2 DEF Server
<1>4. /\ server'.next = server.next /\ server'.writing = server.writing
      /\ server'.state = server.state /\ server'.asked = server.asked
      /\ server'.finish = server.finish /\ server'.status = server.status
      /\ server'.busy = server.busy /\ server'.sentFinal = server.sentFinal
      /\ server'.ops \subseteq server.ops
  BY <1>2, <1>3 DEF ServerReleased
<1>5. ResponderInv(server', handler)
  BY <1>1, <1>4 DEF ResponderInv
<1> QED
  BY <1>3, <1>4, <1>5, StreamCompletesKeeps DEF RunsResponder

\* A write of the server completes.
LEMMA WriteCompletesKeeps ==
  ASSUME RpcInv, NEW success \in BOOLEAN, ServerWriteCompletes(success)
  PROVE  RpcInv'
<1> DEFINE b == ReleaseTag(server, "write")
<1>1. /\ "write" \in server.ops /\ server' = ServerSendDone(b, success)
      /\ success \in SendResults(server.writing)
      /\ UNCHANGED <<kind, client, wire, app, source, handler>>
  BY DEF ServerWriteCompletes
<1>2. (success => server.writing = 0) /\ (~success => Dead)
  BY <1>1 DEF SendResults
<1>3. StreamsResponses
  BY <1>1 DEF RpcInv, ServerWriterInv
<1>4. handler.running
  BY <1>1, IdleFacts
<1>5. ResponderInv(server, handler) /\ server \in Server
  BY <1>3, <1>4, ResponderFacts
<1>6. b \in Server /\ ServerReleased(server, b, "write")
  BY <1>5, ServerReleaseFacts DEF ServerOps
<1>7. CASE ~success
  <2>1. server' = [b EXCEPT !.retained = FALSE]
    BY <1>1, <1>3, <1>7 DEF ServerSendDone, StreamSendDone, WriterSendDone, StreamsResponses
  <2> QED
    BY <1>1, <1>2, <1>3, <1>4, <1>7, <2>1, LetsGoKeeps
<1>8. CASE success /\ kind = "server_streaming"
  <2> DEFINE s == [b EXCEPT !.state = "AWAITING_RESPONSE"]
  <2>1. server.state = "SENDING_RESPONSE" /\ "finish" \notin server.ops
    BY <1>1, <1>5, <1>8 DEF ResponderInv
  <2>2. b.state # "SENT_FINAL_RESPONSE"
    BY <1>6, <2>1 DEF ServerReleased
  <2>3. server' = RunEnqueuedOperation(s)
    <3>1. server' = StreamSendDone(b, success)
      BY <1>1, <1>8 DEF ServerSendDone, StreamsResponses
    <3> QED
      BY <1>8, <2>2, <3>1 DEF StreamSendDone
  <2> HIDE DEF b
  <2>4. /\ s \in Server /\ s.next = b.next /\ s.ops = b.ops /\ s.state = "AWAITING_RESPONSE"
        /\ s.writing = b.writing /\ s.asked = b.asked /\ s.finish = b.finish
        /\ s.status = b.status
    BY <1>6 DEF Server
  <2> HIDE DEF s
  <2>5. /\ s.next = server.next /\ s.writing = server.writing /\ s.asked = server.asked
        /\ s.finish = server.finish /\ s.status = server.status /\ s.ops \subseteq server.ops
        /\ "write" \notin s.ops /\ "finish" \notin s.ops
    BY <1>6, <2>1, <2>4 DEF ServerReleased
  <2>6. ResponderInv(s, handler)
    BY <1>5, <1>8, <2>4, <2>5 DEF ResponderInv
  <2>7. server' \in Server /\ RunsResponder(s, server')
    BY <1>3, <2>3, <2>4, RespondFacts
  <2> QED
    BY <1>1, <1>2, <1>3, <1>4, <1>8, <2>4, <2>5, <2>6, <2>7, StreamCompletesKeeps
<1>9. CASE success /\ kind = "bidi"
  <2> DEFINE s == [b EXCEPT !.busy = FALSE]
  <2>1. ~server.sentFinal /\ "finish" \notin server.ops
    BY <1>1, <1>5, <1>9 DEF ResponderInv
  <2>2. ~b.sentFinal
    BY <1>6, <2>1 DEF ServerReleased
  <2>3. server' = RunEnqueuedOperation(s)
    <3>1. server' = WriterSendDone(b, success)
      BY <1>1, <1>9 DEF ServerSendDone, StreamsResponses
    <3> QED
      BY <1>9, <2>2, <3>1 DEF WriterSendDone
  <2> HIDE DEF b
  <2>4. /\ s \in Server /\ s.next = b.next /\ s.ops = b.ops /\ s.state = b.state
        /\ s.writing = b.writing /\ s.asked = b.asked /\ s.finish = b.finish
        /\ s.status = b.status /\ ~s.sentFinal
    BY <1>6, <2>2 DEF Server
  <2> HIDE DEF s
  <2>5. /\ s.next = server.next /\ s.writing = server.writing /\ s.asked = server.asked
        /\ s.finish = server.finish /\ s.status = server.status /\ s.ops \subseteq server.ops
        /\ "write" \notin s.ops /\ "finish" \notin s.ops /\ s.state = server.state
    BY <1>6, <2>1, <2>4 DEF ServerReleased
  <2>6. ResponderInv(s, handler)
    BY <1>5, <1>9, <2>4, <2>5 DEF ResponderInv
  <2>7. server' \in Server /\ RunsResponder(s, server')
    BY <1>3, <2>3, <2>4, RespondFacts
  <2> QED
    BY <1>1, <1>2, <1>3, <1>4, <2>4, <2>5, <2>6, <2>7, StreamCompletesKeeps
<1> QED
  BY <1>3, <1>7, <1>8, <1>9 DEF StreamsResponses

-----------------------------------------------------------------------------
(* The server's call with one response.                                    *)

\* The invariant of a call s whose handler's stream h is to emit one response.
SingleInv(s, h) ==
  /\ s.responses = h.emitted /\ s.writing = 0 /\ s.next = 0 /\ "write" \notin s.ops
  /\ "finish" \in s.ops =>
       /\ h.end # "none"
       /\ s.status = "ok" => h.end = "complete" /\ s.responses = 1
  /\ kind = "client_streaming" =>
       (s.finished => h.end # "none") /\ (h.end = "error" => s.error)

\* It holds of the server's call.
LEMMA SingleFacts ==
  ASSUME RpcInv, ~StreamsResponses
  PROVE  /\ SingleInv(server, handler) /\ server \in Server /\ handler \in Handler
         /\ handler.emitted <= NumResponses[kind]
         /\ handler.end # "complete" => wire.status # "ok" /\ app.got = <<>>
<1>1. SingleInv(server, handler) /\ handler.emitted <= NumResponses[kind]
  BY DEF RpcInv, ServerWriterInv, SingleInv
<1>2. handler.end # "complete" => wire.status # "ok" /\ app.got = <<>>
  BY DEF RpcInv, ResponsesInv
<1> QED
  BY <1>1, <1>2 DEF RpcInv, TypeOK

\* A step of the server of such a call.  The stream goes on only before its end.
LEMMA SingleKeeps ==
  ASSUME RpcInv, ~StreamsResponses, UNCHANGED <<kind, client, app, source>>,
         wire' \in Wire, wire'.closed = wire.closed,
         wire'.toClient = wire.toClient, wire'.status = wire.status,
         wire'.cancelled = wire.cancelled, wire'.stopped = wire.stopped,
         RequestsInv', ServerReaderInv', server' \in Server, handler' \in Handler,
         handler'.emitted <= NumResponses[kind], SingleInv(server', handler'),
         handler.end # "none" => handler'.emitted = handler.emitted /\ handler'.end = handler.end
  PROVE  RpcInv'
<1>1. StreamsResponses' = StreamsResponses
  BY DEF StreamsResponses
<1>2. ServerWriterInv'
  BY <1>1 DEF ServerWriterInv, SingleInv, StreamsResponses
<1>3. ResponsesInv'
  <2>1. wire.toClient = <<>>
    BY DEF RpcInv, ResponsesInv
  <2>2. CASE handler.end # "none"
    BY <1>1, <2>2 DEF RpcInv, ResponsesInv
  <2>3. CASE handler.end = "none"
    <3>1. wire.status # "ok" /\ app.got = <<>>
      BY <2>3, SingleFacts
    <3>2. handler'.emitted \in Nat
      BY DEF Handler
    <3>3. Len(app.got) <= handler'.emitted /\ \A i \in 1..Len(app.got) : app.got[i] = i
      BY SMT, <3>1, <3>2
    <3> QED
      BY <1>1, <2>1, <3>1, <3>3 DEF ResponsesInv
  <2> QED
    BY <2>2, <2>3
<1> QED
  BY <1>2, <1>3, ServerKeepsRest

\* The server's Finish completes.
LEMMA FinishCompletesKeeps ==
  ASSUME RpcInv, NEW success \in BOOLEAN, ServerFinishCompletes(success)
  PROVE  RpcInv'
<1> DEFINE b == ReleaseTag(server, "finish")
<1>1. /\ "finish" \in server.ops /\ server' = ServerSendDone(b, success) /\ Dead
      /\ UNCHANGED <<kind, client, wire, app, source, handler>>
  BY DEF ServerFinishCompletes
<1>2. handler.running
  BY <1>1, IdleFacts
<1>3. server \in Server
  BY DEF RpcInv, TypeOK
<1>4. b \in Server /\ ServerReleased(server, b, "finish")
  BY <1>3, ServerReleaseFacts DEF ServerOps
<1>5. CASE StreamsResponses
  <2>1. ResponderInv(server, handler)
    BY <1>2, <1>5, ResponderFacts
  <2>2. kind = "server_streaming" => b.state = "SENT_FINAL_RESPONSE"
    BY <1>1, <1>4, <2>1 DEF ResponderInv, ServerReleased
  <2>3. kind = "bidi" => b.sentFinal
    BY <1>1, <1>4, <2>1 DEF ResponderInv, ServerReleased
  <2>4. server' = [b EXCEPT !.retained = FALSE]
    <3>1. CASE kind = "server_streaming"
      BY <1>1, <2>2, <3>1 DEF ServerSendDone, StreamSendDone, StreamsResponses
    <3>2. CASE kind = "bidi"
      BY <1>1, <2>3, <3>2 DEF ServerSendDone, WriterSendDone, StreamsResponses
    <3> QED
      BY <1>5, <3>1, <3>2 DEF StreamsResponses
  <2> QED
    BY <1>1, <1>2, <1>5, <2>4, LetsGoKeeps
<1>6. CASE ~StreamsResponses
  <2>1. server' = b
    BY <1>1, <1>6 DEF ServerSendDone, StreamsResponses
  <2> HIDE DEF b
  <2>2. /\ SingleInv(server, handler) /\ handler \in Handler
        /\ handler.emitted <= NumResponses[kind]
    BY <1>6, SingleFacts
  <2>3. SingleInv(server', handler')
    BY <1>1, <1>4, <2>1, <2>2 DEF SingleInv, ServerReleased
  <2>4. RequestsInv'
    <3>1. Dead => Dead'
      BY <1>1 DEF Dead
    <3> QED
      BY <1>1, <3>1, RequestsFrame DEF RpcInv
  <2>5. ServerReaderInv'
    BY <1>1, <1>2, <1>4, <2>1 DEF RpcInv, ServerReaderInv, ServerReleased, StreamsRequests
  <2>6. /\ wire' \in Wire /\ wire'.closed = wire.closed /\ wire'.toClient = wire.toClient
        /\ wire'.status = wire.status /\ wire'.cancelled = wire.cancelled
        /\ wire'.stopped = wire.stopped
    BY <1>1 DEF RpcInv, TypeOK
  <2> QED
    BY <1>1, <1>4, <1>6, <2>1, <2>2, <2>3, <2>4, <2>5, <2>6, SingleKeeps
<1> QED
  BY <1>5, <1>6

\* TrySendResponse sends the status once the requests and the handler's stream
\* have ended.
Finishes(s, t) ==
  /\ t.requested = s.requested /\ t.asked = s.asked
  /\ \/ t.ops = s.ops /\ t.state = s.state
     \/ s.state = "STREAM_ENDED" /\ t.ops = s.ops \cup {"finish"} /\ t.state = "SENT_RESPONSE"

\* A status that is good is sent with exactly one response.
LEMMA TrySendResponseFacts ==
  ASSUME NEW s \in Server, NEW h \in Handler, SingleInv(s, h), kind = "client_streaming",
         NEW t, t = TrySendResponse(s)
  PROVE  t \in Server /\ SingleInv(t, h) /\ Finishes(s, t)
<1>1. CASE ~(s.finished /\ s.state = "STREAM_ENDED")
  BY <1>1 DEF TrySendResponse, Finishes
<1>2. CASE s.finished /\ s.state = "STREAM_ENDED"
  <2> DEFINE status == IF s.error THEN "error" ELSE SingleResponseStatus(s)
             u == [[s EXCEPT !.state = "SENT_RESPONSE"] EXCEPT !.status = status]
  <2>1. t = Starts(u, "finish")
    BY <1>2 DEF TrySendResponse, FinishesWith
  <2>2. status \in {"ok", "error"} /\ (status = "ok" => ~s.error /\ s.responses = 1)
    BY DEF SingleResponseStatus
  <2> HIDE DEF status
  <2>3. u \in Server
    BY <2>2 DEF Server
  <2>4. t \in Server
    BY <2>1, <2>3, ServerStartsType DEF ServerOps
  <2>5. /\ t.ops = s.ops \cup {"finish"} /\ t.state = "SENT_RESPONSE" /\ t.status = status
        /\ t.requested = s.requested /\ t.asked = s.asked /\ t.responses = s.responses
        /\ t.writing = s.writing /\ t.next = s.next /\ t.finished = s.finished
        /\ t.error = s.error
    BY <2>1 DEF Starts, Server
  <2>6. h.end # "none" /\ (~s.error => h.end = "complete")
    <3>1. h.end \in {"none", "complete", "error"}
      BY DEF Handler, Endings
    <3> QED
      BY <1>2, <3>1 DEF SingleInv
  <2>7. SingleInv(t, h)
    BY <2>2, <2>5, <2>6 DEF SingleInv
  <2> QED
    BY <1>2, <2>4, <2>5, <2>7 DEF Finishes
<1> QED
  BY <1>1, <1>2

\* The end of the handler's stream, in a call with one response.
LEMMA SingleEndsFacts ==
  ASSUME NEW s \in Server, NEW h \in Handler, SingleInv(s, h), ~StreamsResponses,
         kind \in KindSet, h.end = "none", NEW how \in {"complete", "error"},
         NEW g, g = [h EXCEPT !.end = how], NEW t,
         t = IF how = "error" THEN ServerOnError(s) ELSE ServerOnComplete(s)
  PROVE  /\ t \in Server /\ SingleInv(t, g)
         /\ kind = "unary" => t.ops = s.ops \cup {"finish"}
         /\ kind = "client_streaming" => Finishes(s, t)
<1>1. g \in Handler /\ g.emitted = h.emitted /\ g.end = how
  BY DEF Handler, Endings
<1>2. CASE kind = "unary"
  <2> DEFINE status == IF how = "error" THEN "error" ELSE SingleResponseStatus(s)
             u == [s EXCEPT !.status = status]
  <2>1. t = Starts(u, "finish")
    BY <1>2 DEF ServerOnError, ServerOnComplete, UnaryOnError, UnaryOnComplete, FinishesWith
  <2>2. status \in {"ok", "error"} /\ (status = "ok" => how = "complete" /\ s.responses = 1)
    BY DEF SingleResponseStatus
  <2> HIDE DEF status
  <2>3. u \in Server
    BY <2>2 DEF Server
  <2>4. t \in Server
    BY <2>1, <2>3, ServerStartsType DEF ServerOps
  <2>5. /\ t.ops = s.ops \cup {"finish"} /\ t.status = status /\ t.responses = s.responses
        /\ t.writing = s.writing /\ t.next = s.next
    BY <2>1 DEF Starts, Server
  <2>6. SingleInv(t, g)
    BY <1>1, <1>2, <2>2, <2>5 DEF SingleInv
  <2> QED
    BY <1>2, <2>4, <2>5, <2>6
<1>3. CASE kind = "client_streaming"
  <2> DEFINE u == IF how = "error" THEN [s EXCEPT !.error = TRUE, !.finished = TRUE]
                  ELSE [s EXCEPT !.finished = TRUE]
  <2>1. t = TrySendResponse(u)
    BY <1>3
    DEF ServerOnError, ServerOnComplete, ClientStreamingOnError, ClientStreamingOnComplete
  <2>2. /\ u \in Server /\ u.ops = s.ops /\ u.state = s.state /\ u.requested = s.requested
        /\ u.asked = s.asked /\ u.responses = s.responses /\ u.writing = s.writing
        /\ u.next = s.next /\ u.status = s.status /\ (how = "error" => u.error)
    BY DEF Server
  <2> HIDE DEF u
  <2>3. SingleInv(u, g)
    BY <1>1, <2>2 DEF SingleInv
  <2>4. t \in Server /\ SingleInv(t, g) /\ Finishes(u, t)
    BY <1>1, <1>3, <2>1, <2>2, <2>3, TrySendResponseFacts
  <2> QED
    BY <1>3, <2>2, <2>4 DEF Finishes
<1> QED
  BY <1>2, <1>3 DEF KindSet, StreamsResponses

\* The handler emits the response, or one too many.
LEMMA SingleEmitsKeeps ==
  ASSUME RpcInv, HandlerEmits, ~StreamsResponses
  PROVE  RpcInv'
<1>1. /\ handler.running /\ handler.end = "none" /\ handler.emitted < NumResponses[kind]
      /\ UNCHANGED <<kind, client, wire, app, source>>
      /\ handler' = [handler EXCEPT !.emitted = @ + 1]
      /\ server' = [server EXCEPT !.responses = @ + 1]
  BY DEF HandlerEmits, HandlerRuns, ServerOnNext
<1>2. SingleInv(server, handler) /\ server \in Server /\ handler \in Handler
  BY SingleFacts
<1>3. handler.emitted \in Nat /\ NumResponses[kind] \in Nat /\ server.responses \in Nat
  BY <1>2, RpcAssumption DEF Handler, Server, RpcInv, TypeOK
<1>4. handler.emitted + 1 \in Nat /\ handler.emitted + 1 <= NumResponses[kind]
      /\ server.responses + 1 \in Nat
  BY SMT, <1>1, <1>3
<1>5. /\ handler' \in Handler /\ handler'.emitted = handler.emitted + 1 /\ handler'.running
      /\ handler'.end = "none" /\ handler'.received = handler.received
      /\ handler'.sawEnd = handler.sawEnd
  BY <1>1, <1>2, <1>4 DEF Handler
<1>6. /\ server' \in Server /\ server'.responses = server.responses + 1
      /\ server'.ops = server.ops /\ server'.state = server.state
      /\ server'.writing = server.writing /\ server'.next = server.next
      /\ server'.finished = server.finished /\ server'.error = server.error
  BY <1>1, <1>2, <1>4 DEF Server
<1>7. SingleInv(server', handler')
  BY <1>1, <1>2, <1>5, <1>6 DEF SingleInv
<1>8. RequestsInv'
  <2>1. Dead => Dead'
    BY <1>1 DEF Dead
  <2> QED
    BY <1>1, <1>5, <2>1, RequestsFrame DEF RpcInv
<1>9. ServerReaderInv'
  BY <1>1, <1>5, <1>6 DEF RpcInv, ServerReaderInv, StreamsRequests
<1>10. /\ wire' \in Wire /\ wire'.closed = wire.closed /\ wire'.toClient = wire.toClient
       /\ wire'.status = wire.status /\ wire'.cancelled = wire.cancelled
       /\ wire'.stopped = wire.stopped
  BY <1>1 DEF RpcInv, TypeOK
<1> QED
  BY <1>1, <1>4, <1>5, <1>6, <1>7, <1>8, <1>9, <1>10, SingleKeeps

\* The handler's stream emits.
LEMMA HandlerEmitsKeeps ==
  ASSUME RpcInv, HandlerEmits
  PROVE  RpcInv'
BY StreamEmitsKeeps, SingleEmitsKeeps

\* A call whose status is being sent reads no more.
LEMMA FinishesKeepsReader ==
  ASSUME RpcInv, kind' = kind, handler.running, handler'.running,
         \/ server'.ops = server.ops \cup {"finish"} /\ kind = "unary"
         \/ Finishes(server, server')
  PROVE  ServerReaderInv'
<1>1. /\ "request" \notin server.ops
      /\ "read" \in server.ops => StreamsRequests /\ server.state = "REQUESTED_DATA"
  BY DEF RpcInv, ServerReaderInv
<1>2. server'.ops = server.ops \/ server'.ops = server.ops \cup {"finish"}
  BY DEF Finishes
<1>3. "request" \notin server'.ops /\ ("read" \in server'.ops => "read" \in server.ops)
  BY SMT, <1>1, <1>2
<1>4. "read" \in server.ops => server'.state = server.state
  BY <1>1 DEF Finishes, StreamsRequests
<1> QED
  BY <1>1, <1>3, <1>4 DEF ServerReaderInv, StreamsRequests

\* The handler's stream ends, in a call with one response.
LEMMA SingleEndsKeeps ==
  ASSUME RpcInv, NEW how \in {"complete", "error"}, HandlerEnds(how), ~StreamsResponses
  PROVE  RpcInv'
<1>1. /\ handler.running /\ handler.end = "none"
      /\ UNCHANGED <<kind, client, wire, app, source>>
      /\ handler' = [handler EXCEPT !.end = how]
      /\ server' = IF how = "error" THEN ServerOnError(server) ELSE ServerOnComplete(server)
  BY DEF HandlerEnds, HandlerRuns
<1>2. /\ SingleInv(server, handler) /\ server \in Server /\ handler \in Handler
      /\ handler.emitted <= NumResponses[kind]
  BY SingleFacts
<1>3. kind \in KindSet
  BY RpcAssumption DEF RpcInv, TypeOK
<1>4. /\ handler' \in Handler /\ handler'.emitted = handler.emitted /\ handler'.running
      /\ handler'.received = handler.received /\ handler'.sawEnd = handler.sawEnd
  BY <1>1, <1>2 DEF Handler, Endings
<1>5. /\ server' \in Server /\ SingleInv(server', handler')
      /\ kind = "unary" => server'.ops = server.ops \cup {"finish"}
      /\ kind = "client_streaming" => Finishes(server, server')
  BY <1>1, <1>2, <1>3, SingleEndsFacts
<1>6. RequestsInv'
  <2>1. Dead => Dead'
    BY <1>1 DEF Dead
  <2> QED
    BY <1>1, <1>4, <2>1, RequestsFrame DEF RpcInv
<1>7. kind = "unary" \/ kind = "client_streaming"
  BY <1>3 DEF KindSet, StreamsResponses
<1>8. ServerReaderInv'
  BY <1>1, <1>4, <1>5, <1>7, FinishesKeepsReader
<1>9. /\ wire' \in Wire /\ wire'.closed = wire.closed /\ wire'.toClient = wire.toClient
      /\ wire'.status = wire.status /\ wire'.cancelled = wire.cancelled
      /\ wire'.stopped = wire.stopped
  BY <1>1 DEF RpcInv, TypeOK
<1> QED
  BY <1>1, <1>2, <1>4, <1>5, <1>6, <1>8, <1>9, SingleKeeps

\* The handler's stream ends.
LEMMA HandlerEndsKeeps ==
  ASSUME RpcInv, NEW how \in {"complete", "error"}, HandlerEnds(how)
  PROVE  RpcInv'
BY StreamEndsKeeps, SingleEndsKeeps

-----------------------------------------------------------------------------
(* The server's stream of requests.                                        *)

\* MaybeReadNext starts a read, or leaves the call as it is.
MayRead(s, t) ==
  /\ t.next = s.next /\ t.finish = s.finish /\ t.status = s.status /\ t.busy = s.busy
  /\ t.sentFinal = s.sentFinal /\ t.responses = s.responses /\ t.error = s.error
  /\ t.finished = s.finished /\ t.asked = s.asked /\ t.writing = s.writing
  /\ \/ t.ops = s.ops /\ t.state = s.state
     \/ t.ops = s.ops \cup {"read"} /\ t.state = "REQUESTED_DATA"

\* There is one read at a time.
LEMMA ServerMaybeReadNextFacts ==
  ASSUME NEW s \in Server, NEW t, t = ServerMaybeReadNext(s)
  PROVE  t \in Server /\ MayRead(s, t)
<1>1. CASE t = s
  BY <1>1 DEF MayRead
<1>2. CASE /\ s.requested > 0
           /\ t = Starts([s EXCEPT !.requested = Decrement(@), !.state = "REQUESTED_DATA"], "read")
  <2> DEFINE u == [s EXCEPT !.requested = Decrement(@), !.state = "REQUESTED_DATA"]
  <2>1. s.requested \in 0..MaxValue
    BY DEF Server
  <2>2. s.requested # 0
    BY SMT, <1>2
  <2>3. Decrement(s.requested) \in 0..MaxValue
    BY <2>1, <2>2, DecrementFacts
  <2>4. u \in Server
    BY <2>3 DEF Server
  <2>5. t \in Server
    BY <1>2, <2>4, ServerStartsType DEF ServerOps
  <2>6. MayRead(s, t)
    BY <1>2 DEF MayRead, Starts, Server
  <2> QED
    BY <2>5, <2>6
<1> QED
  BY <1>1, <1>2 DEF ServerMaybeReadNext

\* A read of a bidi call has nothing to do with its responses.
LEMMA BidiKeeps ==
  ASSUME RpcInv, kind = "bidi", handler.running, UNCHANGED <<kind, client, app, source>>,
         wire' \in Wire, wire'.closed = wire.closed,
         wire'.toClient = wire.toClient, wire'.status = wire.status,
         wire'.cancelled = wire.cancelled, wire'.stopped = wire.stopped,
         RequestsInv', ServerReaderInv', server' \in Server, handler' \in Handler,
         handler'.running, handler'.emitted = handler.emitted, handler'.end = handler.end,
         NEW s \in Server, MayRead(s, server'), s.next = server.next, s.finish = server.finish,
         s.status = server.status, s.busy = server.busy, s.sentFinal = server.sentFinal,
         s.asked = server.asked, s.writing = server.writing, s.ops \subseteq server.ops,
         server.ops \ {"read"} \subseteq s.ops
  PROVE  RpcInv'
<1> DEFINE sent == Len(app.got) + Len(wire.toClient)
<1>1. StreamsResponses
  BY DEF StreamsResponses
<1>2. /\ ResponderInv(server, handler) /\ handler \in Handler
      /\ handler.emitted <= NumResponses[kind]
      /\ ~Dead /\ server.writing # 0 => "write" \in server.ops
  BY <1>1, ResponderFacts
<1>3. \A op \in {"write", "finish"} : op \in server'.ops <=> op \in server.ops
  <2>1. server'.ops = s.ops \/ server'.ops = s.ops \cup {"read"}
    BY DEF MayRead
  <2> QED
    BY SMT, <2>1
<1>4. ResponderInv(server', handler')
  BY <1>2, <1>3 DEF ResponderInv, MayRead
<1>5. handler.emitted <= handler'.emitted
  BY <1>2, LeastFacts DEF Handler
<1>6. ~GivenUp /\ ~Dead =>
         /\ sent + Slot(server'.writing) + Slot(server'.next) = handler'.emitted
         /\ server'.writing # 0 => server'.writing = sent + 1
  BY <1>1, SentFacts DEF MayRead
<1>7. ~Dead /\ server'.writing # 0 => "write" \in server'.ops
  BY <1>2, <1>3 DEF MayRead
<1> HIDE DEF sent
<1> QED
  BY <1>1, <1>2, <1>4, <1>5, <1>6, <1>7, RespondKeeps DEF sent, RunsResponder

\* A bidi handler asks for more requests.
LEMMA HandlerRequestsKeeps ==
  ASSUME RpcInv, NEW n \in Demands[kind], HandlerRequests(n)
  PROVE  RpcInv'
<1> DEFINE s == [server EXCEPT !.requested = ElementCountAdd(@, n)]
<1>1. /\ kind = "bidi" /\ handler.running /\ server' = ServerMaybeReadNext(s)
      /\ UNCHANGED <<kind, client, wire, app, source, handler>>
  BY DEF HandlerRequests
<1>2. server \in Server /\ handler \in Handler /\ n \in 0..MaxValue
  BY DemandFacts DEF RpcInv, TypeOK
<1>3. ElementCountAdd(server.requested, n) \in 0..MaxValue
  BY <1>2, AddFacts DEF Server
<1>4. /\ s \in Server /\ s.next = server.next /\ s.finish = server.finish
      /\ s.status = server.status /\ s.busy = server.busy /\ s.sentFinal = server.sentFinal
      /\ s.asked = server.asked /\ s.writing = server.writing /\ s.ops = server.ops
      /\ s.state = server.state
  BY <1>2, <1>3 DEF Server
<1> HIDE DEF s
<1>5. server' \in Server /\ MayRead(s, server')
  BY <1>1, <1>4, ServerMaybeReadNextFacts
<1>6. RequestsInv'
  <2>1. Dead => Dead'
    BY <1>1 DEF Dead
  <2> QED
    BY <1>1, <2>1, RequestsFrame DEF RpcInv
<1>7. ServerReaderInv'
  <2>1. /\ "request" \notin server.ops
        /\ "read" \in server.ops => StreamsRequests /\ server.state = "REQUESTED_DATA"
    BY <1>1 DEF RpcInv, ServerReaderInv
  <2>2. "request" \notin server'.ops
    <3>1. server'.ops = server.ops \/ server'.ops = server.ops \cup {"read"}
      BY <1>4, <1>5 DEF MayRead
    <3> QED
      BY SMT, <2>1, <3>1
  <2>3. "read" \in server'.ops => server'.state = "REQUESTED_DATA"
    BY <1>4, <1>5, <2>1 DEF MayRead
  <2> QED
    BY <1>1, <2>2, <2>3 DEF ServerReaderInv, StreamsRequests
<1>8. /\ wire' \in Wire /\ wire'.closed = wire.closed /\ wire'.toClient = wire.toClient
      /\ wire'.status = wire.status /\ wire'.cancelled = wire.cancelled
      /\ wire'.stopped = wire.stopped
  BY <1>1 DEF RpcInv, TypeOK
<1> QED
  BY <1>1, <1>2, <1>4, <1>5, <1>6, <1>7, <1>8, BidiKeeps

\* What the handler of a client stream does while it is called.
Reacts(s, h, t, g) ==
  /\ t \in Server /\ g \in Handler /\ SingleInv(t, g) /\ g.emitted <= NumResponses[kind]
  /\ g.running = h.running /\ g.received = h.received /\ g.sawEnd = h.sawEnd
  /\ t.ops = s.ops /\ t.state = s.state
  /\ h.end # "none" => g.emitted = h.emitted /\ g.end = h.end

\* Whatever it does, the call stays in order.
LEMMA ReactionFacts ==
  ASSUME kind = "client_streaming", kind \in Kinds, NEW s \in Server, NEW h \in Handler,
         SingleInv(s, h), h.emitted <= NumResponses[kind], s.state # "STREAM_ENDED",
         NEW r \in Reactions(s, h)
  PROVE  \E t, g : r = <<t, g>> /\ Reacts(s, h, t, g)
<1>1. CASE h.end # "none"
  <2>1. r = <<s, h>>
    BY SMT, <1>1 DEF Reactions
  <2>2. Reacts(s, h, s, h)
    BY DEF Reacts
  <2> QED
    BY <2>1, <2>2
<1>2. CASE h.end = "none"
  <2>1. PICK k \in 0..(NumResponses[kind] - h.emitted), end \in {"none", "complete", "error"} :
          r = Reaction(s, h, k, end)
    BY SMT, <1>2 DEF Reactions
  <2> DEFINE u == [s EXCEPT !.responses = @ + k]
             t == IF end = "complete" THEN ServerOnComplete(u)
                  ELSE IF end = "error" THEN ServerOnError(u) ELSE u
             f == [h EXCEPT !.emitted = @ + k]
             g == [h EXCEPT !.emitted = @ + k, !.end = end]
  <2>2. r = <<t, g>>
    BY <2>1 DEF Reaction
  <2>3. h.emitted \in Nat /\ NumResponses[kind] \in Nat /\ s.responses \in Nat
    BY RpcAssumption DEF Handler, Server
  <2>4. h.emitted + k \in Nat /\ h.emitted + k <= NumResponses[kind] /\ s.responses + k \in Nat
    BY SMT, <2>3
  <2>5. /\ u \in Server /\ u.ops = s.ops /\ u.state = s.state /\ u.responses = s.responses + k
        /\ u.writing = s.writing /\ u.next = s.next /\ u.finished = s.finished
        /\ u.error = s.error
    BY <2>4 DEF Server
  <2>6. /\ f \in Handler /\ f.emitted = h.emitted + k /\ f.running = h.running
        /\ f.received = h.received /\ f.sawEnd = h.sawEnd /\ f.end = "none"
    BY <1>2, <2>4 DEF Handler
  <2>0. g = [f EXCEPT !.end = end]
    OBVIOUS
  <2> HIDE DEF u, f, g
  <2>7. SingleInv(u, f)
    BY <1>2, <2>5, <2>6 DEF SingleInv
  <2>8. /\ g \in Handler /\ g.emitted = h.emitted + k /\ g.running = h.running
        /\ g.received = h.received /\ g.sawEnd = h.sawEnd
    BY <2>0, <2>6 DEF Handler, Endings
  <2>9. CASE end = "none"
    <3>1. t = u /\ g = f
      BY <2>0, <2>6, <2>9 DEF Handler
    <3> QED
      BY <1>2, <2>2, <2>4, <2>5, <2>7, <2>8, <3>1 DEF Reacts
  <2>10. CASE end # "none"
    <3>1. end \in {"complete", "error"}
      BY <2>10
    <3>2. t = IF end = "error" THEN ServerOnError(u) ELSE ServerOnComplete(u)
      BY <3>1
    <3>3. ~StreamsResponses /\ kind \in KindSet
      BY RpcAssumption DEF StreamsResponses
    <3>4. t \in Server /\ SingleInv(t, g) /\ Finishes(u, t)
      <4> HIDE DEF t
      <4> QED
        BY <2>0, <2>5, <2>6, <2>7, <3>1, <3>2, <3>3, SingleEndsFacts
    <3> HIDE DEF t
    <3>5. t.ops = s.ops /\ t.state = s.state
      BY <2>5, <3>4 DEF Finishes
    <3> QED
      BY <1>2, <2>2, <2>4, <2>8, <3>4, <3>5 DEF Reacts
  <2> QED
    BY <2>9, <2>10
<1> QED
  BY <1>1, <1>2

-----------------------------------------------------------------------------
(* The server's completion queue.                                          *)

\* The request that is read is the one after those that the handler got.
LEMMA ReceivedFacts ==
  ASSUME RpcInv, wire.toServer # <<>>, UNCHANGED <<kind, client, source>>,
         Dead' = Dead, wire'.closed = wire.closed, StreamsRequests,
         wire'.toServer = Tail(wire.toServer), handler'.sawEnd = handler.sawEnd,
         handler'.received = Append(handler.received, Head(wire.toServer))
  PROVE  /\ handler'.received \in Seq(Nat) /\ wire'.toServer \in Seq(Nat) /\ RequestsInv'
<1> DEFINE g == Len(handler.received)
           t == Len(wire.toServer)
<1>1. handler.received \in Seq(Nat) /\ wire.toServer \in Seq(Nat) /\ source.emitted \in Nat
      /\ client.writing \in Nat /\ client.next \in Nat
  BY DEF RpcInv, TypeOK, Wire, Handler, Client, Source
<1>2. g \in Nat /\ t \in Nat
  BY <1>1, LengthsFacts
<1>3. /\ Follows(wire.toServer, g)
      /\ ~Dead => /\ g + t + Slot(client.writing) + Slot(client.next) = source.emitted
                  /\ client.writing # 0 => client.writing = g + t + 1
      /\ \A i \in 1..g : handler.received[i] = i
      /\ handler.sawEnd => Dead
  BY DEF RpcInv, RequestsInv
<1>4. /\ wire'.toServer \in Seq(Nat) /\ Len(wire'.toServer) + 1 = t
      /\ Head(wire.toServer) = g + 1 /\ Follows(wire'.toServer, g + 1)
  BY <1>1, <1>2, <1>3, TailFacts
<1>5. /\ handler'.received \in Seq(Nat) /\ Len(handler'.received) = g + 1
      /\ \A i \in 1..g + 1 : handler'.received[i] = i
  BY SMT, <1>1, <1>3, <1>4
<1> DEFINE u == Len(wire'.toServer)
           v == Len(handler'.received)
<1>6. u \in Nat /\ u + 1 = t /\ v = g + 1
  BY <1>4, <1>5, LengthsFacts
<1> HIDE DEF g, t, u, v
<1>7. v + u = g + t
  BY ONLY SMT, <1>2, <1>6
<1>8. /\ \A i \in 1..v : handler'.received[i] = i
      /\ Follows(wire'.toServer, v)
  BY <1>4, <1>5, <1>6
<1>9. ~Dead' => /\ v + u + Slot(client'.writing) + Slot(client'.next) = source'.emitted
                /\ client'.writing # 0 => client'.writing = v + u + 1
  BY <1>3, <1>7
<1>10. StreamsRequests' = StreamsRequests
  BY DEF StreamsRequests
<1>11. RequestsInv'
  BY <1>3, <1>8, <1>9, <1>10 DEF RequestsInv, u, v
<1> QED
  BY <1>4, <1>5, <1>11

\* What the server's call does after a read, once the handler has been told.
AfterRead(s, success) ==
  IF success THEN ServerMaybeReadNext([s EXCEPT !.state = "WAITING_FOR_DATA_REQUEST"])
  ELSE IF kind = "bidi" THEN [s EXCEPT !.state = "READ_STREAM_ENDED"]
  ELSE TrySendResponse([s EXCEPT !.state = "STREAM_ENDED"])

\* What the handler is told, and what may come of it.
Told(h, success, request) ==
  IF success THEN [h EXCEPT !.received = Append(@, request)] ELSE [h EXCEPT !.sawEnd = TRUE]

Reacted(s, h) == IF kind = "client_streaming" THEN Reactions(s, h) ELSE {<<s, h>>}

ReadResult(s, h, success, x) ==
  \E r \in Reacted(s, h) : x = <<AfterRead(r[1], success), r[2]>>

\* A completed read is handled in that order.
LEMMA ReadDoneFacts ==
  ASSUME NEW s, s.state = "REQUESTED_DATA", NEW h, NEW success \in BOOLEAN, NEW request,
         NEW x \in ServerReadDone(s, h, success, request)
  PROVE  ReadResult(s, Told(h, success, request), success, x)
<1>1. ServerReadDone(s, h, success, request)
        = {<<AfterRead(r[1], success), r[2]>> : r \in Reacted(s, Told(h, success, request))}
  BY DEF ServerReadDone, AfterRead, Reacted, Told
<1> QED
  BY SMT, <1>1 DEF ReadResult

\* A read of the server completes.
LEMMA ServerReadFacts ==
  ASSUME RpcInv, NEW success \in BOOLEAN, ServerReads(success),
         NEW b, b = ReleaseTag(server, "read"),
         NEW g, g = Told(handler, success, Head(wire.toServer))
  PROVE  /\ StreamsRequests /\ handler.running /\ "read" \in server.ops
         /\ b \in Server /\ ServerReleased(server, b, "read") /\ b.state = "REQUESTED_DATA"
         /\ g \in Handler /\ g.running /\ g.emitted = handler.emitted /\ g.end = handler.end
         /\ wire' \in Wire /\ wire'.closed = wire.closed /\ wire'.toClient = wire.toClient
         /\ wire'.status = wire.status /\ wire'.cancelled = wire.cancelled
         /\ wire'.stopped = wire.stopped /\ Dead' = Dead
         /\ UNCHANGED <<kind, client, app, source>>
         /\ handler'.received = g.received /\ handler'.sawEnd = g.sawEnd => RequestsInv'
         /\ \E r \in Reacted(b, g) : server' = AfterRead(r[1], success) /\ handler' = r[2]
<1> DEFINE request == IF success THEN Head(wire.toServer) ELSE 0
<1>1. /\ "read" \in server.ops /\ UNCHANGED <<kind, client, app, source>>
      /\ IF success THEN wire.toServer # <<>>
         ELSE Dead \/ (wire.closed /\ wire.toServer = <<>>)
      /\ wire' = [wire EXCEPT !.toServer = IF success THEN Tail(@) ELSE @]
      /\ \E x \in ServerReadDone(b, handler, success, request) : server' = x[1] /\ handler' = x[2]
  BY DEF ServerReads
<1>2. /\ server \in Server /\ handler \in Handler /\ wire \in Wire
      /\ StreamsRequests /\ server.state = "REQUESTED_DATA"
  BY <1>1 DEF RpcInv, TypeOK, ServerReaderInv
<1>3. handler.running
  BY <1>1, IdleFacts
<1>4. b \in Server /\ ServerReleased(server, b, "read")
  BY <1>2, ServerReleaseFacts DEF ServerOps
<1>5. b.state = "REQUESTED_DATA"
  BY <1>2, <1>4 DEF ServerReleased
<1>6. /\ wire'.closed = wire.closed /\ wire'.toClient = wire.toClient
      /\ wire'.status = wire.status /\ wire'.cancelled = wire.cancelled
      /\ wire'.stopped = wire.stopped
      /\ wire'.toServer = IF success THEN Tail(wire.toServer) ELSE wire.toServer
  BY <1>1, <1>2 DEF Wire
<1>7. Dead' = Dead
  BY <1>6 DEF Dead
<1>8. /\ g.running /\ g.emitted = handler.emitted /\ g.end = handler.end
      /\ success => g.sawEnd = handler.sawEnd
                      /\ g.received = Append(handler.received, Head(wire.toServer))
      /\ ~success => g.sawEnd /\ g.received = handler.received
  BY <1>2, <1>3 DEF Handler, Told
<1>9. g \in Handler /\ wire' \in Wire
  <2>1. CASE success
    <3>1. handler.received \in Seq(Nat) /\ wire.toServer \in Seq(Nat)
      BY <1>2 DEF Handler, Wire
    <3>2. /\ Append(handler.received, Head(wire.toServer)) \in Seq(Nat)
          /\ Tail(wire.toServer) \in Seq(Nat)
      BY SMT, <1>1, <2>1, <3>1
    <3>3. g \in Handler
      BY <1>2, <2>1, <3>2 DEF Handler, Told
    <3>4. wire' \in Wire
      BY <1>1, <1>2, <2>1, <3>2 DEF Wire
    <3> QED
      BY <3>3, <3>4
  <2>2. CASE ~success
    BY <1>1, <1>2, <2>2 DEF Handler, Wire, Told
  <2> QED
    BY <2>1, <2>2
<1>10. ASSUME handler'.received = g.received, handler'.sawEnd = g.sawEnd
       PROVE  RequestsInv'
  <2>1. CASE success
    BY <1>1, <1>2, <1>6, <1>7, <1>8, <1>10, <2>1, ReceivedFacts
  <2>2. CASE ~success
    <3>1. Dead' \/ (wire'.closed /\ wire'.toServer = <<>>)
      BY <1>1, <1>6, <1>7, <2>2
    <3>2. /\ handler'.received = handler.received /\ wire'.toServer = wire.toServer
          /\ StreamsRequests' = StreamsRequests
      BY <1>1, <1>6, <1>8, <1>10, <2>2 DEF StreamsRequests
    <3>3. /\ \A i \in 1..Len(handler'.received) : handler'.received[i] = i
          /\ Follows(wire'.toServer, Len(handler'.received))
      BY <3>2 DEF RpcInv, RequestsInv
    <3> QED
      BY <1>1, <1>2, <1>7, <3>1, <3>2, <3>3 DEF RpcInv, RequestsInv
  <2> QED
    BY <2>1, <2>2
<1>11. \E r \in Reacted(b, g) : server' = AfterRead(r[1], success) /\ handler' = r[2]
  <2>1. PICK x \in ServerReadDone(b, handler, success, request) : server' = x[1] /\ handler' = x[2]
    BY <1>1
  <2>2. g = Told(handler, success, request)
    BY DEF Told
  <2> HIDE DEF request
  <2>3. PICK r \in Reacted(b, g) : x = <<AfterRead(r[1], success), r[2]>>
    <3>1. x \in ServerReadDone(b, handler, success, request) /\ success \in BOOLEAN
      BY <2>1
    <3>2. ReadResult(b, Told(handler, success, request), success, x)
      BY ONLY <1>5, <3>1, ReadDoneFacts, Zenon
    <3> QED
      BY <2>2, <3>2 DEF ReadResult
  <2>4. server' = AfterRead(r[1], success) /\ handler' = r[2]
    BY <2>1, <2>3, PairFacts
  <2> QED
    BY <2>4
<1> QED
  BY <1>1, <1>2, <1>3, <1>4, <1>5, <1>6, <1>7, <1>8, <1>9, <1>10, <1>11

\* The bidi call goes on reading, or has come to the end of its requests.
LEMMA BidiServerReadKeeps ==
  ASSUME RpcInv, NEW success \in BOOLEAN, ServerReads(success), kind = "bidi"
  PROVE  RpcInv'
<1> DEFINE b == ReleaseTag(server, "read")
           g == Told(handler, success, Head(wire.toServer))
<1>1. /\ StreamsRequests /\ handler.running
      /\ b \in Server /\ ServerReleased(server, b, "read")
      /\ g \in Handler /\ g.running /\ g.emitted = handler.emitted /\ g.end = handler.end
      /\ wire' \in Wire /\ wire'.closed = wire.closed /\ wire'.toClient = wire.toClient
      /\ wire'.status = wire.status /\ wire'.cancelled = wire.cancelled
      /\ wire'.stopped = wire.stopped
      /\ UNCHANGED <<kind, client, app, source>>
      /\ handler'.received = g.received /\ handler'.sawEnd = g.sawEnd => RequestsInv'
  BY ServerReadFacts
<1>2. server' = AfterRead(b, success) /\ handler' = g
  <2>1. \E r \in Reacted(b, g) : server' = AfterRead(r[1], success) /\ handler' = r[2]
    BY ServerReadFacts
  <2> HIDE DEF b, g
  <2>2. Reacted(b, g) = {<<b, g>>}
    BY DEF Reacted
  <2>3. server' = AfterRead(<<b, g>>[1], success) /\ handler' = <<b, g>>[2]
    BY <2>1, <2>2
  <2> QED
    BY <2>3, PairFacts
<1> HIDE DEF b, g
<1>3. /\ b.ops \subseteq server.ops /\ server.ops \ {"read"} \subseteq b.ops
      /\ "request" \notin b.ops /\ "read" \notin b.ops
  BY <1>1 DEF ServerReleased, RpcInv, ServerReaderInv
<1>4. PICK s \in Server :
        /\ s.next = b.next /\ s.finish = b.finish /\ s.status = b.status /\ s.busy = b.busy
        /\ s.sentFinal = b.sentFinal /\ s.asked = b.asked /\ s.writing = b.writing
        /\ s.ops = b.ops /\ MayRead(s, server') /\ server' \in Server
  <2>1. CASE success
    <3> DEFINE s == [b EXCEPT !.state = "WAITING_FOR_DATA_REQUEST"]
    <3>1. /\ s \in Server /\ s.next = b.next /\ s.finish = b.finish /\ s.status = b.status
          /\ s.busy = b.busy /\ s.sentFinal = b.sentFinal /\ s.asked = b.asked
          /\ s.writing = b.writing /\ s.ops = b.ops
      BY <1>1 DEF Server
    <3>2. server' = ServerMaybeReadNext(s)
      BY <1>2, <2>1 DEF AfterRead
    <3> HIDE DEF s
    <3>3. server' \in Server /\ MayRead(s, server')
      BY <3>1, <3>2, ServerMaybeReadNextFacts
    <3> QED
      BY <3>1, <3>3
  <2>2. CASE ~success
    <3> DEFINE s == [b EXCEPT !.state = "READ_STREAM_ENDED"]
    <3>1. /\ s \in Server /\ s.next = b.next /\ s.finish = b.finish /\ s.status = b.status
          /\ s.busy = b.busy /\ s.sentFinal = b.sentFinal /\ s.asked = b.asked
          /\ s.writing = b.writing /\ s.ops = b.ops
      BY <1>1 DEF Server
    <3>2. server' = s
      BY <1>2, <2>2 DEF AfterRead
    <3> HIDE DEF s
    <3>3. MayRead(s, server')
      BY <3>2 DEF MayRead
    <3> QED
      BY <3>1, <3>2, <3>3
  <2> QED
    BY <2>1, <2>2
<1>5. RequestsInv'
  BY <1>1, <1>2
<1>6. ServerReaderInv'
  <2>1. \/ server'.ops = b.ops
        \/ server'.ops = b.ops \cup {"read"} /\ server'.state = "REQUESTED_DATA"
    BY <1>4 DEF MayRead
  <2>2. "request" \notin server'.ops /\ ("read" \in server'.ops => server'.state = "REQUESTED_DATA")
    BY SMT, <1>3, <2>1
  <2> QED
    BY <1>1, <1>2, <2>2 DEF ServerReaderInv, StreamsRequests
<1>7. /\ s.next = server.next /\ s.finish = server.finish /\ s.status = server.status
      /\ s.busy = server.busy /\ s.sentFinal = server.sentFinal /\ s.asked = server.asked
      /\ s.writing = server.writing
  BY <1>1, <1>4 DEF ServerReleased
<1> QED
  BY <1>1, <1>2, <1>3, <1>4, <1>5, <1>6, <1>7, BidiKeeps

\* The client streaming call does too, and may then send its response.
LEMMA ClientStreamingServerReadKeeps ==
  ASSUME RpcInv, NEW success \in BOOLEAN, ServerReads(success), kind = "client_streaming"
  PROVE  RpcInv'
<1> DEFINE b == ReleaseTag(server, "read")
           g == Told(handler, success, Head(wire.toServer))
<1>1. /\ StreamsRequests /\ handler.running
      /\ b \in Server /\ ServerReleased(server, b, "read") /\ b.state = "REQUESTED_DATA"
      /\ g \in Handler /\ g.running /\ g.emitted = handler.emitted /\ g.end = handler.end
      /\ wire' \in Wire /\ wire'.closed = wire.closed /\ wire'.toClient = wire.toClient
      /\ wire'.status = wire.status /\ wire'.cancelled = wire.cancelled
      /\ wire'.stopped = wire.stopped
      /\ UNCHANGED <<kind, client, app, source>>
      /\ handler'.received = g.received /\ handler'.sawEnd = g.sawEnd => RequestsInv'
  BY ServerReadFacts
<1>2. \E r \in Reactions(b, g) : server' = AfterRead(r[1], success) /\ handler' = r[2]
  <2>1. \E r \in Reacted(b, g) : server' = AfterRead(r[1], success) /\ handler' = r[2]
    BY ServerReadFacts
  <2> QED
    BY <2>1 DEF Reacted
<1> HIDE DEF b, g
<1>3. ~StreamsResponses /\ kind \in Kinds
  BY DEF StreamsResponses, RpcInv, TypeOK
<1>4. SingleInv(server, handler) /\ handler.emitted <= NumResponses[kind]
  BY <1>3, SingleFacts
<1>5. SingleInv(b, g)
  BY <1>1, <1>4 DEF SingleInv, ServerReleased
<1>6. PICK t, h : server' = AfterRead(t, success) /\ handler' = h /\ Reacts(b, g, t, h)
  <2>1. PICK r \in Reactions(b, g) : server' = AfterRead(r[1], success) /\ handler' = r[2]
    BY <1>2
  <2>2. PICK t, h : r = <<t, h>> /\ Reacts(b, g, t, h)
    BY <1>1, <1>3, <1>4, <1>5, ReactionFacts
  <2>3. r[1] = t /\ r[2] = h
    BY <2>2, PairFacts
  <2> QED
    BY <2>1, <2>2, <2>3
<1>7. /\ t \in Server /\ h \in Handler /\ SingleInv(t, h) /\ h.emitted <= NumResponses[kind]
      /\ h.running /\ h.received = g.received /\ h.sawEnd = g.sawEnd /\ t.ops = b.ops
      /\ g.end # "none" => h.emitted = g.emitted /\ h.end = g.end
  BY <1>1, <1>6 DEF Reacts
<1>8. "request" \notin t.ops /\ "read" \notin t.ops
  BY <1>1, <1>7 DEF ServerReleased, RpcInv, ServerReaderInv
<1>9. /\ server' \in Server /\ SingleInv(server', h) /\ "request" \notin server'.ops
      /\ "read" \in server'.ops => server'.state = "REQUESTED_DATA"
  <2>1. CASE success
    <3> DEFINE s == [t EXCEPT !.state = "WAITING_FOR_DATA_REQUEST"]
    <3>1. /\ s \in Server /\ s.next = t.next /\ s.status = t.status /\ s.responses = t.responses
          /\ s.writing = t.writing /\ s.ops = t.ops /\ s.finished = t.finished
          /\ s.error = t.error
      BY <1>7 DEF Server
    <3>2. server' = ServerMaybeReadNext(s)
      BY <1>6, <2>1 DEF AfterRead
    <3> HIDE DEF s
    <3>3. server' \in Server /\ MayRead(s, server')
      BY <3>1, <3>2, ServerMaybeReadNextFacts
    <3>4. /\ server'.next = t.next /\ server'.status = t.status
          /\ server'.responses = t.responses /\ server'.writing = t.writing
          /\ server'.finished = t.finished /\ server'.error = t.error
          /\ \/ server'.ops = t.ops
             \/ server'.ops = t.ops \cup {"read"} /\ server'.state = "REQUESTED_DATA"
      BY <3>1, <3>3 DEF MayRead
    <3>5. /\ "request" \notin server'.ops
          /\ "read" \in server'.ops => server'.state = "REQUESTED_DATA"
          /\ "write" \in server'.ops => "write" \in t.ops
          /\ "finish" \in server'.ops => "finish" \in t.ops
      BY SMT, <1>8, <3>4
    <3>6. SingleInv(server', h)
      BY <1>7, <3>4, <3>5 DEF SingleInv
    <3> QED
      BY <3>3, <3>5, <3>6
  <2>2. CASE ~success
    <3> DEFINE s == [t EXCEPT !.state = "STREAM_ENDED"]
    <3>1. /\ s \in Server /\ s.next = t.next /\ s.status = t.status /\ s.responses = t.responses
          /\ s.writing = t.writing /\ s.ops = t.ops /\ s.finished = t.finished
          /\ s.error = t.error
      BY <1>7 DEF Server
    <3>2. server' = TrySendResponse(s)
      BY <1>6, <2>2 DEF AfterRead
    <3> HIDE DEF s
    <3>3. SingleInv(s, h)
      BY <1>7, <3>1 DEF SingleInv
    <3>4. server' \in Server /\ SingleInv(server', h) /\ Finishes(s, server')
      BY <1>7, <3>1, <3>2, <3>3, TrySendResponseFacts
    <3>5. server'.ops = t.ops \/ server'.ops = t.ops \cup {"finish"}
      BY <3>1, <3>4 DEF Finishes
    <3>6. "request" \notin server'.ops /\ "read" \notin server'.ops
      BY SMT, <1>8, <3>5
    <3> QED
      BY <3>4, <3>6
  <2> QED
    BY <2>1, <2>2
<1>10. RequestsInv'
  BY <1>1, <1>6, <1>7
<1>11. ServerReaderInv'
  BY <1>1, <1>6, <1>7, <1>9 DEF ServerReaderInv, StreamsRequests
<1> QED
  BY <1>1, <1>3, <1>6, <1>7, <1>9, <1>10, <1>11, SingleKeeps

\* A read of the server completes.
LEMMA ServerReadsKeeps ==
  ASSUME RpcInv, NEW success \in BOOLEAN, ServerReads(success)
  PROVE  RpcInv'
<1>1. StreamsRequests
  BY DEF ServerReads, RpcInv, ServerReaderInv
<1> QED
  BY <1>1, BidiServerReadKeeps, ClientStreamingServerReadKeeps DEF StreamsRequests

\* The call that takes a request is as it was made.
LEMMA AcceptFacts ==
  ASSUME RpcInv, "request" \in server.ops,
         NEW b, b = ReleaseTag(server, "request"),
         NEW g, g = [handler EXCEPT !.running = TRUE]
  PROVE  /\ server = ServerInit /\ b \in Server /\ ServerReleased(server, b, "request")
         /\ b.ops = {} /\ b.writing = 0 /\ b.next = 0 /\ b.responses = 0 /\ ~b.finish
         /\ ~b.busy /\ ~b.sentFinal /\ ~b.finished
         /\ g \in Handler /\ g.running /\ g.received = handler.received
         /\ g.sawEnd = handler.sawEnd /\ g.emitted = 0 /\ handler.emitted = 0
         /\ g.end = "none" /\ handler.end = "none" /\ wire.status # "ok"
         /\ 0 <= NumResponses[kind]
<1>1. ~handler.running
  BY DEF RpcInv, ServerReaderInv
<1>2. /\ handler = HandlerInit /\ server.writing = 0 /\ server.next = 0 /\ ~server.finish
      /\ ~server.busy /\ ~server.sentFinal /\ ~server.finished /\ server.responses = 0
      /\ server.ops \subseteq {"request"}
  BY <1>1, IdleFacts
<1>3. server = ServerInit
  <2>1. server \in {ServerInit, ReleaseTag(ServerInit, "request")}
    BY <1>1 DEF RpcInv, ServerReaderInv
  <2>2. server # ReleaseTag(ServerInit, "request")
    BY DEF ServerInit, ReleaseTag
  <2> QED
    BY <2>1, <2>2
<1>4. server \in Server /\ handler \in Handler
  BY DEF RpcInv, TypeOK
<1>5. b \in Server /\ ServerReleased(server, b, "request")
  BY <1>4, ServerReleaseFacts DEF ServerOps
<1>6. /\ g \in Handler /\ g.running /\ g.received = handler.received
      /\ g.sawEnd = handler.sawEnd /\ g.emitted = handler.emitted /\ g.end = handler.end
  BY <1>4 DEF Handler
<1>7. handler.emitted = 0 /\ handler.end = "none"
  BY <1>2 DEF HandlerInit
<1>8. wire.status # "ok"
  BY <1>7 DEF RpcInv, ResponsesInv
<1>9. NumResponses[kind] \in Nat
  BY RpcAssumption DEF RpcInv, TypeOK
<1>10. 0 <= NumResponses[kind]
  BY SMT, <1>9
<1>11. b.ops = {}
  BY <1>2, <1>5 DEF ServerReleased
<1> QED
  BY <1>2, <1>3, <1>5, <1>6, <1>7, <1>8, <1>10, <1>11 DEF ServerReleased

\* The handler's stream of responses is asked for the first one.
LEMMA StreamAcceptKeeps ==
  ASSUME RpcInv, "request" \in server.ops, StreamsResponses,
         UNCHANGED <<kind, client, wire, app, source>>,
         NEW b, b = ReleaseTag(server, "request"),
         NEW g, g = [handler EXCEPT !.running = TRUE], handler' = g,
         \/ kind = "server_streaming" /\
              server' = [b EXCEPT !.state = "AWAITING_RESPONSE", !.retained = TRUE, !.asked = 1]
         \/ kind = "bidi" /\
              server' = [b EXCEPT !.state = "WAITING_FOR_DATA_REQUEST", !.retained = TRUE,
                                  !.asked = 1]
  PROVE  RpcInv'
<1> DEFINE sent == Len(app.got) + Len(wire.toClient)
<1>1. /\ b \in Server /\ b.ops = {} /\ b.writing = 0 /\ b.next = 0 /\ ~b.finish
      /\ ~b.busy /\ ~b.sentFinal
      /\ g \in Handler /\ g.running /\ g.received = handler.received
      /\ g.sawEnd = handler.sawEnd /\ g.emitted = 0 /\ handler.emitted = 0
      /\ g.end = "none" /\ wire.status # "ok" /\ 0 <= NumResponses[kind]
      /\ ServerReleased(server, b, "request")
  BY AcceptFacts
<1>2. 1 \in Nat /\ 1 = 0 + 1 - 0 /\ 0 <= 0
  BY SMT
<1>3. /\ server' \in Server /\ server'.ops = {} /\ server'.writing = 0 /\ server'.next = 0
      /\ ~server'.finish /\ ~server'.busy /\ ~server'.sentFinal /\ server'.asked = 1
      /\ kind = "server_streaming" => server'.state = "AWAITING_RESPONSE"
  <2>1. CASE server' = [b EXCEPT !.state = "AWAITING_RESPONSE", !.retained = TRUE, !.asked = 1]
    BY <1>1, <1>2, <2>1 DEF Server
  <2>2. CASE /\ kind = "bidi"
             /\ server' = [b EXCEPT !.state = "WAITING_FOR_DATA_REQUEST", !.retained = TRUE,
                                    !.asked = 1]
    BY <1>1, <1>2, <2>2 DEF Server
  <2> QED
    BY <2>1, <2>2
<1>4. ResponderInv(server', handler')
  <2>1. Slot(server'.next) = 0
    BY <1>3 DEF Slot
  <2>2. server'.asked = handler'.emitted + 1 - Slot(server'.next)
    BY <1>1, <1>2, <1>3, <2>1
  <2> QED
    BY <1>1, <1>3, <2>2 DEF ResponderInv
<1>5. RequestsInv'
  <2>1. Dead => Dead'
    BY DEF Dead
  <2> QED
    BY <1>1, <2>1, RequestsFrame DEF RpcInv
<1>6. ServerReaderInv'
  BY <1>1, <1>3 DEF ServerReaderInv
<1>7. ~GivenUp /\ ~Dead =>
         /\ sent + Slot(server'.writing) + Slot(server'.next) = handler'.emitted
         /\ server'.writing # 0 => server'.writing = sent + 1
  <2> HIDE DEF sent
  <2> SUFFICES ASSUME ~GivenUp, ~Dead
               PROVE  sent + Slot(server'.writing) + Slot(server'.next) = handler'.emitted
    BY <1>3
  <2>1. sent + Slot(server.writing) + Slot(server.next) = handler.emitted
    BY SentFacts DEF sent
  <2>2. server'.writing = server.writing /\ server'.next = server.next
    BY <1>1, <1>3 DEF ServerReleased
  <2>3. handler'.emitted = handler.emitted
    BY <1>1
  <2> QED
    BY <2>1, <2>2, <2>3
<1> HIDE DEF sent
<1>8. wire' \in Wire
  BY DEF RpcInv, TypeOK
<1> QED
  BY <1>1, <1>2, <1>3, <1>4, <1>5, <1>6, <1>7, <1>8, RespondKeeps DEF sent, RunsResponder

\* The handler's response is asked for.
LEMMA SingleAcceptKeeps ==
  ASSUME RpcInv, "request" \in server.ops, ~StreamsResponses,
         UNCHANGED <<kind, client, wire, app, source>>,
         server' \in Server, handler' \in Handler, handler'.running,
         handler'.received = handler.received, handler'.sawEnd = handler.sawEnd,
         handler'.emitted <= NumResponses[kind], SingleInv(server', handler'),
         "request" \notin server'.ops,
         "read" \in server'.ops => StreamsRequests /\ server'.state = "REQUESTED_DATA"
  PROVE  RpcInv'
<1>1. handler.end = "none"
  BY AcceptFacts
<1>2. RequestsInv'
  <2>1. Dead => Dead'
    BY DEF Dead
  <2> QED
    BY <2>1, RequestsFrame DEF RpcInv
<1>3. ServerReaderInv'
  BY DEF ServerReaderInv, StreamsRequests
<1>4. wire' \in Wire
  BY DEF RpcInv, TypeOK
<1> QED
  BY <1>1, <1>2, <1>3, <1>4, SingleKeeps

\* The handler of a client stream asks for requests, and may answer at once.
LEMMA ClientStreamingAcceptKeeps ==
  ASSUME RpcInv, "request" \in server.ops, kind = "client_streaming",
         UNCHANGED <<kind, client, wire, app, source>>, NEW n \in 0..MaxValue,
         NEW b, b = ReleaseTag(server, "request"),
         NEW g, g = [handler EXCEPT !.running = TRUE],
         NEW x \in ClientStreamingAccepted(b, g, n), server' = x[1], handler' = x[2]
  PROVE  RpcInv'
<1> DEFINE s == [b EXCEPT !.state = "WAITING_FOR_DATA_REQUEST", !.requested = n]
           t == ServerMaybeReadNext(s)
           u == [t EXCEPT !.asked = Unbounded]
<1>1. /\ b \in Server /\ b.ops = {} /\ b.writing = 0 /\ b.next = 0 /\ b.responses = 0
      /\ ~b.finished /\ g \in Handler /\ g.running /\ g.received = handler.received
      /\ g.sawEnd = handler.sawEnd /\ g.emitted = 0
      /\ g.end = "none" /\ 0 <= NumResponses[kind]
  BY AcceptFacts
<1>2. ~StreamsResponses /\ StreamsRequests /\ kind \in Kinds
  BY DEF StreamsResponses, StreamsRequests, RpcInv, TypeOK
<1>3. /\ s \in Server /\ s.ops = {} /\ s.writing = 0 /\ s.next = 0 /\ s.responses = 0
      /\ ~s.finished /\ s.state = "WAITING_FOR_DATA_REQUEST"
  BY <1>1 DEF Server
<1> HIDE DEF s
<1>4. t \in Server /\ MayRead(s, t)
  BY <1>3, ServerMaybeReadNextFacts
<1>5. x \in Reactions(u, g)
  BY DEF ClientStreamingAccepted, s
<1> HIDE DEF t
<1>6. Unbounded \in Nat
  BY MaxValueAssumption DEF Unbounded
<1>7. /\ u \in Server /\ u.ops = t.ops /\ u.writing = t.writing /\ u.next = t.next
      /\ u.responses = t.responses /\ u.finished = t.finished /\ u.state = t.state
  BY <1>4, <1>6 DEF Server
<1> HIDE DEF u
<1>8. /\ u.ops \subseteq {"read"} /\ u.writing = 0 /\ u.next = 0 /\ u.responses = 0
      /\ ~u.finished /\ u.state # "STREAM_ENDED"
      /\ "read" \in u.ops => u.state = "REQUESTED_DATA"
  BY <1>3, <1>4, <1>7 DEF MayRead
<1>9. SingleInv(u, g)
  BY <1>1, <1>8 DEF SingleInv
<1>10. PICK v, h : x = <<v, h>> /\ Reacts(u, g, v, h)
  BY <1>1, <1>2, <1>5, <1>7, <1>8, <1>9, ReactionFacts
<1>11. server' = v /\ handler' = h
  BY <1>10, PairFacts
<1>12. /\ v \in Server /\ h \in Handler /\ SingleInv(v, h) /\ h.emitted <= NumResponses[kind]
       /\ h.running /\ h.received = handler.received /\ h.sawEnd = handler.sawEnd
       /\ v.ops = u.ops /\ v.state = u.state
  BY <1>1, <1>10 DEF Reacts
<1>13. v.ops \subseteq {"read"} /\ ("read" \in v.ops => v.state = "REQUESTED_DATA")
  BY <1>8, <1>12
<1>14. "request" \notin v.ops
  BY SMT, <1>13
<1> QED
  BY <1>2, <1>11, <1>12, <1>13, <1>14, SingleAcceptKeeps

\* The server takes a request, of any kind.
LEMMA AcceptKeeps ==
  ASSUME RpcInv, NEW n \in Demands[kind], ServerAccepts(n)
  PROVE  RpcInv'
<1> DEFINE b == ReleaseTag(server, "request")
           g == [handler EXCEPT !.running = TRUE]
<1>1. /\ "request" \in server.ops /\ UNCHANGED <<kind, client, wire, app, source>>
      /\ \E x \in Accepted(b, handler, n) : server' = x[1] /\ handler' = x[2]
  BY DEF ServerAccepts
<1>2. PICK x \in Accepted(b, handler, n) : server' = x[1] /\ handler' = x[2]
  BY <1>1
<1>3. n \in 0..MaxValue /\ kind \in KindSet
  BY DemandFacts, RpcAssumption DEF RpcInv, TypeOK
<1>4. CASE kind = "client_streaming"
  <2>1. x \in ClientStreamingAccepted(b, g, n)
    BY <1>2, <1>4 DEF Accepted
  <2> HIDE DEF b, g
  <2>2. b = ReleaseTag(server, "request") /\ g = [handler EXCEPT !.running = TRUE]
    BY DEF b, g
  <2> QED
    BY <1>1, <1>2, <1>3, <1>4, <2>1, <2>2, ClientStreamingAcceptKeeps
<1>5. CASE kind = "unary"
  <2> DEFINE s == [b EXCEPT !.state = "HANDLING", !.asked = Unbounded]
  <2>1. x = <<s, g>>
    <3>1. x \in UnaryAccepted(b, g)
      BY <1>2, <1>5 DEF Accepted
    <3> QED
      BY <3>1 DEF UnaryAccepted
  <2>2. server' = s /\ handler' = g
    <3> HIDE DEF s, g
    <3> QED
      BY <1>2, <2>1, PairFacts
  <2>3. /\ b \in Server /\ b.ops = {} /\ b.writing = 0 /\ b.next = 0 /\ b.responses = 0
        /\ g \in Handler /\ g.running /\ g.received = handler.received
        /\ g.sawEnd = handler.sawEnd /\ g.emitted = 0
        /\ g.end = "none" /\ 0 <= NumResponses[kind]
    BY <1>1, AcceptFacts
  <2> HIDE DEF b, g
  <2>4. Unbounded \in Nat
    BY MaxValueAssumption DEF Unbounded
  <2>5. s \in Server /\ s.ops = {} /\ s.writing = 0 /\ s.next = 0 /\ s.responses = 0
    BY <2>3, <2>4 DEF Server
  <2> HIDE DEF s
  <2>6. SingleInv(s, g)
    BY <1>5, <2>3, <2>5 DEF SingleInv
  <2>7. ~StreamsResponses
    BY <1>5 DEF StreamsResponses
  <2> QED
    BY <1>1, <2>2, <2>3, <2>5, <2>6, <2>7, SingleAcceptKeeps
<1>6. CASE kind = "server_streaming"
  <2> DEFINE s == [b EXCEPT !.state = "AWAITING_RESPONSE", !.retained = TRUE, !.asked = 1]
  <2>1. x = <<s, g>>
    <3>1. x \in ServerStreamingAccepted(b, g)
      BY <1>2, <1>6 DEF Accepted
    <3> QED
      BY <3>1 DEF ServerStreamingAccepted
  <2>2. server' = s /\ handler' = g
    <3> HIDE DEF s, g
    <3> QED
      BY <1>2, <2>1, PairFacts
  <2>3. StreamsResponses
    BY <1>6 DEF StreamsResponses
  <2> QED
    BY <1>1, <1>6, <2>2, <2>3, StreamAcceptKeeps
<1>7. CASE kind = "bidi"
  <2> DEFINE s == [b EXCEPT !.state = "WAITING_FOR_DATA_REQUEST", !.retained = TRUE, !.asked = 1]
  <2>1. x = <<s, g>>
    <3>1. x \in BidiAccepted(b, g)
      BY <1>2, <1>7 DEF Accepted
    <3> QED
      BY <3>1 DEF BidiAccepted
  <2>2. server' = s /\ handler' = g
    <3> HIDE DEF s, g
    <3> QED
      BY <1>2, <2>1, PairFacts
  <2>3. StreamsResponses
    BY <1>7 DEF StreamsResponses
  <2> QED
    BY <1>1, <1>7, <2>2, <2>3, StreamAcceptKeeps
<1> QED
  BY <1>3, <1>4, <1>5, <1>6, <1>7 DEF KindSet

\* No request comes: the call is dropped without having been used.
LEMMA RequestFailsKeeps ==
  ASSUME RpcInv, ServerRequestFails
  PROVE  RpcInv'
<1>1. /\ "request" \in server.ops /\ server' = ReleaseTag(server, "request")
      /\ UNCHANGED <<kind, client, wire, app, source, handler>>
  BY DEF ServerRequestFails
<1>2. /\ server = ServerInit /\ server' \in Server
      /\ ServerReleased(server, server', "request") /\ server'.ops = {}
  BY <1>1, AcceptFacts
<1>3. ~handler.running /\ handler = HandlerInit
  BY <1>1 DEF RpcInv, ServerReaderInv
<1>4. ServerReaderInv'
  <2>1. handler' = HandlerInit' /\ server' = ReleaseTag(ServerInit', "request")
    BY <1>1, <1>2, <1>3 DEF ServerInit, HandlerInit, StreamsRequests
  <2> QED
    BY <1>1, <1>2, <1>3, <2>1 DEF ServerReaderInv
<1>5. ServerWriterInv'
  <2>1. server.writing = 0
    BY <1>3, IdleFacts
  <2> QED
    BY <1>1, <1>2, <1>3, <2>1 DEF RpcInv, ServerWriterInv, StreamsResponses, ServerReleased
<1>6. (Dead => Dead') /\ (GivenUp => GivenUp')
  BY <1>1 DEF Dead, GivenUp
<1>7. RequestsInv' /\ ResponsesInv'
  BY <1>1, <1>2, <1>6, RequestsFrame, ResponsesFrame DEF RpcInv, ServerReleased
<1> QED
  BY <1>1, <1>2, <1>4, <1>5, <1>7, ServerKeepsRest DEF RpcInv, TypeOK

-----------------------------------------------------------------------------
(* The invariant.                                                          *)

\* The first state has its types.
LEMMA InitType ==
  ASSUME Init
  PROVE  TypeOK
<1>1. 0 \in Nat /\ 0 \in 0..MaxValue /\ <<>> \in Seq(Nat)
  BY SMT, MaxValueAssumption
<1>2. client \in Client
  BY <1>1 DEF Init, ClientInit, Client
<1>3. server \in Server
  BY <1>1, {"request"} \subseteq {"request", "read", "write", "finish"}
  DEF Init, ServerInit, Server
<1>4. wire \in Wire
  BY <1>1 DEF Init, WireInit, Wire
<1>5. app \in App /\ source \in Source /\ handler \in Handler
  BY <1>1 DEF Init, AppInit, App, SourceInit, Source, HandlerInit, Handler, Endings
<1> QED
  BY <1>2, <1>3, <1>4, <1>5 DEF Init, TypeOK

\* The invariant holds at first.
LEMMA InitKeeps ==
  ASSUME Init
  PROVE  RpcInv
<1>1. TypeOK
  BY InitType
<1>2. /\ ~client.started /\ client.invoke /\ client.requested = 0 /\ ~client.busy
      /\ client.next = 0 /\ ~client.writesDone /\ ~client.finish /\ ~client.sentFinal
      /\ ~client.error /\ ~client.writerDone /\ ~client.readerDone /\ client.writing = 0
      /\ client.ops = {}
      /\ client.state = IF kind = "bidi" THEN "AWAITING_REQUEST" ELSE "INIT"
  BY DEF Init, ClientInit
<1>3. /\ server.next = 0 /\ ~server.finish /\ ~server.sentFinal /\ server.responses = 0
      /\ ~server.error /\ ~server.finished /\ server.writing = 0 /\ server.ops = {"request"}
      /\ ~server.busy /\ server.state # "SENT_FINAL_RESPONSE"
  BY DEF Init, ServerInit
<1>4. /\ wire.toServer = <<>> /\ ~wire.closed /\ wire.toClient = <<>> /\ wire.status = "none"
      /\ app.demand = 0 /\ app.got = <<>> /\ app.end = "none" /\ app.ends = 0
      /\ source.emitted = 0 /\ source.end = "none"
      /\ ~handler.running /\ handler.emitted = 0 /\ handler.end = "none"
      /\ handler.received = <<>> /\ ~handler.sawEnd
  BY DEF Init, WireInit, AppInit, SourceInit, HandlerInit
<1>5. Len(<<>>) = 0 /\ 0 + 0 = 0 /\ 0 <= 0 /\ 1..0 = {}
  BY SMT
<1>6. ClientWriterInv
  BY <1>2, <1>4 DEF ClientWriterInv, WriterInv, WriterOps
<1>7. Slot(0) = 0
  BY DEF Slot
<1>8. RequestsInv
  BY <1>2, <1>4, <1>5, <1>7 DEF RequestsInv, Follows
<1>9. ServerReaderInv
  BY <1>3, <1>4 DEF ServerReaderInv, Init
<1>10. ServerWriterInv
  <2>1. NumResponses[kind] \in Nat
    BY RpcAssumption DEF Init
  <2>2. 0 <= NumResponses[kind]
    BY SMT, <2>1
  <2> QED
    BY <1>3, <1>4, <2>2 DEF ServerWriterInv
<1>11. ResponsesInv
  BY <1>3, <1>4, <1>5, <1>7 DEF ResponsesInv, Follows
<1>12. ClientReaderInv
  <2>1. Outstanding(client) = 0
    BY <1>2, <1>5 DEF Outstanding
  <2> QED
    BY <1>2, <1>4, <1>5, <2>1 DEF ClientReaderInv
<1>13. AppEndInv
  <2>1. UnaryInv /\ ClientStreamingInv
    BY <1>2, <1>4 DEF UnaryInv, ClientStreamingInv
  <2>2. client.started = FALSE /\ client.invoke = TRUE /\ client.readerDone = FALSE
    BY DEF Init, ClientInit
  <2>3. CASE kind = "server_streaming"
    BY <1>2, <1>4, <2>1, <2>2, <2>3 DEF AppEndInv, ServerStreamingInv
  <2>4. CASE kind = "bidi"
    <3>1. client.state = "AWAITING_REQUEST"
      BY <1>2, <2>4
    <3>2. client.readerDone = (client.state = "END")
      BY <2>2, <3>1
    <3>3. BidiInv
      BY <1>2, <1>4, <3>1, <3>2 DEF BidiInv
    <3> QED
      BY <1>4, <2>4, <3>3 DEF AppEndInv
  <2> QED
    BY <1>4, <2>1, <2>3, <2>4 DEF AppEndInv
<1> QED
  BY <1>1, <1>6, <1>8, <1>9, <1>10, <1>11, <1>12, <1>13 DEF RpcInv

\* It holds as long as nothing happens.
LEMMA StutterKeeps ==
  ASSUME RpcInv, UNCHANGED vars
  PROVE  RpcInv'
<1>1. /\ kind' = kind /\ client' = client /\ server' = server /\ wire' = wire /\ app' = app
      /\ source' = source /\ handler' = handler
  BY DEF vars
<1>2. TypeOK'
  BY <1>1 DEF RpcInv, TypeOK
<1>3. ClientWriterInv'
  BY <1>1 DEF RpcInv, ClientWriterInv, StreamsRequests, WriterOps, Dead
<1>4. RequestsInv'
  BY <1>1 DEF RpcInv, RequestsInv, StreamsRequests, Dead
<1>5. ServerReaderInv'
  BY <1>1 DEF RpcInv, ServerReaderInv, ServerInit, StreamsRequests, HandlerInit
<1>6. ServerWriterInv'
  BY <1>1 DEF RpcInv, ServerWriterInv, StreamsResponses, Dead
<1>7. ResponsesInv'
  BY <1>1 DEF RpcInv, ResponsesInv, StreamsResponses, Dead, GivenUp
<1>8. ClientReaderInv'
  BY <1>1 DEF RpcInv, ClientReaderInv, StreamsResponses
<1>9. AppEndInv'
  BY <1>1 DEF RpcInv, AppEndInv, StreamsResponses, StreamsRequests, GivenUp, UnaryInv,
              ServerStreamingInv, ClientStreamingInv, BidiInv, WriterOps, NothingToRead, Broken
<1> QED
  BY <1>2, <1>3, <1>4, <1>5, <1>6, <1>7, <1>8, <1>9 DEF RpcInv

\* Every step keeps it.
LEMMA NextKeeps ==
  ASSUME RpcInv, Next
  PROVE  RpcInv'
<1>1. CASE ApplicationStep
  BY <1>1, RequestKeeps, CancelKeeps, DropKeeps DEF ApplicationStep
<1>2. CASE StreamStep
  BY <1>2, SourceEmitsKeeps, SourceEndsKeeps, HandlerRequestsKeeps DEF StreamStep
<1>3. CASE HandlerStep
  BY <1>3, HandlerEmitsKeeps, HandlerEndsKeeps DEF HandlerStep
<1>4. CASE TransportStep \/ ServerStops
  BY <1>4, RequestIsSentKeeps, ResponseIsSentKeeps, StatusIsSentKeeps, CallGoneKeeps
  DEF TransportStep
<1>5. CASE ClientStep
  BY <1>5, SendKeeps, ReadSucceedsKeeps, ReadFailsKeeps, FinishesKeeps DEF ClientStep
<1>6. CASE ServerStep
  BY <1>6, AcceptKeeps, RequestFailsKeeps, ServerReadsKeeps, WriteCompletesKeeps,
     FinishCompletesKeeps DEF ServerStep
<1> QED
  BY <1>1, <1>2, <1>3, <1>4, <1>5, <1>6 DEF Next

\* In every reachable state of a call the client's writer, the requests on their
\* way, the server's reader and writer, the responses on their way, the client's
\* reader and the subscriber agree on which elements are where (client.h and
\* server.h, whatever the four kinds of call, the lengths of the streams and what
\* is asked of them).
THEOREM RpcInductive == Spec => []RpcInv
<1>1. Init => RpcInv
  BY InitKeeps
<1>2. RpcInv /\ [Next]_vars => RpcInv'
  BY NextKeeps, StutterKeeps
<1> QED
  BY <1>1, <1>2, PTL DEF Spec

-----------------------------------------------------------------------------
(* What it is for.                                                         *)

\* A handler that is told the end of the requests of a call that is on has them all.
LEMMA HandlerHasAll ==
  ASSUME RpcInv, handler.sawEnd, ~Dead
  PROVE  source.end # "none" /\ Len(handler.received) = source.emitted
<1>1. StreamsRequests /\ wire.closed /\ wire.toServer = <<>>
  BY DEF RpcInv, RequestsInv
<1>2. /\ client.next = 0 /\ "write" \notin client.ops /\ source.end # "none"
  BY <1>1 DEF RpcInv, ClientWriterInv, WriterInv
<1>3. client.writing = 0
  BY <1>1, <1>2 DEF RpcInv, ClientWriterInv
<1>4. Len(handler.received) + Len(wire.toServer) + Slot(client.writing) + Slot(client.next)
        = source.emitted
  BY <1>1 DEF RpcInv, RequestsInv
<1>5. Slot(client.writing) = 0 /\ Slot(client.next) = 0
  BY <1>2, <1>3 DEF Slot
<1>6. handler.received \in Seq(Nat)
  BY DEF RpcInv, TypeOK, Handler
<1>7. Len(handler.received) = source.emitted
  BY SMT, <1>1, <1>4, <1>5, <1>6
<1> QED
  BY <1>2, <1>7

\* A subscriber that is told OnComplete has got all the responses.
LEMMA SubscriberHasAll ==
  ASSUME RpcInv, app.end = "complete"
  PROVE  /\ handler.end = "complete" /\ Len(app.got) = handler.emitted
         /\ StreamsRequests => source.end # "error"
<1>1. /\ wire.status = "ok" /\ handler.end = "complete"
      /\ StreamsRequests => source.end = "complete"
  BY DEF RpcInv, AppEndInv, ResponsesInv
<1>2. CASE StreamsResponses
  <2>1. wire.toClient = <<>> /\ ~GivenUp
    BY <1>2 DEF RpcInv, AppEndInv
  <2>2. Len(app.got) + Len(wire.toClient) = handler.emitted
    BY <1>1, <1>2, <2>1 DEF RpcInv, ResponsesInv
  <2>3. app.got \in Seq(Nat)
    BY DEF RpcInv, TypeOK, App
  <2>4. Len(app.got) = handler.emitted
    BY SMT, <2>1, <2>2, <2>3
  <2> QED
    BY <1>1, <2>4
<1>3. CASE ~StreamsResponses
  <2>1. Len(app.got) = 1 /\ handler.emitted = 1
    BY <1>1, <1>3 DEF RpcInv, AppEndInv, ResponsesInv
  <2> QED
    BY <1>1, <2>1
<1> QED
  BY <1>2, <1>3

\* No subscriber gets more than it asked for.
LEMMA NoMoreThanAsked ==
  ASSUME RpcInv
  PROVE  Len(app.got) <= app.demand
<1>1. app.got \in Seq(Nat) /\ app.demand \in 0..MaxValue /\ handler.emitted \in Nat
  BY DEF RpcInv, TypeOK, App, Handler
<1>2. Len(app.got) \in Nat
  BY SMT, <1>1
<1>3. CASE StreamsResponses
  <2>1. CASE app.demand = Unbounded
    <3>1. Len(app.got) <= handler.emitted /\ handler.emitted <= NumResponses[kind]
      BY DEF RpcInv, ResponsesInv, ServerWriterInv
    <3>2. /\ NumRequests[kind] \in Nat /\ NumResponses[kind] \in Nat
          /\ NumRequests[kind] + NumResponses[kind] < MaxValue
      BY RpcAssumption DEF RpcInv, TypeOK
    <3>3. MaxValue \in Nat
      BY MaxValueAssumption
    <3> QED
      BY SMT, <1>1, <1>2, <2>1, <3>1, <3>2, <3>3 DEF Unbounded
  <2>2. CASE Len(app.got) + Outstanding(client) <= app.demand
    <3>1. client.requested \in 0..MaxValue
      BY DEF RpcInv, TypeOK, Client
    <3> QED
      BY SMT, <1>1, <1>2, <2>2, <3>1 DEF Outstanding
  <2> QED
    BY <1>3, <2>1, <2>2 DEF RpcInv, ClientReaderInv
<1>4. CASE ~StreamsResponses /\ app.got # <<>>
  <2>1. Len(app.got) = 1
    BY <1>4 DEF RpcInv, ResponsesInv
  <2>2. kind \in {"unary", "client_streaming"}
    BY <1>4, RpcAssumption DEF RpcInv, TypeOK, KindSet, StreamsResponses
  <2>3. app.demand # 0
    <3>1. CASE kind = "unary"
      BY <1>4, <3>1 DEF RpcInv, AppEndInv, UnaryInv
    <3>2. CASE kind = "client_streaming"
      <4>1. client.sentFinal /\ StreamsRequests
        BY <1>4, <3>2 DEF RpcInv, AppEndInv, ClientStreamingInv, StreamsRequests
      <4>2. client.started
        BY <4>1 DEF RpcInv, ClientWriterInv, WriterInv
      <4> QED
        BY <4>1, <4>2 DEF RpcInv, ClientWriterInv
    <3> QED
      BY <2>2, <3>1, <3>2
  <2> QED
    BY SMT, <1>1, <2>1, <2>3
<1>5. CASE app.got = <<>>
  BY SMT, <1>1, <1>5
<1> QED
  BY <1>3, <1>4, <1>5

\* Streamed requests and responses arrive in order and without gaps, whatever
\* ends the call; OnComplete is told only to a subscriber that has got all that
\* the handler emitted, and the end of the requests, while the call is on, only
\* to a handler that has got all of them (client.h, RunEnqueuedOperation,
\* TagOperationDone, Reader::Finish; server.h, RunEnqueuedOperation,
\* TrySendResponse).
THEOREM StreamsAreFaithfulCorrect == Spec => []StreamsAreFaithful
<1>1. RpcInv => StreamsAreFaithful
  <2> SUFFICES ASSUME RpcInv
               PROVE  StreamsAreFaithful
    OBVIOUS
  <2>1. /\ Len(app.got) <= handler.emitted
        /\ \A i \in 1..Len(app.got) : app.got[i] = i
        /\ \A i \in 1..Len(handler.received) : handler.received[i] = i
    BY DEF RpcInv, ResponsesInv, RequestsInv
  <2> QED
    BY <2>1, HandlerHasAll, SubscriberHasAll DEF StreamsAreFaithful
<1> QED
  BY <1>1, RpcInductive, PTL

\* No operation completes in a state that does not expect it, so the calls of
\* abort() and the throw that guard against it are not reached (server.h:511, 528,
\* 866, 882; client.h:198); the subscriber is told the end at most once, and gets
\* no more elements than it asked for.
THEOREM CallsKeepTheirPlaceCorrect == Spec => []CallsKeepTheirPlace
<1>1. RpcInv => CallsKeepTheirPlace
  <2> SUFFICES ASSUME RpcInv
               PROVE  CallsKeepTheirPlace
    OBVIOUS
  <2>1. server.state # "ABORTED" /\ client.state # "THROWN"
    BY DEF RpcInv, TypeOK, Server, Client
  <2>2. app.ends = 0 \/ app.ends = 1
    BY DEF RpcInv, AppEndInv
  <2>3. app.ends <= 1
    BY SMT, <2>2
  <2> QED
    BY <2>1, <2>3, NoMoreThanAsked DEF CallsKeepTheirPlace
<1> QED
  BY <1>1, RpcInductive, PTL
=============================================================================
