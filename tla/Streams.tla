------------------------------ MODULE Streams -------------------------------
(***************************************************************************)
(* The rs library at work: one subscriber subscribes to one pipeline.      *)
(*                                                                         *)
(* The library is synchronous.  Request and Cancel travel up the pipeline  *)
(* and OnNext, OnError and OnComplete down it as nested calls, a           *)
(* subscriber may call Request and Cancel from within OnNext, and every    *)
(* object can therefore be re-entered while one of its methods waits for a *)
(* call it made.  The call stack is part of the state: a frame is a method *)
(* to run on a node, a method runs up to the calls it makes, and what it   *)
(* does after they return is a further method (its name says after what)   *)
(* left on the stack below them.  Only when the stack is empty do the      *)
(* application's asynchronous publishers and the subscriber act.           *)
(***************************************************************************)
EXTENDS ElementCount, Pipelines, FiniteSets

CONSTANTS Trees,      \* the pipelines a behaviour may start with
          Requests,   \* the counts the subscriber asks for
          MaxCalls    \* bound on the subscriber's calls of Request

VARIABLES pipe,   \* the pipeline
          st,     \* per node: the state of its subscription and subscriber
          stack,  \* the call stack, top first
          sub     \* the final subscriber

vars == <<pipe, st, stack, sub>>

-----------------------------------------------------------------------------
\* Frames.  A signal carries the input of the receiver it comes through.

Frame(n, op, a, k) == [n |-> n, op |-> op, a |-> a, k |-> k]

\* A call of a node's own method, or one up the pipeline.
Call(n, op, a) == Frame(n, op, a, 0)

Up(n, i, op, a) == Call(pipe[n].up[i], op, a)

Parent(n) == IF n = 1 THEN 0 ELSE CHOOSE m \in DOMAIN pipe : \E i \in DOMAIN pipe[m].up : pipe[m].up[i] = n

Slot(n) == IF n = 1 THEN 1 ELSE CHOOSE i \in DOMAIN pipe[Parent(n)].up : pipe[Parent(n)].up[i] = n

Signal(n, op, a) == Frame(Parent(n), op, a, Slot(n))

Inputs(n) == DOMAIN pipe[n].up

\* What running a method leads to: the new state of its object and its calls.
Then(s, calls) == [s |-> s, calls |-> calls]

If(b, calls) == IF b THEN calls ELSE << >>

-----------------------------------------------------------------------------
\* The callbacks given to the operators; mem is what a stateful one captured.

Throws(v) == v = Bad

Mapped(p, mem, v) ==
    CASE p = "plus10"     -> v + 10
      [] p = "scan"       -> mem + v
      [] p = "sawElement" -> v
      [] p = "present"    -> v

MapperThrows(p, v) ==
    CASE p = "present"    -> v = NoValue
      [] p = "sawElement" -> FALSE
      [] OTHER            -> Throws(v)

MapperMem(p, mem, v) == IF p = "scan" THEN mem + v ELSE 1

Matches(cb, mem, v) ==
    CASE cb.p = "odd"       -> v % 2 = 1
      [] cb.p = "notOdd"    -> v % 2 = 0
      [] cb.p = "skip"      -> mem = cb.k
      [] cb.p = "skipWhile" -> mem = 1 \/ v >= 2
      [] cb.p = "at"        -> mem = cb.k

PredicateThrows(cb, mem, v) ==
    /\ Throws(v)
    /\ \/ cb.p \in {"odd", "notOdd"}
       \/ cb.p = "skipWhile" /\ mem = 0


PredicateMem(cb, mem, v) ==
    CASE cb.p = "skip"      -> IF mem = cb.k THEN mem ELSE mem + 1
      [] cb.p = "at"        -> mem + 1
      [] cb.p = "skipWhile" -> IF v >= 2 THEN 1 ELSE mem
      [] OTHER              -> mem

ReducerThrows(p, v) == p \in {"sum", "max", "min"} /\ Throws(v)

Initial(p) ==
    CASE p \in {"sum", "count", "some"}  -> 0
      [] p \in {"isEmpty", "all"}        -> 1
      [] p \in {"last", "max", "min"}    -> NoValue

Reduced(p, acc, v) ==
    CASE p = "sum"     -> acc + v
      [] p = "count"   -> acc + 1
      [] p = "some"    -> 1
      [] p = "isEmpty" -> 0
      [] p = "all"     -> 0
      [] p = "last"    -> v
      [] p = "max"     -> IF acc = NoValue \/ v > acc THEN v ELSE acc
      [] p = "min"     -> IF acc = NoValue \/ v < acc THEN v ELSE acc

-----------------------------------------------------------------------------
\* Publishers.  A node of any kind answers Subscribe, Request and Cancel.

\* A Request that finds demand outstanding was called from within OnNext; the
\* loop that is running will see what it added.
StartsLoop(s) == s.out = 0

FromMethod(n, f, s) ==
    LET vals == pipe[n].cb.vals
    IN  CASE f.op = "Subscribe" -> Then(s, If(vals = << >>, <<Signal(n, "OnComplete", 0)>>))
          [] f.op = "Request" ->
                Then([s EXCEPT !.out = ElementCountAdd(@, f.a)],
                     If(StartsLoop(s), <<Call(n, "loop", 0)>>))
          [] f.op = "loop" ->
                IF ~s.cancelled /\ s.out # 0 /\ s.at < Len(vals)
                THEN Then([s EXCEPT !.at = @ + 1],
                          <<Signal(n, "OnNext", vals[s.at + 1]), Call(n, "afterOnNext", 0)>>)
                ELSE Then(s, << >>)
          [] f.op = "afterOnNext" ->
                IF s.at = Len(vals)
                THEN Then([s EXCEPT !.out = 0], <<Signal(n, "OnComplete", 0), Call(n, "count", 0)>>)
                ELSE Then(s, <<Call(n, "count", 0)>>)
          [] f.op = "count" -> Then([s EXCEPT !.out = Decrement(@)], <<Call(n, "loop", 0)>>)
          [] f.op = "Cancel" -> Then([s EXCEPT !.cancelled = TRUE], << >>)

\* Start is From without the cancelled flag: Cancel moves to the end, which a
\* loop that is running takes for completion.
StartMethod(n, f, s) ==
    LET vals == pipe[n].cb.vals
    IN  CASE f.op = "Subscribe" -> Then(s, If(vals = << >>, <<Signal(n, "OnComplete", 0)>>))
          [] f.op = "Request" ->
                Then([s EXCEPT !.out = ElementCountAdd(@, f.a)],
                     If(StartsLoop(s), <<Call(n, "loop", 0)>>))
          [] f.op = "loop" ->
                IF s.at < Len(vals) /\ s.out # 0
                THEN Then([s EXCEPT !.at = @ + 1],
                          <<Signal(n, "OnNext", vals[s.at + 1]), Call(n, "afterOnNext", 0)>>)
                ELSE Then(s, << >>)
          [] f.op = "afterOnNext" ->
                Then(s, If(s.at = Len(vals), <<Signal(n, "OnComplete", 0)>>) \o <<Call(n, "count", 0)>>)
          [] f.op = "count" -> Then([s EXCEPT !.out = Decrement(@)], <<Call(n, "loop", 0)>>)
          [] f.op = "Cancel" -> Then([s EXCEPT !.at = Len(vals)], << >>)

ThrowMethod(n, f, s) ==
    Then(s, If(f.op = "Subscribe", <<Signal(n, "OnError", 0)>>))

\* The application's publisher: what it does with the demand is up to AsyncNext.
AsyncMethod(n, f, s) ==
    CASE f.op = "Subscribe" -> Then([s EXCEPT !.on = TRUE], << >>)
      [] f.op = "Request"   -> Then([s EXCEPT !.out = ElementCountAdd(@, f.a)], << >>)
      [] f.op = "Cancel"    -> Then([s EXCEPT !.cancelled = TRUE], << >>)

-----------------------------------------------------------------------------
\* Operators on one stream.  took is the weak reference to the subscription
\* made upstream, which the subscriber is given once Subscribe has returned.

SubscribeTo(n) == <<Up(n, 1, "Subscribe", 0), Call(n, "afterSubscribe", 0)>>

MapMethod(n, f, s) ==
    LET p == pipe[n].cb.p
    IN  CASE f.op = "Subscribe" -> Then(s, SubscribeTo(n))
          [] f.op = "afterSubscribe" -> Then([s EXCEPT !.took = TRUE], << >>)
          [] f.op \in {"Request", "Cancel"} -> Then(s, <<Up(n, 1, f.op, f.a)>>)
          [] f.op = "OnNext" ->
                IF s.failed THEN Then(s, << >>)
                ELSE IF MapperThrows(p, f.a)
                THEN Then(s, If(s.took, <<Up(n, 1, "Cancel", 0)>>) \o <<Call(n, "fail", 0)>>)
                ELSE Then([s EXCEPT !.mem = MapperMem(p, @, f.a)],
                          <<Signal(n, "OnNext", Mapped(p, s.mem, f.a))>>)
          [] f.op = "fail" -> Then([s EXCEPT !.failed = TRUE], <<Signal(n, "OnError", 0)>>)
          [] f.op \in {"OnError", "OnComplete"} -> Then(s, If(~s.failed, <<Signal(n, f.op, 0)>>))

\* Mutant: the dropped element is not replaced.
DoesNotReplaceDropped(n, s) == << >>

\* An element that is dropped is asked for again, one for one.
ReplaceDropped(n, s) == If(s.took, <<Up(n, 1, "Request", 1)>>)

FilterMethod(n, f, s) ==
    LET cb == pipe[n].cb
    IN  CASE f.op = "Subscribe" -> Then(s, SubscribeTo(n))
          [] f.op = "afterSubscribe" -> Then([s EXCEPT !.took = TRUE], << >>)
          [] f.op \in {"Request", "Cancel"} -> Then(s, <<Up(n, 1, f.op, f.a)>>)
          [] f.op = "OnNext" ->
                IF s.failed THEN Then(s, << >>)
                ELSE IF PredicateThrows(cb, s.mem, f.a)
                THEN Then(s, If(s.took, <<Up(n, 1, "Cancel", 0)>>) \o <<Call(n, "fail", 0)>>)
                ELSE Then([s EXCEPT !.mem = PredicateMem(cb, @, f.a)],
                          IF Matches(cb, s.mem, f.a) THEN <<Signal(n, "OnNext", f.a)>>
                          ELSE ReplaceDropped(n, s))
          [] f.op = "fail" -> Then([s EXCEPT !.failed = TRUE], <<Signal(n, "OnError", 0)>>)
          [] f.op \in {"OnError", "OnComplete"} -> Then(s, If(~s.failed, <<Signal(n, f.op, 0)>>))

\* Take(0) completes at once and never subscribes upstream.
TakeMethod(n, f, s) ==
    CASE f.op = "Subscribe" ->
            IF s.count = 0 THEN Then(s, <<Signal(n, "OnComplete", 0)>>) ELSE Then(s, SubscribeTo(n))
      [] f.op = "afterSubscribe" -> Then([s EXCEPT !.took = TRUE], << >>)
      [] f.op \in {"Request", "Cancel"} -> Then(s, If(s.took, <<Up(n, 1, f.op, f.a)>>))
      [] f.op = "OnNext" ->
            IF s.cancelled THEN Then(s, << >>)
            ELSE Then(s, If(s.count > 0, <<Signal(n, "OnNext", f.a)>>) \o <<Call(n, "afterOnNext", 0)>>)
      [] f.op = "afterOnNext" ->
            Then([s EXCEPT !.count = @ - 1],
                 If(s.count - 1 <= 0, <<Signal(n, "OnComplete", 0)>>
                                      \o If(s.took, <<Up(n, 1, "Cancel", 0)>>)
                                      \o <<Call(n, "close", 0)>>))
      [] f.op = "close" -> Then([s EXCEPT !.cancelled = TRUE], << >>)
      [] f.op \in {"OnError", "OnComplete"} -> Then(s, If(~s.cancelled, <<Signal(n, f.op, 0)>>))

\* The predicate of the modelled TakeWhile holds of the elements below 3.
TakeWhileMethod(n, f, s) ==
    LET CancelUp == If(s.took, <<Up(n, 1, "Cancel", 0)>>) \o <<Call(n, "close", 0)>>
    IN  CASE f.op = "Subscribe" -> Then(s, SubscribeTo(n))
          [] f.op = "afterSubscribe" -> Then([s EXCEPT !.took = TRUE], << >>)
          [] f.op \in {"Request", "Cancel"} -> Then(s, <<Up(n, 1, f.op, f.a)>>)
          [] f.op = "OnNext" ->
                IF s.cancelled THEN Then(s, << >>)
                ELSE IF Throws(f.a) THEN Then(s, CancelUp \o <<Signal(n, "OnError", 0)>>)
                ELSE IF f.a < 3 THEN Then(s, <<Signal(n, "OnNext", f.a)>>)
                ELSE Then(s, <<Signal(n, "OnComplete", 0)>> \o CancelUp)
          [] f.op = "close" -> Then([s EXCEPT !.cancelled = TRUE], << >>)
          [] f.op \in {"OnError", "OnComplete"} -> Then(s, If(~s.cancelled, <<Signal(n, f.op, 0)>>))

\* emit is the Emitter that holds the accumulated value when the input ended
\* before anything was requested; it is dropped after it has emitted.
EmitAccumulator(n, s) == <<Signal(n, "OnNext", s.acc), Signal(n, "OnComplete", 0)>>

ReduceSubscription(n, f, s) ==
    CASE f.op = "Request" /\ s.emit -> Then(s, EmitAccumulator(n, s) \o <<Call(n, "afterEmit", 0)>>)
      [] f.op = "Request" /\ ~s.emit ->
            IF f.a > 0 THEN Then([s EXCEPT !.requested = TRUE], <<Up(n, 1, "Request", Unbounded)>>)
            ELSE Then(s, << >>)
      [] f.op = "afterEmit" -> Then([s EXCEPT !.emit = FALSE], << >>)
      [] f.op = "Cancel" -> Then(s, <<Up(n, 1, "Cancel", 0)>>)

ReduceSubscriber(n, f, s) ==
    CASE f.op = "OnNext" ->
            IF s.failed THEN Then(s, << >>)
            ELSE IF ReducerThrows(pipe[n].cb.p, f.a)
            THEN Then([s EXCEPT !.failed = TRUE],
                      If(s.took, <<Up(n, 1, "Cancel", 0)>>) \o <<Signal(n, "OnError", 0)>>)
            ELSE Then([s EXCEPT !.acc = Reduced(pipe[n].cb.p, @, f.a)], << >>)
      [] f.op = "OnError" -> Then(s, <<Signal(n, "OnError", 0)>>)
      [] f.op = "OnComplete" ->
            IF s.failed THEN Then(s, << >>)
            ELSE IF s.requested THEN Then(s, EmitAccumulator(n, s))
            ELSE IF s.took THEN Then([s EXCEPT !.emit = TRUE], << >>)
            ELSE Then([s EXCEPT !.complete = TRUE], << >>)

ReduceMethod(n, f, s) ==
    CASE f.op = "Subscribe" -> Then(s, SubscribeTo(n))
      [] f.op = "afterSubscribe" -> Then([s EXCEPT !.took = TRUE, !.emit = s.complete], << >>)
      [] f.op \in {"Request", "afterEmit", "Cancel"} -> ReduceSubscription(n, f, s)
      [] OTHER -> ReduceSubscriber(n, f, s)

-----------------------------------------------------------------------------
\* Operators on several streams.  A signal's k is the input it came through.

\* Input 2 is what the callback returned; it is given Catch's own subscriber.
CatchSubscription(n, f, s) ==
    CASE f.op = "Request" ->
            Then([s EXCEPT !.requested = ElementCountAdd(@, f.a)],
                 If(s.caught, <<Up(n, 2, "Request", f.a)>>) \o If(s.took, <<Up(n, 1, "Request", f.a)>>))
      [] f.op = "Cancel" ->
            Then([s EXCEPT !.cancelled = TRUE],
                 If(s.took, <<Up(n, 1, "Cancel", 0)>>) \o If(s.caught, <<Up(n, 2, "Cancel", 0)>>))

CatchSubscriber(n, f, s) ==
    CASE f.op = "OnNext" ->
            LET left == Decrement(s.requested)
            IN  IF left < 0
                THEN Then([s EXCEPT !.requested = left, !.cancelled = TRUE], <<Signal(n, "OnError", 0)>>)
                ELSE Then([s EXCEPT !.requested = left], <<Signal(n, "OnNext", f.a)>>)
      [] f.op = "OnError" ->
            Then(s, If(~s.cancelled, <<Up(n, 2, "Subscribe", 0), Call(n, "afterRescue", 0)>>))
      [] f.op = "afterRescue" -> Then(s, <<Up(n, 2, "Request", s.requested), Call(n, "afterRequest", 0)>>)
      [] f.op = "afterRequest" -> Then([s EXCEPT !.caught = TRUE], << >>)
      [] f.op = "OnComplete" -> Then(s, If(~s.cancelled, <<Signal(n, "OnComplete", 0)>>))

CatchMethod(n, f, s) ==
    CASE f.op = "Subscribe" -> Then(s, SubscribeTo(n))
      [] f.op = "afterSubscribe" -> Then([s EXCEPT !.took = TRUE], << >>)
      [] f.op \in {"Request", "Cancel"} -> CatchSubscription(n, f, s)
      [] f.k = 2 -> Then(s, <<Signal(n, f.op, f.a)>>)
      [] OTHER -> CatchSubscriber(n, f, s)

\* Input 1 is the stream of publishers, the others are what the mapper returns.
\* cur is the input subscription_ holds (0: none); held is the input whose
\* subscriber has the reference to this object (0: it has it itself).
\* Mutant: the current stream of values is not cancelled.
CancelsOnlyPublishers(n, s) == <<Up(n, 1, "Cancel", 0)>>

ConcatMapCancel(n, s) ==
    If(s.cur # 0, <<Up(n, s.cur, "Cancel", 0)>>) \o <<Up(n, 1, "Cancel", 0)>>

ConcatMapError(n, s) ==
    Then([s EXCEPT !.failed = TRUE], ConcatMapCancel(n, s) \o <<Signal(n, "OnError", 0)>>)

ConcatMapSubscription(n, f, s) ==
    CASE f.op = "Subscribe" -> Then(s, <<Up(n, 1, "Subscribe", 0), Up(n, 1, "Request", 1)>>)
      [] f.op = "Request" ->
            Then([s EXCEPT !.toBe = ElementCountAdd(@, f.a)], If(s.cur # 0, <<Call(n, "loop", 0)>>))
      [] f.op = "loop" ->
            Then([s EXCEPT !.toBe = 0, !.requested = ElementCountAdd(@, s.toBe), !.cur = 0],
                 <<Up(n, s.cur, "Request", s.toBe), Call(n, "afterRequest", s.cur)>>)
      [] f.op = "afterRequest" ->
            Then([s EXCEPT !.cur = IF @ = 0 THEN f.a ELSE @], If(s.toBe # 0, <<Call(n, "loop", 0)>>))
      [] f.op = "Cancel" -> Then(s, ConcatMapCancel(n, s))

ConcatMapPublishers(n, f, s) ==
    CASE f.op = "OnNext" ->
            IF f.a = Bad THEN ConcatMapError(n, s)
            ELSE IF s.failed THEN Then(s, << >>)
            ELSE IF s.held # 0 THEN ConcatMapError(n, s)
            ELSE Then([s EXCEPT !.held = f.a + 1],
                      <<Up(n, f.a + 1, "Subscribe", 0), Call(n, "afterSubscribe", f.a + 1)>>)
      [] f.op = "afterSubscribe" -> Then([s EXCEPT !.cur = f.a], <<Up(n, f.a, "Request", s.requested)>>)
      [] f.op = "OnError" -> ConcatMapError(n, s)
      [] f.op = "OnComplete" ->
            IF s.failed THEN Then(s, << >>)
            ELSE Then([s EXCEPT !.pubsDone = TRUE], If(s.held = 0, <<Signal(n, "OnComplete", 0)>>))

ConcatMapValues(n, f, s) ==
    CASE f.k # s.held -> Then(s, << >>)
      [] f.op = "OnNext" /\ f.k = s.held ->
            IF s.failed THEN Then(s, << >>)
            ELSE IF s.requested = 0 THEN ConcatMapError(n, s)
            ELSE Then([s EXCEPT !.requested = Decrement(@)], <<Signal(n, "OnNext", f.a)>>)
      [] f.op = "OnError" /\ f.k = s.held -> ConcatMapError(n, s)
      [] f.op = "OnComplete" /\ f.k = s.held ->
            IF s.failed THEN Then(s, << >>)
            ELSE IF s.pubsDone THEN Then(s, <<Signal(n, "OnComplete", 0)>>)
            ELSE Then([s EXCEPT !.held = 0], <<Up(n, 1, "Request", 1)>>)

ConcatMapMethod(n, f, s) ==
    CASE f.op \in {"Subscribe", "Request", "loop", "afterRequest", "Cancel"} -> ConcatMapSubscription(n, f, s)
      [] f.k = 1 \/ f.op = "afterSubscribe" -> ConcatMapPublishers(n, f, s)
      [] f.k > 1 -> ConcatMapValues(n, f, s)

\* subs counts the inputs subscribed to so far; owed is the outstanding count
\* of each, outstanding that of the merged stream, being the part of a Request
\* that is being processed.
MergeSubscribe(n, f, s) ==
    LET Input(i) == <<Up(n, i, "Subscribe", 0), Call(n, "afterSubscribe", 0)>>
    IN  CASE f.op = "Subscribe" ->
                IF Inputs(n) = {}
                THEN Then([s EXCEPT !.finished = TRUE], <<Signal(n, "OnComplete", 0)>>)
                ELSE Then(s, Input(1))
          [] f.op = "afterSubscribe" ->
                Then([s EXCEPT !.subs = @ + 1],
                     If(s.subs + 1 < Len(pipe[n].up) /\ ~s.finished, Input(s.subs + 2)))

MaybeSendOnComplete(n, s) ==
    IF ~s.finished /\ s.remaining = 0 /\ s.buffer = << >>
    THEN Then([s EXCEPT !.finished = TRUE], <<Signal(n, "OnComplete", 0)>>)
    ELSE Then(s, << >>)

MergeRequest(n, f, s) ==
    CASE f.op = "Request" ->
            IF s.finished THEN Then(s, << >>)
            ELSE IF s.being # 0 THEN Then([s EXCEPT !.being = ElementCountAdd(@, f.a)], << >>)
            ELSE Then([s EXCEPT !.being = f.a, !.outstanding = ElementCountAdd(@, f.a)],
                      <<Call(n, "drain", 0)>>)
      [] f.op = "drain" ->
            IF s.being > 0 /\ s.buffer # << >>
            THEN Then(s, <<Signal(n, "OnNext", Head(s.buffer)), Call(n, "afterOnNext", 0)>>)
            ELSE Then(s, <<Call(n, "pass", 1)>>)
      [] f.op = "afterOnNext" ->
            Then([s EXCEPT !.being = Decrement(@), !.buffer = Tail(@)], <<Call(n, "drain", 0)>>)
      [] f.op = "pass" ->
            IF f.a > s.subs THEN MaybeSendOnComplete(n, [s EXCEPT !.being = 0])
            ELSE LET more == ElementCountSubtract(s.being, s.owed[f.a])
                 IN  IF s.being > 0 /\ more > 0
                     THEN Then([s EXCEPT !.owed[f.a] = ElementCountAdd(@, more)],
                               <<Up(n, f.a, "Request", more), Call(n, "pass", f.a + 1)>>)
                     ELSE Then(s, <<Call(n, "pass", f.a + 1)>>)

MergeCancel(n, s) == [i \in 1..s.subs |-> Up(n, i, "Cancel", 0)]


MergeError(n, s) ==
    IF s.finished THEN Then(s, << >>)
    ELSE Then([s EXCEPT !.finished = TRUE], MergeCancel(n, s) \o <<Signal(n, "OnError", 0)>>)

MergeSubscriber(n, f, s) ==
    CASE f.op = "OnNext" ->
            IF s.finished THEN Then(s, << >>)
            ELSE IF f.k > s.subs \/ s.owed[f.k] <= 0 THEN MergeError(n, s)
            ELSE LET t == [s EXCEPT !.owed[f.k] = Decrement(@)]
                 IN  IF s.outstanding > 0
                     THEN Then([t EXCEPT !.outstanding = Decrement(@)], <<Signal(n, "OnNext", f.a)>>)
                     ELSE Then([t EXCEPT !.buffer = Append(@, f.a)], << >>)
      [] f.op = "OnError" -> MergeError(n, s)
      [] f.op = "OnComplete" -> MaybeSendOnComplete(n, [s EXCEPT !.remaining = @ - 1])

MergeMethod(n, f, s) ==
    CASE f.op \in {"Subscribe", "afterSubscribe"} -> MergeSubscribe(n, f, s)
      [] f.op \in {"Request", "drain", "afterOnNext", "pass"} -> MergeRequest(n, f, s)
      [] f.op = "Cancel" -> Then([s EXCEPT !.finished = TRUE], MergeCancel(n, s))
      [] OTHER -> MergeSubscriber(n, f, s)

\* A tuple of small numbers, as one number: its elements are the digits.
Tuple(elements) ==
    LET Digits[i \in 0..Len(elements)] == IF i = 0 THEN 0 ELSE Digits[i - 1] * 10 + elements[i]
    IN  Digits[Len(elements)]

\* pending holds the inputs asked for an element that has not arrived, buffer
\* the elements that have (a set of input and element), done the ended inputs.
ToInputs(n, op, a) == [i \in Inputs(n) |-> Up(n, i, op, a)]

ZipSendOnComplete(n, s) ==
    IF s.finished THEN Then(s, << >>)
    ELSE Then([s EXCEPT !.finished = TRUE], <<Signal(n, "OnComplete", 0)>>)

\* A Zip that finished while it subscribed destroys its subscriptions, which
\* cancels them.
ZipSubscribe(n, f, s) ==
    CASE f.op = "Subscribe" -> Then(s, ToInputs(n, "Subscribe", 0) \o <<Call(n, "afterSubscribe", 0)>>)
      [] f.op = "afterSubscribe" ->
            IF s.finished THEN Then(s, ToInputs(n, "Cancel", 0))
            ELSE IF Inputs(n) = {} THEN ZipSendOnComplete(n, s)
            ELSE Then([s EXCEPT !.took = TRUE], << >>)

ZipRequest(n, s, count) ==
    LET t == [s EXCEPT !.requested = ElementCountAdd(@, count)]
    IN  IF s.finished THEN Then(s, << >>)
        ELSE IF t.pending = {} /\ t.requested > 0
        THEN Then([t EXCEPT !.pending = Inputs(n)], ToInputs(n, "Request", 1))
        ELSE Then(t, << >>)

ZipCancel(n, s) == If(s.took, ToInputs(n, "Cancel", 0))

ZipError(n, s) ==
    IF s.finished THEN Then(s, << >>)
    ELSE Then([s EXCEPT !.finished = TRUE], ZipCancel(n, s) \o <<Signal(n, "OnError", 0)>>)

ZipEmit(n, s) ==
    LET row == [i \in Inputs(n) |-> (CHOOSE b \in s.buffer : b[1] = i)[2]]
    IN  Then([s EXCEPT !.buffer = {}],
             <<Signal(n, "OnNext", Tuple(row)), Call(n, IF s.done = {} THEN "afterOnNext" ELSE "close", 0)>>)

ZipSubscriber(n, f, s) ==
    LET Buffered == {b[1] : b \in s.buffer}
    IN  CASE f.op = "OnNext" ->
                IF s.finished THEN Then(s, << >>)
                ELSE IF f.k \in Buffered \/ f.k \notin s.pending THEN ZipError(n, s)
                ELSE LET t == [s EXCEPT !.pending = @ \ {f.k}, !.buffer = @ \cup {<<f.k, f.a>>}]
                     IN  IF t.pending # {} THEN Then(t, << >>) ELSE ZipEmit(n, t)
          [] f.op = "afterOnNext" -> ZipRequest(n, [s EXCEPT !.requested = Decrement(@)], 0)
          [] f.op = "close" -> ZipSendOnComplete(n, s)
          [] f.op = "OnError" -> ZipError(n, s)
          [] f.op = "OnComplete" ->
                LET t == [s EXCEPT !.done = @ \cup {f.k}]
                IN  IF f.k \in Buffered THEN Then(t, << >>) ELSE ZipSendOnComplete(n, t)

ZipMethod(n, f, s) ==
    CASE f.op \in {"Subscribe", "afterSubscribe"} -> ZipSubscribe(n, f, s)
      [] f.op = "Request" -> ZipRequest(n, s, f.a)
      [] f.op = "Cancel" -> Then([s EXCEPT !.finished = TRUE], ZipCancel(n, s))
      [] OTHER -> ZipSubscriber(n, f, s)

\* The publisher IfEmpty appends to its source: empty is the flag that the Map
\* around the source, the first of its siblings, clears.
IfEmptyMethod(n, f, s) ==
    CASE f.op = "Subscribe" ->
            IF st[pipe[Parent(n)].up[2]].mem = 0
            THEN Then([s EXCEPT !.took = TRUE], <<Up(n, 1, "Subscribe", 0)>>)
            ELSE Then(s, <<Signal(n, "OnComplete", 0)>>)
      [] f.op \in {"Request", "Cancel"} -> Then(s, If(s.took, <<Up(n, 1, f.op, f.a)>>))
      [] f.op \in {"OnNext", "OnError", "OnComplete"} -> Then(s, <<Signal(n, f.op, f.a)>>)

-----------------------------------------------------------------------------
\* The members of each class as its constructor leaves them.
InitialState(p, n) ==
    CASE p[n].kind \in {"From", "Start", "Throw"} -> [at |-> 0, out |-> 0, cancelled |-> FALSE]
      [] p[n].kind = "Async" -> [at |-> 0, out |-> 0, on |-> FALSE, cancelled |-> FALSE, ended |-> FALSE]
      [] p[n].kind \in {"Map", "Filter"} -> [took |-> FALSE, failed |-> FALSE, mem |-> 0]
      [] p[n].kind = "Take" -> [took |-> FALSE, cancelled |-> FALSE, count |-> p[n].cb.k]
      [] p[n].kind = "TakeWhile" -> [took |-> FALSE, cancelled |-> FALSE]
      [] p[n].kind = "IfEmpty" -> [took |-> FALSE]
      [] p[n].kind = "Reduce" ->
            [took |-> FALSE, failed |-> FALSE, requested |-> FALSE, complete |-> FALSE,
             emit |-> FALSE, acc |-> Initial(p[n].cb.p)]
      [] p[n].kind = "Catch" -> [took |-> FALSE, caught |-> FALSE, cancelled |-> FALSE, requested |-> 0]
      [] p[n].kind = "ConcatMap" ->
            [failed |-> FALSE, pubsDone |-> FALSE, requested |-> 0, toBe |-> 0, cur |-> 0, held |-> 0]
      [] p[n].kind = "Merge" ->
            [subs |-> 0, remaining |-> Len(p[n].up), finished |-> FALSE, being |-> 0,
             outstanding |-> 0, buffer |-> << >>, owed |-> [i \in DOMAIN p[n].up |-> 0]]
      [] p[n].kind = "Zip" ->
            [took |-> FALSE, finished |-> FALSE, requested |-> 0, pending |-> {}, buffer |-> {}, done |-> {}]

\* The subscriber: what it has been sent, the total it has asked for and the
\* number of times it did; ready once Subscribe has given it the subscription.
Init ==
    /\ pipe \in Trees
    /\ st = [n \in DOMAIN pipe |-> InitialState(pipe, n)]
    /\ stack = <<Call(1, "Subscribe", 0), Call(0, "afterSubscribe", 0)>>
    /\ sub = [got |-> << >>, asked |-> 0, calls |-> 0, ready |-> FALSE, cancelled |-> FALSE]

\* One method of the node on top of the stack, up to the calls it makes.
Run(kind, Method(_, _, _)) ==
    /\ stack # << >>
    /\ LET f == Head(stack)
       IN  /\ f.n # 0
           /\ pipe[f.n].kind = kind
           /\ LET r == Method(f.n, f, st[f.n])
              IN  /\ st' = [st EXCEPT ![f.n] = r.s]
                  /\ stack' = r.calls \o Tail(stack)
    /\ UNCHANGED <<pipe, sub>>

FromStep      == Run("From", FromMethod)
StartStep     == Run("Start", StartMethod)
ThrowStep     == Run("Throw", ThrowMethod)
AsyncStep     == Run("Async", AsyncMethod)
MapStep       == Run("Map", MapMethod)
FilterStep    == Run("Filter", FilterMethod)
TakeStep      == Run("Take", TakeMethod)
TakeWhileStep == Run("TakeWhile", TakeWhileMethod)
ReduceStep    == Run("Reduce", ReduceMethod)
CatchStep     == Run("Catch", CatchMethod)
ConcatMapStep == Run("ConcatMap", ConcatMapMethod)
MergeStep     == Run("Merge", MergeMethod)
ZipStep       == Run("Zip", ZipMethod)
IfEmptyStep   == Run("IfEmpty", IfEmptyMethod)

-----------------------------------------------------------------------------
\* The subscriber.  From within OnNext it may call Request or Cancel itself.

Ended == \E i \in DOMAIN sub.got : sub.got[i].op # "OnNext"

CanCall == sub.ready /\ ~Ended /\ ~sub.cancelled

RequestMore(k) == [sub EXCEPT !.asked = ElementCountAdd(@, k), !.calls = @ + 1]

SubscriberSubscribed ==
    /\ stack # << >> /\ Head(stack).n = 0 /\ Head(stack).op = "afterSubscribe"
    /\ sub' = [sub EXCEPT !.ready = TRUE]
    /\ stack' = Tail(stack)
    /\ UNCHANGED <<pipe, st>>

Received == Append(sub.got, [op |-> Head(stack).op, a |-> Head(stack).a])

SubscriberOnNext ==
    /\ stack # << >> /\ Head(stack).n = 0 /\ Head(stack).op = "OnNext"
    /\ \/ /\ sub' = [sub EXCEPT !.got = Received]
          /\ stack' = Tail(stack)
       \/ /\ CanCall /\ sub.calls < MaxCalls
          /\ \E k \in Requests :
                /\ sub' = [RequestMore(k) EXCEPT !.got = Received]
                /\ stack' = <<Call(1, "Request", k)>> \o Tail(stack)
       \/ /\ CanCall
          /\ sub' = [sub EXCEPT !.got = Received, !.cancelled = TRUE]
          /\ stack' = <<Call(1, "Cancel", 0)>> \o Tail(stack)
    /\ UNCHANGED <<pipe, st>>

SubscriberOnEnd ==
    /\ stack # << >> /\ Head(stack).n = 0 /\ Head(stack).op \in {"OnError", "OnComplete"}
    /\ sub' = [sub EXCEPT !.got = Received]
    /\ stack' = Tail(stack)
    /\ UNCHANGED <<pipe, st>>

SubscriberRequests ==
    /\ stack = << >> /\ CanCall /\ sub.calls < MaxCalls
    /\ \E k \in Requests :
          /\ sub' = RequestMore(k)
          /\ stack' = <<Call(1, "Request", k)>>
    /\ UNCHANGED <<pipe, st>>

SubscriberCancels ==
    /\ stack = << >> /\ CanCall
    /\ sub' = [sub EXCEPT !.cancelled = TRUE]
    /\ stack' = <<Call(1, "Cancel", 0)>>
    /\ UNCHANGED <<pipe, st>>

-----------------------------------------------------------------------------
\* The application's asynchronous publishers.  They keep the rules themselves:
\* no element that was not asked for, one end, and nothing long after Cancel.

IsAsync(n) == pipe[n].kind = "Async"

Live(n) == IsAsync(n) /\ st[n].on /\ ~st[n].ended

AsyncNext(n) ==
    /\ stack = << >> /\ Live(n) /\ st[n].out > 0 /\ st[n].at < Len(pipe[n].cb.vals)
    /\ st' = [st EXCEPT ![n].at = @ + 1, ![n].out = Decrement(@)]
    /\ stack' = <<Signal(n, "OnNext", pipe[n].cb.vals[st[n].at + 1])>>
    /\ UNCHANGED <<pipe, sub>>

AsyncEnd(n) ==
    /\ stack = << >> /\ Live(n) /\ st[n].at = Len(pipe[n].cb.vals)
    /\ st' = [st EXCEPT ![n].ended = TRUE]
    /\ stack' = <<Signal(n, pipe[n].cb.end, 0)>>
    /\ UNCHANGED <<pipe, sub>>

AsyncStop(n) ==
    /\ stack = << >> /\ Live(n) /\ st[n].cancelled
    /\ st' = [st EXCEPT ![n].ended = TRUE]
    /\ UNCHANGED <<pipe, stack, sub>>

Method ==
    \/ FromStep \/ StartStep \/ ThrowStep \/ AsyncStep \/ MapStep \/ FilterStep \/ TakeStep
    \/ TakeWhileStep \/ ReduceStep \/ CatchStep \/ ConcatMapStep \/ MergeStep \/ ZipStep
    \/ IfEmptyStep \/ SubscriberSubscribed \/ SubscriberOnNext \/ SubscriberOnEnd

AsyncSignal(n) == AsyncNext(n) \/ AsyncEnd(n)

Next ==
    \/ Method \/ SubscriberRequests \/ SubscriberCancels
    \/ \E n \in DOMAIN pipe : AsyncNext(n) \/ AsyncEnd(n) \/ AsyncStop(n)

\* A method that was called returns; a publisher that may send a signal does.
\* Nothing makes the subscriber ask for more or cancel.
MaxNodes == 12

Fairness == WF_vars(Method) /\ \A n \in 1..MaxNodes : WF_vars(n \in DOMAIN pipe /\ AsyncSignal(n))

Spec == Init /\ [][Next]_vars /\ Fairness
=============================================================================
