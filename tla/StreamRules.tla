---------------------------- MODULE StreamRules -----------------------------
(***************************************************************************)
(* What rs/doc/specification.md asks of every publisher, and what each     *)
(* operator's result should be, stated of the pipelines of Streams.        *)
(***************************************************************************)
EXTENDS Streams

LOCAL SX == INSTANCE SequencesExt

LOCAL FX == INSTANCE FiniteSetsExt

-----------------------------------------------------------------------------
\* The reference: a publisher as the set of results it may have, a result
\* being the elements it delivers and the signal it ends with.

Result(vals, end) == [vals |-> vals, end |-> end]

Completes(vals) == Result(vals, "OnComplete")

Fails(vals) == Result(vals, "OnError")

\* The elements before the first on which a callback throws, and whether one does.
UpTo(vals, Stops(_)) ==
    LET bad == {i \in DOMAIN vals : Stops(vals[i])}
    IN  IF bad = {} THEN vals ELSE SubSeq(vals, 1, FX!Min(bad) - 1)

Mappings(p, vals) ==
    [i \in DOMAIN vals |->
        IF p = "scan" THEN SX!FoldLeft(LAMBDA a, v : a + v, 0, SubSeq(vals, 1, i))
        ELSE IF p = "plus10" THEN vals[i] + 10 ELSE vals[i]]

MapResult(p, r) ==
    LET good == UpTo(r.vals, LAMBDA v : MapperThrows(p, v))
    IN  IF good = r.vals THEN Result(Mappings(p, good), r.end) ELSE Fails(Mappings(p, good))

Kept(cb, vals) ==
    CASE cb.p = "skip"      -> SubSeq(vals, cb.k + 1, Len(vals))
      [] cb.p = "at"        -> SubSeq(vals, cb.k + 1, Len(vals))
      [] cb.p = "odd"       -> SelectSeq(vals, LAMBDA v : v % 2 = 1)
      [] cb.p = "notOdd"    -> SelectSeq(vals, LAMBDA v : v % 2 = 0)
      [] cb.p = "skipWhile" -> SubSeq(vals, Len(UpTo(vals, LAMBDA v : v >= 2)) + 1, Len(vals))

\* skipWhile's predicate is not called again once it has been false.
FilterResult(cb, r) ==
    LET asked == IF cb.p = "skipWhile" THEN UpTo(r.vals, LAMBDA v : v >= 2) ELSE r.vals
        good  == UpTo(asked, LAMBDA v : Throws(v) /\ cb.p \notin {"skip", "at"})
    IN  IF good = asked THEN Result(Kept(cb, r.vals), r.end) ELSE Fails(Kept(cb, good))

TakeResult(k, r) == IF k <= Len(r.vals) THEN Completes(SubSeq(r.vals, 1, k)) ELSE r

TakeWhileResult(r) ==
    LET taken == UpTo(r.vals, LAMBDA v : Throws(v) \/ v >= 3)
    IN  IF taken = r.vals THEN r
        ELSE IF Throws(r.vals[Len(taken) + 1]) THEN Fails(taken) ELSE Completes(taken)

\* What the reducer makes of all elements, each by its own definition.
Accumulated(p, vals) ==
    LET elements == {vals[i] : i \in DOMAIN vals}
    IN  CASE p = "sum"     -> SX!FoldLeft(LAMBDA a, v : a + v, 0, vals)
          [] p = "count"   -> Len(vals)
          [] p = "some"    -> IF vals = << >> THEN 0 ELSE 1
          [] p = "isEmpty" -> IF vals = << >> THEN 1 ELSE 0
          [] p = "all"     -> IF vals = << >> THEN 1 ELSE 0
          [] p = "last"    -> IF vals = << >> THEN NoValue ELSE vals[Len(vals)]
          [] p = "max"     -> IF vals = << >> THEN NoValue ELSE FX!Max(elements)
          [] p = "min"     -> IF vals = << >> THEN NoValue ELSE FX!Min(elements)

ReduceResult(p, r) ==
    IF r.end = "OnError" \/ \E i \in DOMAIN r.vals : ReducerThrows(p, r.vals[i])
    THEN Fails(<< >>) ELSE Completes(<<Accumulated(p, r.vals)>>)

\* The results of one after the other.
After(r, rest) == IF r.end = "OnError" THEN r ELSE Result(r.vals \o rest.vals, rest.end)

\* All ways to interleave the elements of the results rs.
Interleavings(rs) ==
    LET total == SX!FoldLeft(LAMBDA a, r : a + Len(r.vals), 0, rs)
        \* which result the i-th element is from
        Orders == {o \in [1..total -> DOMAIN rs] :
                     \A k \in DOMAIN rs : Cardinality({i \in 1..total : o[i] = k}) = Len(rs[k].vals)}
        Nth(o, i) == Cardinality({j \in 1..i : o[j] = o[i]})
    IN  {[i \in 1..total |-> rs[o[i]].vals[Nth(o, i)]] : o \in Orders}

Prefixes(s) == {SubSeq(s, 1, i) : i \in 0..Len(s)}

MergeResults(rs) ==
    IF \A k \in DOMAIN rs : rs[k].end = "OnComplete"
    THEN {Completes(s) : s \in Interleavings(rs)}
    ELSE {Fails(s) : s \in UNION {Prefixes(t) : t \in Interleavings(rs)}}

ZipResults(rs) ==
    LET len  == FX!Min({Len(rs[k].vals) : k \in DOMAIN rs})
        rows == [i \in 1..len |-> Tuple([k \in DOMAIN rs |-> rs[k].vals[i]])]
    IN  IF \A k \in DOMAIN rs : rs[k].end = "OnComplete"
        THEN {Completes(rows)}
        ELSE {Completes(rows)} \cup {Fails(s) : s \in Prefixes(rows)}

\* Every way to choose one result of each input.
Choices(results, inputs) ==
    {c \in [DOMAIN inputs -> UNION {results[inputs[k]] : k \in DOMAIN inputs}] :
        \A k \in DOMAIN inputs : c[k] \in results[inputs[k]]}

\* Input 1 yields the numbers of the other inputs, whose results follow each
\* other; the publisher of IfEmpty counts only if the source had no element.
ConcatMapResult(p, n, c) ==
    LET Part(i) == IF p[p[n].up[i + 1]].kind = "IfEmpty" /\ c[2].vals # << >>
                   THEN Completes(<< >>) ELSE c[i + 1]
        Step(acc, i) == IF i = Bad THEN After(acc, Fails(<< >>)) ELSE After(acc, Part(i))
    IN  After(SX!FoldLeft(Step, Completes(<< >>), c[1].vals), Result(<< >>, c[1].end))

Results(p) ==
    LET R[n \in DOMAIN p] ==
            LET cb == p[n].cb
                in == p[n].up
                kind == p[n].kind
            IN  CASE kind \in {"From", "Start"} -> {Completes(cb.vals)}
                  [] kind = "Throw" -> {Fails(<< >>)}
                  [] kind = "Async" -> {Result(cb.vals, cb.end)}
                  [] kind = "Map" -> {MapResult(cb.p, r) : r \in R[in[1]]}
                  [] kind = "Filter" -> {FilterResult(cb, r) : r \in R[in[1]]}
                  [] kind = "Take" -> {TakeResult(cb.k, r) : r \in R[in[1]]}
                  [] kind = "TakeWhile" -> {TakeWhileResult(r) : r \in R[in[1]]}
                  [] kind = "Reduce" -> {ReduceResult(cb.p, r) : r \in R[in[1]]}
                  [] kind = "IfEmpty" -> R[in[1]]
                  [] kind = "Catch" ->
                        UNION {IF r.end = "OnComplete" THEN {r}
                               ELSE {After(Completes(r.vals), t) : t \in R[in[2]]} : r \in R[in[1]]}
                  [] kind = "ConcatMap" -> {ConcatMapResult(p, n, c) : c \in Choices(R, in)}
                  [] kind = "Merge" -> UNION {MergeResults(c) : c \in Choices(R, in)}
                  [] kind = "Zip" -> UNION {ZipResults(c) : c \in Choices(R, in)}
    IN  R[1]

Expected == [p \in Trees |-> Results(p)]

-----------------------------------------------------------------------------
Delivered == LET values == SelectSeq(sub.got, LAMBDA g : g.op = "OnNext")
             IN  [i \in DOMAIN values |-> values[i].a]

\* Rule 1.1: a subscriber is never sent more elements than it has asked for,
\* whatever it calls from within OnNext and however the sources interleave.
DemandIsRespected == IsUnbounded(sub.asked) \/ Len(Delivered) <= sub.asked

\* OnError of these operators does not look at failed_, as that of Map and
\* Filter does: a callback of theirs has thrown and they have sent OnError.
HasFailed == \E n \in DOMAIN pipe : pipe[n].kind \in {"Reduce", "ConcatMap"} /\ st[n].failed



\* Rules 1.6 and 3.12: once the subscriber has cancelled or been sent the end,
\* and every call has returned, no source is still running uncancelled.
NoSourceIsLeftRunning ==
    stack = << >> /\ (Ended \/ sub.cancelled)
        => \A n \in DOMAIN pipe : Live(n) => st[n].cancelled

\* Rule 3.8: each element asked for arrives, or the stream ends, unless the
\* subscriber cancels; no operator may forget demand or wait for more of it.
DemandIsMet ==
    \A k \in 1..MaxValue :
        sub.asked >= k /\ ~sub.cancelled ~> Len(Delivered) >= k \/ Ended \/ sub.cancelled
=============================================================================
