----------------------------- MODULE Pipelines ------------------------------
(***************************************************************************)
(* Publishers of the rs library as trees of operators.  A pipeline is a    *)
(* sequence of nodes, node 1 being the publisher the program subscribes    *)
(* to; a node names its kind (the class that implements it), the callback  *)
(* it was built with, and the publishers it subscribes to, in order.       *)
(*                                                                         *)
(* The operators the library builds from others (Concat, Some, First, ...) *)
(* are built here from the same others.                                    *)
(***************************************************************************)
EXTENDS Integers, Sequences

LOCAL SE == INSTANCE SequencesExt

\* The element on which every mapper, predicate and reducer throws.
Bad == 0

\* The accumulator of ReduceWithoutInitial before the first element.
NoValue == -1

Node(kind, cb, up) == [kind |-> kind, cb |-> cb, up |-> up]

Shifted(p, d) == [i \in DOMAIN p |-> [p[i] EXCEPT !.up = [j \in DOMAIN @ |-> @[j] + d]]]

\* A node of the given kind whose inputs are the pipelines kids.
Over(kind, cb, kids) ==
    LET Join(acc, kid) == [up    |-> Append(acc.up, Len(acc.nodes) + 2),
                           nodes |-> acc.nodes \o Shifted(kid, Len(acc.nodes) + 1)]
        all == SE!FoldLeft(Join, [up |-> << >>, nodes |-> << >>], kids)
    IN  <<Node(kind, cb, all.up)>> \o all.nodes

-----------------------------------------------------------------------------
\* Sources.

From(vals)  == <<Node("From", [vals |-> vals], << >>)>>
Start(vals) == <<Node("Start", [vals |-> vals], << >>)>>
Throw       == <<Node("Throw", [vals |-> << >>], << >>)>>

\* A publisher of the application: it emits vals and then ends, in its own time.
Async(vals, end) == <<Node("Async", [vals |-> vals, end |-> end], << >>)>>

Just(vals)      == Start(vals)
Empty           == From(<< >>)
Range(b, count) == From([i \in 1..count |-> b + i - 1])
Repeat(v, count) == From([i \in 1..count |-> v])

-----------------------------------------------------------------------------
\* Operators on one stream.

Map(p, src)       == Over("Map", [p |-> p], <<src>>)
Filter(p, k, src) == Over("Filter", [p |-> p, k |-> k], <<src>>)
Take(k, src)      == Over("Take", [k |-> k], <<src>>)
TakeWhile(src)    == Over("TakeWhile", [k |-> 0], <<src>>)
Reduce(p, src)    == Over("Reduce", [p |-> p], <<src>>)
Catch(src, rescue) == Over("Catch", [k |-> 0], <<src, rescue>>)

Scan(src)      == Map("scan", src)
Skip(k, src)   == Filter("skip", k, src)
SkipWhile(src) == Filter("skipWhile", 0, src)
SumOf(src)     == Reduce("sum", src)
CountOf(src)   == Reduce("count", src)
IsEmpty(src)   == Reduce("isEmpty", src)
ReduceWithoutInitial(p, src) == Map("present", Reduce(p, src))
LastOf(src)    == ReduceWithoutInitial("last", src)
MaxOf(src)     == ReduceWithoutInitial("max", src)
MinOf(src)     == ReduceWithoutInitial("min", src)
Some(src)      == Reduce("some", Take(1, Filter("odd", 0, src)))
All(src)       == Reduce("all", Take(1, Filter("notOdd", 0, src)))

-----------------------------------------------------------------------------
\* Operators on several streams.

Merge(kids) == Over("Merge", [k |-> 0], kids)
Zip(kids)   == Over("Zip", [k |-> 0], kids)

\* The mapper turns the element v of src into the v-th of the publishers kids.
ConcatMap(src, kids) == Over("ConcatMap", [k |-> 0], <<src>> \o kids)

Concat(kids) == ConcatMap(Just([i \in DOMAIN kids |-> i]), kids)

\* The second input is subscribed to when the first has ended; it consults the
\* flag that the Map around the source cleared.
IfEmpty(pub, src) ==
    Concat(<<Map("sawElement", src), Over("IfEmpty", [k |-> 0], <<pub>>)>>)

DefaultIfEmpty(vals, src) == IfEmpty(Just(vals), src)
First(src)                == IfEmpty(Throw, Take(1, src))
ElementAt(k, src)         == First(Filter("at", k, Take(k + 1, src)))
StartWith(vals, src)      == Concat(<<Just(vals), src>>)
EndWith(vals, src)        == Concat(<<src, Just(vals)>>)
AppendTo(pub, src)        == Concat(<<src, pub>>)
Prepend(pub, src)         == Concat(<<pub, src>>)
=============================================================================
