----------------------------- MODULE MCStreams ------------------------------
(***************************************************************************)
(* Every operator, over sources that answer at once and sources that       *)
(* answer in their own time, with elements on which the callbacks throw    *)
(* and with sources that fail, before or after a callback has thrown.      *)
(* Left out are the combinations for which a rule does not hold: see       *)
(* StreamRules and the README.                                             *)
(***************************************************************************)
EXTENDS StreamRules

OneStream ==
    UNION {{src, Map("plus10", src), Scan(src), Filter("odd", 0, src), Skip(1, src), SkipWhile(src),
            Take(0, src), Take(2, src), TakeWhile(src), SumOf(src), CountOf(src),
            IsEmpty(src), LastOf(src), MaxOf(src), MinOf(src), Some(src), All(src),
            Catch(Map("plus10", src), Just(<<7>>)), DefaultIfEmpty(<<9>>, src), First(src),
            ElementAt(1, src), StartWith(<<9>>, src), EndWith(<<9>>, src)}
             : src \in {Range(1, 3), Start(<<2, Bad, 3>>), Async(<<2, 1, 3>>, "OnComplete"),
                        Async(<<1, Bad>>, "OnComplete"), Async(<<1, 2>>, "OnError"),
                        Async(<<1, Bad>>, "OnError")}}

Sources == {From(<<1, 2>>), Start(<<3>>), Empty, Throw,
            Async(<<4, 5>>, "OnComplete"), Async(<<6>>, "OnError"), Async(<< >>, "OnComplete")}

\* The last of these has at most one element.
Short == {Just(<<3>>), Empty, Throw, Async(<<6>>, "OnComplete")}

Following ==
    UNION {{AppendTo(b, a), Prepend(b, a), IfEmpty(b, a), Take(2, Concat(<<a, b>>)), Scan(Concat(<<b, Repeat(2, 2), a>>))}
             : a \in Sources, b \in Sources}

Rescued == {Catch(a, b) : a \in Sources, b \in Short}

Merged == {Merge(<< >>), Merge(<<Async(<<4>>, "OnComplete")>>), Merge(<<Empty, Empty>>)}
          \cup {Merge(<<a, b>>) : a \in {Async(<<4>>, "OnComplete"), Async(<<6>>, "OnError"), Throw},
                                 b \in {Async(<<6>>, "OnComplete"), Async(<<5>>, "OnError"), Throw}}

Zipped == {Zip(<<a, b>>) : a \in {From(<<1, 2>>), Throw, Empty, Start(<<3, 4, 5>>)}, b \in Sources \ {Async(<<4, 5>>, "OnComplete")}}

Chosen == {ConcatMap(Start(<<2, 1>>), <<From(<<1, 2>>), Async(<<4>>, "OnComplete")>>),
           ConcatMap(Start(<<1, Bad>>), <<From(<<1, 2>>), Async(<<4>>, "OnComplete")>>),
           ConcatMap(Async(<<Bad>>, "OnError"), <<From(<<1, 2>>)>>)}

\* Two inputs with two elements each.
MergedFurther == {Merge(<<From(<<1, 2>>), From(<<3, 4>>)>>),
                  Merge(<<Async(<<1, 2>>, "OnComplete"), Async(<<3, 4>>, "OnComplete")>>)}

MCTrees == OneStream \cup Following \cup Rescued \cup Merged \cup Zipped \cup Chosen
=============================================================================
