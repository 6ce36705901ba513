------------------------------ MODULE ListFolds ------------------------------
(***************************************************************************)
(* Going through a list one element at a time, as the loops of a parser, a *)
(* writer or a filter do, and what holds after such a loop.  The lemmas    *)
(* take induction over the numbers as a hypothesis, which the modules that *)
(* use them prove last: what it rests on slows the provers down.           *)
(***************************************************************************)
EXTENDS Integers, Sequences, TLAPS

CONSTANT Step(_, _, _)   \* the body of the loop: a parameter, what there was, an element

\* What there is after the loop over s.
Folded(param, base, s) ==
  LET upTo[i \in 0..Len(s)] == IF i = 0 THEN base ELSE Step(param, upTo[i - 1], s[i])
  IN  upTo[Len(s)]

-----------------------------------------------------------------------------
\* Induction over the natural numbers.
Induction == \A S : 0 \in S /\ (\A n \in Nat : n \in S => n + 1 \in S) => Nat \subseteq S

\* Induction up to a bound, as along the positions of a sequence.
LEMMA BoundedInduction ==
  ASSUME Induction, NEW n \in Nat, NEW S, 0 \in S, \A i \in 1..n : i - 1 \in S => i \in S
  PROVE  0..n \subseteq S
<1> DEFINE T == {i \in Nat : i <= n => i \in S}
<1>1. 0 \in T
  OBVIOUS
<1>2. ASSUME NEW i \in Nat, i \in T PROVE i + 1 \in T
  <2> SUFFICES ASSUME i + 1 <= n PROVE i + 1 \in S
    OBVIOUS
  <2>1. i \in S /\ i + 1 \in 1..n /\ (i + 1) - 1 = i
    BY <1>2
  <2> QED BY <2>1
<1>3. Nat \subseteq T
  <2> HIDE DEF T
  <2> QED BY <1>1, <1>2 DEF Induction
<1> QED BY <1>3

\* Induction over the lists of elements of D.
LEMMA ListInduction ==
  ASSUME Induction, NEW D, NEW S, <<>> \in S,
         \A s \in Seq(D), e \in D : s \in S => Append(s, e) \in S
  PROVE  Seq(D) \subseteq S
<1> DEFINE T == {n \in Nat : \A s \in Seq(D) : Len(s) = n => s \in S}
<1>1. 0 \in T
  OBVIOUS
<1>2. ASSUME NEW n \in Nat, n \in T PROVE n + 1 \in T
  <2> SUFFICES ASSUME NEW s \in Seq(D), Len(s) = n + 1 PROVE s \in S
    OBVIOUS
  <2> DEFINE t == [i \in 1..n |-> s[i]]
  <2>1. t \in Seq(D) /\ Len(t) = n /\ s[n + 1] \in D
    OBVIOUS
  <2>2. Append(t, s[n + 1]) = s
    <3>1. Append(t, s[n + 1]) \in Seq(D) /\ Len(Append(t, s[n + 1])) = n + 1
      BY <2>1
    <3>2. \A i \in 1..(n + 1) : Append(t, s[n + 1])[i] = s[i]
      BY <2>1
    <3> HIDE DEF t
    <3> QED BY <3>1, <3>2
  <2>3. t \in S
    BY <1>2, <2>1
  <2> HIDE DEF t
  <2> QED BY <2>1, <2>2, <2>3
<1>3. Nat \subseteq T
  <2> HIDE DEF T
  <2> QED BY <1>1, <1>2 DEF Induction
<1> QED BY <1>3

\* The recursion of Folded, and the functions that obey it.
Obeys(g, param, base, s) ==
  /\ DOMAIN g = 0..Len(s)
  /\ g = [i \in 0..Len(s) |-> IF i = 0 THEN base ELSE Step(param, g[i - 1], s[i])]

\* There is such a function for every list.
LEMMA FoldExists ==
  ASSUME Induction, NEW D, NEW s \in Seq(D), NEW param, NEW base
  PROVE  \E g : Obeys(g, param, base, s)
<1> DEFINE S == {t \in Seq(D) : \E g : Obeys(g, param, base, t)}
<1>1. <<>> \in S
  <2> DEFINE g == [i \in 0..0 |-> base]
  <2>1. Obeys(g, param, base, <<>>)
    BY DEF Obeys
  <2> HIDE DEF g
  <2> QED BY <2>1
<1>2. ASSUME NEW t \in Seq(D), NEW e \in D, t \in S PROVE Append(t, e) \in S
  <2>1. PICK g : Obeys(g, param, base, t)
    BY <1>2
  <2> DEFINE n == Len(t) + 1
             u == Append(t, e)
             h == [i \in 0..n |-> IF i = n THEN Step(param, g[Len(t)], e) ELSE g[i]]
  <2>2. u \in Seq(D) /\ Len(u) = n /\ u[n] = e /\ \A i \in 1..Len(t) : u[i] = t[i]
    OBVIOUS
  <2>3. \A i \in 0..Len(t) : g[i] = IF i = 0 THEN base ELSE Step(param, g[i - 1], t[i])
    BY <2>1 DEF Obeys
  <2>4. \A i \in 0..n : h[i] = IF i = 0 THEN base ELSE Step(param, h[i - 1], u[i])
    <3> HIDE DEF u
    <3> SUFFICES ASSUME NEW i \in 0..n
                 PROVE  h[i] = IF i = 0 THEN base ELSE Step(param, h[i - 1], u[i])
      OBVIOUS
    <3>1. CASE i = 0
      BY <2>3, <3>1
    <3>2. CASE i = n
      <4>1. h[i] = Step(param, g[Len(t)], e) /\ h[i - 1] = g[Len(t)] /\ i # 0
        BY <3>2
      <4> QED BY <2>2, <3>2, <4>1
    <3>3. CASE i \in 1..Len(t)
      <4>1. h[i] = g[i] /\ h[i - 1] = g[i - 1] /\ i # 0 /\ i \in 0..Len(t)
        BY <3>3
      <4> QED BY <2>2, <2>3, <3>3, <4>1
    <3> QED BY <3>1, <3>2, <3>3
  <2>5. DOMAIN h = 0..Len(u) /\ h = [i \in 0..n |-> h[i]]
    BY <2>2
  <2> HIDE DEF h, u
  <2>6. Obeys(h, param, base, u)
    BY <2>2, <2>4, <2>5 DEF Obeys
  <2> QED BY <2>2, <2>6 DEF u
<1>3. Seq(D) \subseteq S
  <2> HIDE DEF S
  <2> QED BY <1>1, <1>2, ListInduction
<1> QED BY <1>3

\* Folded is the end of such a function, if there is one.
LEMMA FoldObeys ==
  ASSUME NEW s, NEW param, NEW base, \E g : Obeys(g, param, base, s)
  PROVE  \E g : Obeys(g, param, base, s) /\ Folded(param, base, s) = g[Len(s)]
<1> DEFINE Upto(g) == [i \in 0..Len(s) |-> IF i = 0 THEN base ELSE Step(param, g[i - 1], s[i])]
           f == CHOOSE g : g = Upto(g)
<1>1. PICK g : Obeys(g, param, base, s)
  OBVIOUS
<1>2. g = Upto(g)
  BY <1>1 DEF Obeys
<1>3. f = Upto(f)
  <2> HIDE DEF Upto
  <2> QED BY <1>2
<1>4. DOMAIN f = 0..Len(s)
  <2>1. DOMAIN Upto(f) = 0..Len(s)
    OBVIOUS
  <2> HIDE DEF Upto, f
  <2> QED BY <1>3, <2>1
<1>5. Folded(param, base, s) = f[Len(s)]
  BY DEF Folded
<1> HIDE DEF f
<1>6. Obeys(f, param, base, s)
  BY <1>3, <1>4 DEF Obeys
<1> QED BY <1>5, <1>6

\* The loop over nothing.
LEMMA FoldedEmpty ==
  ASSUME NEW param, NEW base
  PROVE  Folded(param, base, <<>>) = base
<1> DEFINE none == <<>>
           only == [i \in 0..0 |-> base]
<1>1. Len(none) = 0
  OBVIOUS
<1>2. Obeys(only, param, base, none)
  BY DEF Obeys
<1> HIDE DEF none, only
<1>3. PICK g : Obeys(g, param, base, none) /\ Folded(param, base, none) = g[Len(none)]
  BY <1>2, FoldObeys
<1>4. g[0] = base
  BY <1>1, <1>3 DEF Obeys
<1> QED BY <1>1, <1>3, <1>4 DEF none

\* The loop over one element more.
LEMMA FoldedAppend ==
  ASSUME Induction, NEW D, NEW s \in Seq(D), NEW e \in D, NEW param, NEW base
  PROVE  Folded(param, base, Append(s, e)) = Step(param, Folded(param, base, s), e)
<1> DEFINE u == Append(s, e)
           n == Len(s)
<1>1. u \in Seq(D) /\ Len(u) = n + 1 /\ u[n + 1] = e /\ n \in Nat
      /\ \A i \in 1..n : u[i] = s[i]
  OBVIOUS
<1> HIDE DEF u
<1>2. PICK g : Obeys(g, param, base, s) /\ Folded(param, base, s) = g[n]
  BY FoldExists, FoldObeys
<1>3. PICK h : Obeys(h, param, base, u) /\ Folded(param, base, u) = h[n + 1]
  BY <1>1, FoldExists, FoldObeys
<1>4. \A i \in 0..n : g[i] = IF i = 0 THEN base ELSE Step(param, g[i - 1], s[i])
  BY <1>2 DEF Obeys
<1>5. \A i \in 0..(n + 1) : h[i] = IF i = 0 THEN base ELSE Step(param, h[i - 1], u[i])
  BY <1>1, <1>3 DEF Obeys
<1> DEFINE T == {i \in 0..n : h[i] = g[i]}
<1>6. 0 \in T
  BY <1>1, <1>4, <1>5
<1>7. ASSUME NEW i \in 1..n, i - 1 \in T PROVE i \in T
  <2>1. i \in 0..n /\ i \in 0..(n + 1) /\ i # 0 /\ h[i - 1] = g[i - 1] /\ u[i] = s[i]
    BY <1>1, <1>7
  <2>2. h[i] = Step(param, h[i - 1], u[i]) /\ g[i] = Step(param, g[i - 1], s[i])
    BY <1>4, <1>5, <2>1
  <2> QED BY <2>1, <2>2
<1>8. n \in T
  <2> HIDE DEF T, n
  <2>1. 0..n \subseteq T
    BY <1>1, <1>6, <1>7, BoundedInduction
  <2> QED BY <1>1, <2>1
<1>9. h[n + 1] = Step(param, h[n], u[n + 1])
  BY <1>1, <1>5
<1>10. h[n + 1] = Step(param, g[n], e)
  BY <1>1, <1>8, <1>9
<1> QED BY <1>2, <1>3, <1>10 DEF u
=============================================================================
