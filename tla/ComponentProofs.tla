-------------------------- MODULE ComponentProofs --------------------------
(***************************************************************************)
(* Proofs about components that stand on their own.                        *)
(*                                                                         *)
(* The demand counter of the rs library, for every width: it never leaves  *)
(* its range, it is exact wherever the exact result can be represented,    *)
(* unbounded demand stays unbounded, and asking for more never lowers what *)
(* is outstanding.                                                         *)
(*                                                                         *)
(* Weak references and the Optionals that hold their referees, for any set *)
(* of addresses and for both ways in which a type can be assigned.         *)
(*                                                                         *)
(* FileLock, for any processes and files.                                  *)
(*                                                                         *)
(* Fingerprints, for any files, times and numbers of runs, on the          *)
(* assumption that no file is written in the rest of the second in which a *)
(* run of shk ends.                                                        *)
(***************************************************************************)
EXTENDS Optionals, ElementCount, FileLock, Fingerprints, TLAPS

\* Zenon proves the steps that name no other prover.
USE Zenon

\* operator+= returns a value of the counter or throws std::range_error; no
\* pair of counts overflows.
THEOREM AddIsClosed ==
    ASSUME NEW a \in Count, NEW b \in Count
    PROVE  ElementCountAdd(a, b) \in Count \cup {RangeError}
BY SMT, MaxValueAssumption DEF ElementCountAdd, Count, MinValue, RangeError

\* operator-= likewise.
THEOREM SubtractIsClosed ==
    ASSUME NEW a \in Count, NEW b \in Count
    PROVE  ElementCountSubtract(a, b) \in Count \cup {RangeError}
BY SMT, MaxValueAssumption DEF ElementCountSubtract, Count, MinValue, RangeError

\* A sum of bounded counts that fits below Unbounded is the exact sum.
THEOREM AddIsExact ==
    ASSUME NEW a \in Count, NEW b \in Count, ~IsUnbounded(a), a + b \in Count
    PROVE  ElementCountAdd(a, b) = a + b
BY SMT, MaxValueAssumption DEF ElementCountAdd, Count, MinValue, IsUnbounded, Unbounded, RangeError

\* Unbounded demand absorbs whatever is added, taken or delivered.
THEOREM UnboundedStays ==
    ASSUME NEW b \in Count
    PROVE  /\ ElementCountAdd(Unbounded, b) = Unbounded
           /\ b > 0 => ElementCountSubtract(Unbounded, b) = Unbounded
           /\ Decrement(Unbounded) = Unbounded
           /\ Increment(Unbounded) = Unbounded
BY SMT, MaxValueAssumption
   DEF ElementCountAdd, ElementCountSubtract, Decrement, Increment, IsUnbounded, Unbounded,
       Count, MinValue, RangeError

\* Request never lowers the demand, and never raises a bounded demand beyond
\* what was asked for.
THEOREM RequestIsMonotone ==
    ASSUME NEW a \in Count, NEW b \in Count, b >= 0
    PROVE  /\ ElementCountAdd(a, b) >= a
           /\ ElementCountAdd(a, b) <= a + b
BY SMT, MaxValueAssumption DEF ElementCountAdd, Count, MinValue, RangeError

\* A counter that was asked for b and then delivered b elements, or gave b
\* back, is where it was unless the sum was clamped to Unbounded.
THEOREM SubtractUndoesAdd ==
    ASSUME NEW a \in Count, NEW b \in Count, b >= 0, ~IsUnbounded(ElementCountAdd(a, b))
    PROVE  ElementCountSubtract(ElementCountAdd(a, b), b) = a
BY SMT, MaxValueAssumption
   DEF ElementCountAdd, ElementCountSubtract, Count, MinValue, IsUnbounded, Unbounded, RangeError

-----------------------------------------------------------------------------
\* The inductive invariant of the pointers.  FollowsItsObject alone does not
\* survive a move: that needs every object to be in one place and to have one
\* reference, and a reference that is not null to have been made for something.
Sound(g) ==
  /\ g \in Graph
  /\ PointersAgreeIn(g)
  /\ FollowsItsObjectIn(g)
  /\ \A x, y \in g.referees : g.holds[x] = g.holds[y] /\ g.holds[x] # Null => x = y
  /\ \A r, s \in g.refs : g.names[r] = g.names[s] /\ g.names[r] # Null => r = s
  /\ \A r \in g.refs : g.val[r] # Null => g.names[r] # Null

\* ~WeakReferee clears the reference that points at it.
LEMMA DestroyRefereeIsSound ==
  ASSUME NEW g, Sound(g), NEW x \in g.referees
  PROVE  /\ Sound(DestroyReferee(g, x))
         /\ DestroyReferee(g, x).referees = g.referees \ {x}
<1> DEFINE h == DestroyReferee(g, x)
<1>0. g \in Graph
  BY DEF Sound
<1>1. x \in Referees
  BY <1>0 DEF Graph
<1>2. /\ h = [val |-> h.val, backref |-> g.backref, refs |-> g.refs,
              referees |-> g.referees \ {x}, holds |-> g.holds, names |-> g.names]
      /\ h.val = IF g.backref[x] # Null
                 THEN [g.val EXCEPT ![g.backref[x]] = Null] ELSE g.val
  BY SMT, <1>0, <1>1 DEF DestroyReferee, WriteVal, Graph
<1> HIDE DEF h
<1>3. h \in Graph
  BY SMT, <1>0, <1>1, <1>2 DEF Graph
<1>4. Sound(h)
  BY SMT, <1>0, <1>1, <1>2, <1>3, NullAssumption
     DEF Sound, PointersAgreeIn, FollowsItsObjectIn, Graph
<1> QED
  BY SMT, <1>2, <1>4 DEF h

\* Moving a referee to a new address takes its reference along.
LEMMA MoveConstructRefereeIsSound ==
  ASSUME NEW g, Sound(g),
         NEW x \in Referees, x \notin g.referees, NEW other \in g.referees
  PROVE  /\ Sound(MoveConstructReferee(g, x, other))
         /\ MoveConstructReferee(g, x, other).referees = g.referees \cup {x}
<1> DEFINE h == MoveConstructReferee(g, x, other)
           b == g.backref[other]
<1>0. g \in Graph
  BY DEF Sound
<1>1. other \in Referees /\ other # x
  BY <1>0 DEF Graph
<1>2. /\ h = [val |-> h.val, backref |-> h.backref, refs |-> g.refs,
              referees |-> g.referees \cup {x}, holds |-> h.holds, names |-> g.names]
      /\ h.backref = [g.backref EXCEPT ![x] = b, ![other] = Null]
      /\ h.holds = [g.holds EXCEPT ![x] = g.holds[other], ![other] = Null]
      /\ h.val = IF b # Null THEN [g.val EXCEPT ![b] = x] ELSE g.val
  BY <1>0, <1>1 DEF MoveConstructReferee, WriteVal, Graph
<1> HIDE DEF h
<1>3. h \in Graph
  BY SMT, <1>0, <1>1, <1>2 DEF Graph
<1>4. Sound(h)
  BY SMT, <1>0, <1>1, <1>2, <1>3, NullAssumption
     DEF Sound, PointersAgreeIn, FollowsItsObjectIn, Graph
<1> QED
  BY SMT, <1>2, <1>4 DEF h

\* Assigning to a referee first clears the reference to what it held, and then
\* takes over the other's reference.
LEMMA MoveAssignRefereeIsSound ==
  ASSUME NEW g, Sound(g),
         NEW x \in g.referees, NEW other \in g.referees, other # x
  PROVE  /\ Sound(MoveAssignReferee(g, x, other))
         /\ MoveAssignReferee(g, x, other).referees = g.referees
<1> DEFINE c == WriteVal(g, x, Null)
           h == MoveAssignReferee(g, x, other)
<1>0. g \in Graph
  BY DEF Sound
<1>1. other \in Referees /\ x \in Referees
  BY <1>0 DEF Graph
<1>2. /\ c = [val |-> c.val, backref |-> g.backref, refs |-> g.refs,
              referees |-> g.referees, holds |-> g.holds, names |-> g.names]
      /\ c.val = IF g.backref[x] # Null
                 THEN [g.val EXCEPT ![g.backref[x]] = Null] ELSE g.val
  BY <1>0, <1>1 DEF WriteVal, Graph
<1>3. h = TakeOver(c, x, other)
  BY DEF MoveAssignReferee
<1> HIDE DEF c, h
<1>4. c \in Graph
  BY SMT, <1>0, <1>1, <1>2 DEF Graph
<1>5. /\ h = [val |-> h.val, backref |-> h.backref, refs |-> c.refs,
              referees |-> c.referees, holds |-> h.holds, names |-> c.names]
      /\ h.backref = [c.backref EXCEPT ![x] = c.backref[other], ![other] = Null]
      /\ h.holds = [c.holds EXCEPT ![x] = c.holds[other], ![other] = Null]
      /\ h.val = IF c.backref[other] # Null
                 THEN [c.val EXCEPT ![c.backref[other]] = x] ELSE c.val
  BY <1>1, <1>3, <1>4 DEF TakeOver, WriteVal, Graph
<1>6. h \in Graph
  BY SMT, <1>0, <1>1, <1>4, <1>5 DEF Graph
<1>7. Sound(h)
  <2>1. PointersAgreeIn(h)
    BY SMT, <1>0, <1>1, <1>2, <1>5, NullAssumption DEF Sound, PointersAgreeIn, Graph
  <2>2. FollowsItsObjectIn(h)
    BY SMT, <1>0, <1>1, <1>2, <1>5, NullAssumption
       DEF Sound, PointersAgreeIn, FollowsItsObjectIn, Graph
  <2>3. h.refs = g.refs /\ h.referees = g.referees /\ h.names = g.names
    BY SMT, <1>2, <1>5
  <2>4. h.holds = [g.holds EXCEPT ![x] = g.holds[other], ![other] = Null]
    BY SMT, <1>2, <1>5
  <2>5. \A y, z \in h.referees : h.holds[y] = h.holds[z] /\ h.holds[y] # Null => y = z
    <3>1. \A y, z \in g.referees : g.holds[y] = g.holds[z] /\ g.holds[y] # Null => y = z
      BY DEF Sound
    <3>2. h.holds[other] = Null /\ h.holds[x] = g.holds[other]
      BY ONLY SMT, <1>0, <1>1, <2>4, other # x DEF Graph
    <3>3. \A y \in g.referees : y \notin {x, other} => h.holds[y] = g.holds[y]
      BY ONLY SMT, <1>0, <2>4 DEF Graph
    <3> QED
      BY ONLY SMT, <2>3, <3>1, <3>2, <3>3, x \in g.referees, other \in g.referees
  <2>6. \A r, s \in h.refs : h.names[r] = h.names[s] /\ h.names[r] # Null => r = s
    BY <2>3 DEF Sound
  <2>7. \A r \in h.refs : h.val[r] # Null => h.names[r] # Null
    <3>1. ASSUME NEW r \in g.refs, h.val[r] # Null
          PROVE  g.val[r] # Null
      BY SMT, <1>0, <1>1, <1>2, <1>5, <3>1, NullAssumption DEF Sound, PointersAgreeIn, Graph
    <3> QED
      BY <2>3, <3>1 DEF Sound
  <2> QED
    BY <1>6, <2>1, <2>2, <2>5, <2>6, <2>7 DEF Sound
<1> QED
  BY SMT, <1>2, <1>5, <1>7 DEF h

\* WeakReference(): a new reference points at nothing.
LEMMA ConstructReferenceIsSound ==
  ASSUME NEW g, Sound(g), NEW r \in References, r \notin g.refs
  PROVE  /\ Sound(ConstructReference(g, r))
         /\ ConstructReference(g, r).referees = g.referees
<1> DEFINE h == ConstructReference(g, r)
<1>0. g \in Graph
  BY DEF Sound
<1>2. /\ h.backref = g.backref /\ h.holds = g.holds
      /\ h.refs = g.refs \cup {r} /\ h.referees = g.referees
      /\ h.val = [g.val EXCEPT ![r] = Null]
      /\ h.names = [g.names EXCEPT ![r] = Null]
  BY <1>0 DEF ConstructReference, Graph
<1>3. h \in Graph
  BY <1>0, Zenon DEF ConstructReference, Graph
<1> HIDE DEF h
<1>4. Sound(h)
  BY SMT, <1>0, <1>2, <1>3, NullAssumption
     DEF Sound, PointersAgreeIn, FollowsItsObjectIn, Graph
<1> QED
  BY <1>2, <1>4 DEF h

\* ~WeakReference and Reset clear the pointer back to the reference.
LEMMA DestroyReferenceIsSound ==
  ASSUME NEW g, Sound(g), NEW r \in g.refs
  PROVE  /\ Sound(DestroyReference(g, r)) /\ Sound(Reset(g, r))
         /\ DestroyReference(g, r).referees = g.referees
         /\ Reset(g, r).referees = g.referees
<1> DEFINE h == DestroyReference(g, r)
           i == Reset(g, r)
           b == IF g.val[r] # Null THEN [g.backref EXCEPT ![g.val[r]] = Null]
                                   ELSE g.backref
<1>0. g \in Graph
  BY DEF Sound
<1>1. r \in References
  BY <1>0 DEF Graph
<1> DEFINE c == SetBackref(g, r, Null)
<1>b. b \in [Referees -> References \cup {Null}]
  BY <1>0, <1>1 DEF Graph
<1>s. c = [val |-> g.val, backref |-> b, refs |-> g.refs,
           referees |-> g.referees, holds |-> g.holds, names |-> g.names]
  BY <1>0, <1>1 DEF SetBackref, Graph
<1>c. /\ c = [val |-> g.val, backref |-> c.backref, refs |-> g.refs,
              referees |-> g.referees, holds |-> g.holds, names |-> g.names]
      /\ c.backref = b /\ c \in Graph
  <2> HIDE DEF c, b
  <2> QED
    BY <1>0, <1>b, <1>s DEF Graph
<1>e. h = [c EXCEPT !.refs = @ \ {r}]
  BY DEF DestroyReference
<1>2. h = [val |-> g.val, backref |-> b, refs |-> g.refs \ {r},
           referees |-> g.referees, holds |-> g.holds, names |-> g.names]
  <2> HIDE DEF c, b, h
  <2> QED
    BY <1>s, <1>e
<1>d. i = [c EXCEPT !.val[r] = Null, !.names[r] = Null]
  BY DEF Reset
<1> HIDE DEF c, h, i
<1>3. /\ i.backref = b /\ i.holds = g.holds
      /\ i.refs = g.refs /\ i.referees = g.referees
      /\ i.val = [g.val EXCEPT ![r] = Null]
      /\ i.names = [g.names EXCEPT ![r] = Null]
  BY SMT, <1>c, <1>d DEF Graph
<1>4. h \in Graph /\ i \in Graph
  <2>1. h \in Graph
    BY <1>0, <1>1, <1>2 DEF Graph
  <2>2. i \in Graph
    BY <1>1, <1>c, <1>d, Zenon DEF Graph
  <2> QED
    BY <2>1, <2>2
<1>5. Sound(h)
  BY SMT, <1>0, <1>1, <1>2, <1>4, NullAssumption
     DEF Sound, PointersAgreeIn, FollowsItsObjectIn, Graph
<1>6. Sound(i)
  BY SMT, <1>0, <1>1, <1>3, <1>4, NullAssumption
     DEF Sound, PointersAgreeIn, FollowsItsObjectIn, Graph
<1> QED
  BY SMT, <1>2, <1>3, <1>5, <1>6 DEF h, i

\* Moving a reference to a new address takes the referee's pointer along.
LEMMA MoveConstructReferenceIsSound ==
  ASSUME NEW g, Sound(g),
         NEW r \in References, r \notin g.refs, NEW other \in g.refs
  PROVE  /\ Sound(MoveConstructReference(g, r, other))
         /\ MoveConstructReference(g, r, other).referees = g.referees
<1> DEFINE h == MoveConstructReference(g, r, other)
           v == g.val[other]
<1>0. g \in Graph
  BY DEF Sound
<1>1. other \in References /\ other # r
  BY <1>0 DEF Graph
<1>2. /\ h = [val |-> h.val, backref |-> h.backref, refs |-> g.refs \cup {r},
              referees |-> g.referees, holds |-> g.holds, names |-> h.names]
      /\ h.val = [g.val EXCEPT ![r] = v, ![other] = Null]
      /\ h.names = [g.names EXCEPT ![r] = g.names[other], ![other] = Null]
      /\ h.backref = IF v # Null THEN [g.backref EXCEPT ![v] = r] ELSE g.backref
  BY <1>0, <1>1 DEF MoveConstructReference, SetBackref, Graph
<1> HIDE DEF h
<1>3. h \in Graph
  BY SMT, <1>0, <1>1, <1>2 DEF Graph
<1>4. Sound(h)
  <2>1. PointersAgreeIn(h)
    BY SMT, <1>0, <1>1, <1>2, NullAssumption DEF Sound, PointersAgreeIn, Graph
  <2>2. FollowsItsObjectIn(h)
    BY SMT, <1>0, <1>1, <1>2, NullAssumption
       DEF Sound, PointersAgreeIn, FollowsItsObjectIn, Graph
  <2> QED
    BY SMT, <1>0, <1>1, <1>2, <1>3, <2>1, <2>2, NullAssumption
       DEF Sound, PointersAgreeIn, Graph
<1> QED
  BY SMT, <1>2, <1>4 DEF h

\* Assigning to a reference first clears the pointer of the referee it had.
LEMMA MoveAssignReferenceIsSound ==
  ASSUME NEW g, Sound(g), NEW r \in g.refs, NEW other \in g.refs, other # r
  PROVE  /\ Sound(MoveAssignReference(g, r, other))
         /\ MoveAssignReference(g, r, other).referees = g.referees
<1> DEFINE c == SetBackref(g, r, Null)
           d == [c EXCEPT !.val[other] = Null, !.names[other] = Null]
           e == [d EXCEPT !.val[r] = g.val[other], !.names[r] = g.names[other]]
           h == MoveAssignReference(g, r, other)
           v == g.val[other]
<1>0. g \in Graph
  BY DEF Sound
<1>1. other \in References /\ r \in References
  BY <1>0 DEF Graph
<1>2. /\ c = [val |-> g.val, backref |-> c.backref, refs |-> g.refs,
              referees |-> g.referees, holds |-> g.holds, names |-> g.names]
      /\ c.backref = IF g.val[r] # Null
                     THEN [g.backref EXCEPT ![g.val[r]] = Null] ELSE g.backref
      /\ c \in Graph
  BY <1>0, <1>1 DEF SetBackref, Graph
<1>3. h = SetBackref(e, r, r)
  BY DEF MoveAssignReference, PointAt
<1> HIDE DEF c, h
<1>4. /\ d.backref = c.backref /\ d.holds = g.holds
      /\ d.refs = g.refs /\ d.referees = g.referees
      /\ d.val = [g.val EXCEPT ![other] = Null]
      /\ d.names = [g.names EXCEPT ![other] = Null]
  BY SMT, <1>2 DEF Graph
<1>5. d \in Graph
  BY <1>1, <1>2, Zenon DEF Graph
<1> HIDE DEF d
<1>6. /\ e.backref = c.backref /\ e.holds = g.holds
      /\ e.refs = g.refs /\ e.referees = g.referees
      /\ e.val = [g.val EXCEPT ![other] = Null, ![r] = v]
      /\ e.names = [g.names EXCEPT ![other] = Null, ![r] = g.names[other]]
  BY <1>4, <1>5 DEF Graph
<1>7. e \in Graph
  <2>1. v \in Referees \cup {Null} /\ g.names[other] \in Objects \cup {Null}
    BY <1>0, <1>1 DEF Graph
  <2> QED
    BY <2>1, <1>1, <1>5, Zenon DEF Graph
<1> HIDE DEF e
<1>8. /\ h = [val |-> e.val, backref |-> h.backref, refs |-> e.refs,
              referees |-> e.referees, holds |-> e.holds, names |-> e.names]
      /\ h.backref = IF v # Null THEN [c.backref EXCEPT ![v] = r] ELSE c.backref
      /\ h \in Graph
  <2>1. e.val[r] = v
    BY <1>0, <1>1, <1>6 DEF Graph
  <2>2. h = IF v # Null THEN [e EXCEPT !.backref[v] = r] ELSE e
    BY <2>1, <1>3 DEF SetBackref
  <2> QED
    BY <1>1, <1>6, <1>7, <2>2 DEF Graph
<1>9. Sound(h)
  <2>1. PointersAgreeIn(h)
    BY SMT, <1>0, <1>1, <1>2, <1>6, <1>8, NullAssumption DEF Sound, PointersAgreeIn, Graph
  <2>2. FollowsItsObjectIn(h)
    BY SMT, <1>0, <1>1, <1>2, <1>6, <1>8, NullAssumption
       DEF Sound, PointersAgreeIn, FollowsItsObjectIn, Graph
  <2>3. \A q, s \in h.refs : h.names[q] = h.names[s] /\ h.names[q] # Null => q = s
    BY SMT, <1>0, <1>1, <1>6, <1>8 DEF Sound, Graph
  <2>4. \A s \in h.refs : h.val[s] # Null => h.names[s] # Null
    BY SMT, <1>0, <1>1, <1>6, <1>8 DEF Sound, Graph
  <2>5. \A y, z \in h.referees : h.holds[y] = h.holds[z] /\ h.holds[y] # Null => y = z
    BY SMT, <1>6, <1>8 DEF Sound
  <2> QED
    BY <1>8, <2>1, <2>2, <2>3, <2>4, <2>5 DEF Sound
<1> QED
  BY SMT, <1>6, <1>8, <1>9 DEF h

\* WithWeakReference makes a referee and a reference that point at each other,
\* and the reference that was there before lets go of its own.
LEMMA WithWeakReferenceIsSound ==
  ASSUME NEW g, Sound(g), NEW x \in Referees, x \notin g.referees,
         NEW r \in g.refs, NEW k \in Objects,
         \A y \in g.referees : g.holds[y] # k,
         \A s \in g.refs : g.names[s] # k
  PROVE  /\ Sound(WithWeakReference(g, x, r, k))
         /\ WithWeakReference(g, x, r, k).referees = g.referees \cup {x}
<1> DEFINE c == SetBackref(g, r, Null)
           d == [c EXCEPT !.referees = @ \cup {x}, !.backref[x] = Null, !.holds[x] = k]
           e == [d EXCEPT !.val[r] = x, !.names[r] = k]
           h == WithWeakReference(g, x, r, k)
<1>0. g \in Graph
  BY DEF Sound
<1>1. r \in References /\ x # Null /\ k # Null
  BY <1>0, NullAssumption DEF Graph
<1>2. /\ c = [val |-> g.val, backref |-> c.backref, refs |-> g.refs,
              referees |-> g.referees, holds |-> g.holds, names |-> g.names]
      /\ c.backref = IF g.val[r] # Null
                     THEN [g.backref EXCEPT ![g.val[r]] = Null] ELSE g.backref
      /\ c \in Graph
  BY <1>0, <1>1 DEF SetBackref, Graph
<1>3. h = SetBackref(e, r, r)
  BY DEF WithWeakReference, PointAt
<1> HIDE DEF c, h
<1>4. /\ d.refs = g.refs /\ d.referees = g.referees \cup {x}
      /\ d.val = g.val /\ d.names = g.names
      /\ d.backref = [c.backref EXCEPT ![x] = Null]
      /\ d.holds = [g.holds EXCEPT ![x] = k]
  BY SMT, <1>2 DEF Graph
<1>5. d \in Graph
  BY <1>1, <1>2, Zenon DEF Graph
<1> HIDE DEF d
<1>6. /\ e.backref = d.backref /\ e.holds = d.holds
      /\ e.refs = d.refs /\ e.referees = d.referees
      /\ e.val = [d.val EXCEPT ![r] = x]
      /\ e.names = [d.names EXCEPT ![r] = k]
  BY <1>5 DEF Graph
<1>7. e \in Graph
  BY <1>1, <1>5, Zenon DEF Graph
<1> HIDE DEF e
<1>8. /\ h = [val |-> e.val, backref |-> h.backref, refs |-> e.refs,
              referees |-> e.referees, holds |-> e.holds, names |-> e.names]
      /\ h.backref = [d.backref EXCEPT ![x] = r]
      /\ h \in Graph
  <2>1. e.val[r] = x
    BY <1>1, <1>5, <1>6 DEF Graph
  <2>2. h = [e EXCEPT !.backref[x] = r]
    BY <2>1, <1>1, <1>3 DEF SetBackref
  <2> QED
    BY <1>1, <1>6, <1>7, <2>2 DEF Graph
<1>9. Sound(h)
  <2>1. PointersAgreeIn(h)
    BY SMT, <1>0, <1>1, <1>2, <1>4, <1>6, <1>8, NullAssumption
       DEF Sound, PointersAgreeIn, Graph
  <2>2. FollowsItsObjectIn(h)
    BY SMT, <1>0, <1>1, <1>2, <1>4, <1>6, <1>8, NullAssumption
       DEF Sound, PointersAgreeIn, FollowsItsObjectIn, Graph
  <2> QED
    BY SMT, <1>0, <1>1, <1>2, <1>4, <1>6, <1>8, <2>1, <2>2, NullAssumption
       DEF Sound, PointersAgreeIn, Graph
<1> QED
  BY SMT, <1>4, <1>6, <1>8, <1>9 DEF h

-----------------------------------------------------------------------------
(* Optionals.                                                              *)

\* Everything that is invariant of a memory m = [graph, set].
Good(m) ==
  /\ Sound(m.graph)
  /\ m.set \in [Optionals -> BOOLEAN]
  /\ \A o \in Optionals : m.set[o] <=> o \in m.graph.referees

\* Clear destroys what is there, once.
LEMMA ClearIsGood ==
  ASSUME NEW m, Good(m), NEW o \in Optionals
  PROVE  /\ Good(Clear(m, o))
         /\ Clear(m, o).graph.referees = m.graph.referees \ {o}
         /\ Clear(m, o).set[o] = FALSE
<1>1. CASE m.set[o]
  <2>1. o \in m.graph.referees
    BY <1>1 DEF Good
  <2>2. /\ Sound(DestroyReferee(m.graph, o))
        /\ DestroyReferee(m.graph, o).referees = m.graph.referees \ {o}
    BY <2>1, DestroyRefereeIsSound DEF Good
  <2>3. /\ Clear(m, o).graph = DestroyReferee(m.graph, o)
        /\ Clear(m, o).set = [m.set EXCEPT ![o] = FALSE]
    BY <1>1 DEF Clear
  <2> QED
    BY <2>2, <2>3 DEF Good
<1>2. CASE ~m.set[o]
  BY <1>2 DEF Clear, Good
<1> QED
  BY <1>1, <1>2

\* Filling an Optional that is not set makes it hold the moved object.
LEMMA FillIsGood ==
  ASSUME NEW m, Good(m), NEW o \in Optionals, ~m.set[o], NEW x \in m.graph.referees
  PROVE  /\ Good(Fill(m, o, x))
         /\ Fill(m, o, x).graph.referees = m.graph.referees \cup {o}
<1>1. o \in Referees /\ o \notin m.graph.referees
  BY OptionalsAssumption DEF Good
<1>2. /\ Sound(MoveConstructReferee(m.graph, o, x))
      /\ MoveConstructReferee(m.graph, o, x).referees = m.graph.referees \cup {o}
  BY <1>1, MoveConstructRefereeIsSound DEF Good
<1>3. /\ Fill(m, o, x).graph = MoveConstructReferee(m.graph, o, x)
      /\ Fill(m, o, x).set = [m.set EXCEPT ![o] = TRUE]
  BY DEF Fill
<1> QED
  BY <1>2, <1>3 DEF Good

\* Assign leaves the Optional set, by assignment or by clearing and filling it.
LEMMA AssignIsGood ==
  ASSUME NEW m, Good(m), NEW o \in Optionals, NEW x \in m.graph.referees, x # o,
         m = [graph |-> m.graph, set |-> m.set]
  PROVE  /\ Good(Assign(m, o, x))
         /\ Assign(m, o, x).graph.referees = m.graph.referees \cup {o}
<1>1. CASE m.set[o] /\ MoveAssignable
  <2>1. o \in m.graph.referees
    BY <1>1 DEF Good
  <2>2. /\ Sound(MoveAssignReferee(m.graph, o, x))
        /\ MoveAssignReferee(m.graph, o, x).referees = m.graph.referees
    BY <2>1, MoveAssignRefereeIsSound DEF Good
  <2>3. /\ Assign(m, o, x).graph = MoveAssignReferee(m.graph, o, x)
        /\ Assign(m, o, x).set = m.set
    BY <1>1 DEF Assign
  <2> QED
    BY <2>1, <2>2, <2>3 DEF Good
<1>2. CASE ~(m.set[o] /\ MoveAssignable)
  <2>1. Assign(m, o, x) = Fill(Clear(m, o), o, x)
    BY <1>2 DEF Assign
  <2>0. Clear(m, o).graph.referees = m.graph.referees \ {o}
    BY ClearIsGood
  <2>2. x \in Clear(m, o).graph.referees
    BY <2>0
  <2>3. Good(Clear(m, o)) /\ ~Clear(m, o).set[o]
    BY ClearIsGood
  <2>4. /\ Good(Fill(Clear(m, o), o, x))
        /\ Fill(Clear(m, o), o, x).graph.referees = Clear(m, o).graph.referees \cup {o}
    BY <2>2, <2>3, FillIsGood
  <2> QED
    BY <2>0, <2>1, <2>4
<1> QED
  BY <1>1, <1>2

\* Moving from an Optional clears it, whether the target is assigned or new.
LEMMA MoveOptionalIsGood ==
  ASSUME NEW m, Good(m), NEW o \in Optionals, NEW other \in Optionals, o # other,
         m = [graph |-> m.graph, set |-> m.set]
  PROVE  /\ Good(MoveAssignOptional(m, o, other))
         /\ MoveAssignOptional(m, o, other).graph.referees
              \subseteq m.graph.referees \cup {o}
         /\ ~m.set[o] => /\ Good(MoveConstructOptional(m, o, other))
                         /\ MoveConstructOptional(m, o, other).graph.referees
                              \subseteq m.graph.referees \cup {o}
<1>1. CASE m.set[other]
  <2>1. other \in m.graph.referees
    BY <1>1 DEF Good
  <2>2. /\ Good(Assign(m, o, other))
        /\ Assign(m, o, other).graph.referees = m.graph.referees \cup {o}
    BY <2>1, AssignIsGood
  <2>3. /\ Good(Clear(Assign(m, o, other), other))
        /\ Clear(Assign(m, o, other), other).graph.referees
             = Assign(m, o, other).graph.referees \ {other}
    BY <2>2, ClearIsGood
  <2>4. ASSUME ~m.set[o]
        PROVE  /\ Good(Clear(Fill(m, o, other), other))
               /\ Clear(Fill(m, o, other), other).graph.referees
                    \subseteq m.graph.referees \cup {o}
    <3>1. /\ Good(Fill(m, o, other))
          /\ Fill(m, o, other).graph.referees = m.graph.referees \cup {o}
      BY <2>1, <2>4, FillIsGood
    <3>2. /\ Good(Clear(Fill(m, o, other), other))
          /\ Clear(Fill(m, o, other), other).graph.referees
               = Fill(m, o, other).graph.referees \ {other}
      BY <3>1, ClearIsGood
    <3> QED
      BY <3>1, <3>2
  <2> QED
    BY <1>1, <2>2, <2>3, <2>4 DEF MoveAssignOptional, MoveConstructOptional
<1>2. CASE ~m.set[other]
  <2>1. /\ Good(Clear(m, o))
        /\ Clear(m, o).graph.referees = m.graph.referees \ {o}
    BY ClearIsGood
  <2> QED
    BY <1>2, <2>1 DEF MoveAssignOptional, MoveConstructOptional
<1> QED
  BY <1>1, <1>2

\* Swapping two set Optionals goes through the temporary and leaves it dead.
LEMMA SwapValuesIsGood ==
  ASSUME NEW m, Good(m), NEW l \in Optionals, NEW r \in Optionals, l # r,
         m.set[l], m.set[r], Temporary \notin m.graph.referees,
         m = [graph |-> m.graph, set |-> m.set]
  PROVE  /\ Good(SwapValues(m, l, r))
         /\ SwapValues(m, l, r).graph.referees = m.graph.referees
<1> DEFINE held == MoveConstructReferee(m.graph, Temporary, l)
           one  == MoveAssignReferee(held, l, r)
           two  == MoveAssignReferee(one, r, Temporary)
           last == DestroyReferee(two, Temporary)
<1>0. /\ l \in m.graph.referees /\ r \in m.graph.referees
      /\ Temporary \in Referees /\ Temporary # l /\ Temporary # r
  BY OptionalsAssumption DEF Good
<1>1. Sound(held) /\ held.referees = m.graph.referees \cup {Temporary}
  BY SMT, <1>0, MoveConstructRefereeIsSound DEF Good
<1> HIDE DEF held
<1>2. Sound(one) /\ one.referees = held.referees
  BY <1>0, <1>1, MoveAssignRefereeIsSound
<1> HIDE DEF one
<1>3. Sound(two) /\ two.referees = held.referees
  BY SMT, <1>0, <1>1, <1>2, MoveAssignRefereeIsSound
<1> HIDE DEF two
<1>4. Sound(last) /\ last.referees = m.graph.referees
  <2>1. Temporary \in two.referees
    BY <1>1, <1>3
  <2>2. Sound(last) /\ last.referees = two.referees \ {Temporary}
    BY <2>1, <1>3, DestroyRefereeIsSound
  <2> QED
    BY <2>2, <1>1, <1>3
<1> HIDE DEF last
<1>5. SwapValues(m, l, r) = [m EXCEPT !.graph = last]
  BY DEF SwapValues, held, one, two, last
<1>6. SwapValues(m, l, r).graph = last /\ SwapValues(m, l, r).set = m.set
  BY <1>5
<1> QED
  BY <1>4, <1>6 DEF Good

-----------------------------------------------------------------------------

\* The inductive invariant: the memory is good and std::swap's temporary only
\* lives inside a swap.
OptionalsInv == Good(Memory) /\ Temporary \notin graph.referees

LEMMA InitIsGood == OptionalInit => OptionalsInv
<1> SUFFICES ASSUME OptionalInit PROVE OptionalsInv
  OBVIOUS
<1>1. Sound(graph) /\ graph.referees = {}
  BY DEF OptionalInit, GraphInit, Sound, Graph, PointersAgreeIn, FollowsItsObjectIn
<1> QED
  BY <1>1 DEF OptionalInit, OptionalsInv, Good, Memory

LEMMA NextIsGood == OptionalsInv /\ [OptionalNext]_optionalVars => OptionalsInv'
<1> SUFFICES ASSUME OptionalsInv, [OptionalNext]_optionalVars PROVE OptionalsInv'
  OBVIOUS
<1> DEFINE m == Memory
<1>0. /\ Good(m) /\ m = [graph |-> m.graph, set |-> m.set]
      /\ m.graph = graph /\ m.set = set
      /\ Sound(graph) /\ graph \in Graph /\ Temporary \notin graph.referees
      /\ Temporary \in Referees /\ Temporary \notin Optionals
  BY OptionalsAssumption DEF OptionalsInv, Memory, Good, Sound
<1> HIDE DEF m
<1>a. ASSUME NEW n, Becomes(n), Good(n), Temporary \notin n.graph.referees
      PROVE  OptionalsInv'
  BY <1>a DEF Becomes, OptionalsInv, Good, Memory
<1>b. ASSUME Sound(graph'), set' = set, Temporary \notin graph'.referees,
             \A o \in Optionals : o \in graph'.referees <=> o \in graph.referees
      PROVE  OptionalsInv'
  BY <1>b, <1>0 DEF OptionalsInv, Good, Memory
<1>1. CASE ObjectStep
  <2>1. CASE ReferenceStep
    <3>1. Sound(graph') /\ graph'.referees = graph.referees
      BY SMT, <1>0, <2>1, ConstructReferenceIsSound, MoveConstructReferenceIsSound,
         DestroyReferenceIsSound, MoveAssignReferenceIsSound DEF ReferenceStep
    <3> QED
      BY <3>1, <1>0, <1>1, <1>b DEF ObjectStep
  <2>2. CASE RefereeStep(Optionals \cup {Temporary})
    <3> DEFINE Owned == Optionals \cup {Temporary}
    <3>1. CASE \E x \in Referees \ (graph.referees \cup Owned) :
                 \E r \in graph.refs, k \in Objects :
                   Fresh(k) /\ graph' = WithWeakReference(graph, x, r, k)
      <4>1. PICK x \in Referees \ (graph.referees \cup Owned), r \in graph.refs, k \in Objects :
              Fresh(k) /\ graph' = WithWeakReference(graph, x, r, k)
        BY <3>1
      <4>2. Sound(graph') /\ graph'.referees = graph.referees \cup {x}
        BY SMT, <1>0, <4>1, WithWeakReferenceIsSound DEF Fresh
      <4> QED
        BY <4>2, <1>0, <1>1, <1>b DEF ObjectStep
    <3>2. CASE \E x \in Referees \ (graph.referees \cup Owned) :
                 \E other \in graph.referees :
                   graph' = MoveConstructReferee(graph, x, other)
      <4>1. PICK x \in Referees \ (graph.referees \cup Owned), other \in graph.referees :
              graph' = MoveConstructReferee(graph, x, other)
        BY <3>2
      <4>2. Sound(graph') /\ graph'.referees = graph.referees \cup {x}
        BY <1>0, <4>1, MoveConstructRefereeIsSound
      <4> QED
        BY <4>2, <1>0, <1>1, <1>b DEF ObjectStep
    <3>3. CASE \E x \in graph.referees \ Owned : graph' = DestroyReferee(graph, x)
      <4>1. PICK x \in graph.referees \ Owned : graph' = DestroyReferee(graph, x)
        BY <3>3
      <4>2. Sound(graph') /\ graph'.referees = graph.referees \ {x}
        BY <1>0, <4>1, DestroyRefereeIsSound
      <4> QED
        BY <4>2, <1>0, <1>1, <1>b DEF ObjectStep
    <3>4. CASE \E x \in graph.referees : \E other \in graph.referees \ {x} :
                 graph' = MoveAssignReferee(graph, x, other)
      <4>1. Sound(graph') /\ graph'.referees = graph.referees
        BY SMT, <1>0, <3>4, MoveAssignRefereeIsSound
      <4> QED
        BY <4>1, <1>0, <1>1, <1>b DEF ObjectStep
    <3> QED
      BY <2>2, <3>1, <3>2, <3>3, <3>4 DEF RefereeStep
  <2> QED
    BY <1>1, <2>1, <2>2 DEF ObjectStep
<1>2. CASE ClearStep
  <2>1. PICK o \in Optionals : Becomes(Clear(m, o))
    BY <1>2 DEF ClearStep, m
  <2>2. /\ Good(Clear(m, o))
        /\ Clear(m, o).graph.referees = m.graph.referees \ {o}
    BY <1>0, ClearIsGood
  <2> QED
    BY <1>0, <2>1, <2>2, <1>a
<1>3. CASE SetStep
  <2>1. PICK o \in Optionals, x \in graph.referees : x # o /\ Becomes(Assign(m, o, x))
    BY <1>3 DEF SetStep, m
  <2>2. /\ Good(Assign(m, o, x))
        /\ Assign(m, o, x).graph.referees = m.graph.referees \cup {o}
    BY <1>0, <2>1, AssignIsGood
  <2> QED
    BY <1>0, <2>1, <2>2, <1>a
<1>4. CASE MoveConstructStep
  <2>1. PICK o \in Optionals, other \in Optionals :
          o # other /\ ~set[o] /\ Becomes(MoveConstructOptional(m, o, other))
    BY <1>4 DEF MoveConstructStep, m
  <2>2. /\ Good(MoveConstructOptional(m, o, other))
        /\ MoveConstructOptional(m, o, other).graph.referees \subseteq m.graph.referees \cup {o}
    BY <1>0, <2>1, MoveOptionalIsGood
  <2> QED
    BY <1>0, <2>1, <2>2, <1>a
<1>5. CASE MoveAssignStep
  <2>1. PICK o \in Optionals, other \in Optionals :
          o # other /\ Becomes(MoveAssignOptional(m, o, other))
    BY <1>5 DEF MoveAssignStep, m
  <2>2. /\ Good(MoveAssignOptional(m, o, other))
        /\ MoveAssignOptional(m, o, other).graph.referees \subseteq m.graph.referees \cup {o}
    BY <1>0, <2>1, MoveOptionalIsGood
  <2> QED
    BY <1>0, <2>1, <2>2, <1>a
<1>6. CASE SwapStep
  <2>1. PICK l \in Optionals, r \in Optionals : l # r /\ Becomes(Swap(m, l, r))
    BY <1>6 DEF SwapStep, m
  <2>2. CASE m.set[l] /\ m.set[r]
    <3>1. /\ Good(SwapValues(m, l, r))
          /\ SwapValues(m, l, r).graph.referees = m.graph.referees
      BY <1>0, <2>1, <2>2, SwapValuesIsGood
    <3>2. Swap(m, l, r) = SwapValues(m, l, r)
      BY <2>2 DEF Swap
    <3> QED
      BY <1>0, <2>1, <3>1, <3>2, <1>a
  <2>3. CASE m.set[l] /\ ~m.set[r]
    <3>1. /\ Good(MoveAssignOptional(m, r, l))
          /\ MoveAssignOptional(m, r, l).graph.referees \subseteq m.graph.referees \cup {r}
      BY <1>0, <2>1, MoveOptionalIsGood
    <3>2. Swap(m, l, r) = MoveAssignOptional(m, r, l)
      BY <2>3 DEF Swap
    <3> QED
      BY <1>0, <2>1, <3>1, <3>2, <1>a
  <2>4. CASE ~m.set[l] /\ m.set[r]
    <3>1. /\ Good(MoveAssignOptional(m, l, r))
          /\ MoveAssignOptional(m, l, r).graph.referees \subseteq m.graph.referees \cup {l}
      BY <1>0, <2>1, MoveOptionalIsGood
    <3>2. Swap(m, l, r) = MoveAssignOptional(m, l, r)
      BY <2>4 DEF Swap
    <3> QED
      BY <1>0, <2>1, <3>1, <3>2, <1>a
  <2>5. CASE ~m.set[l] /\ ~m.set[r]
    <3>1. Swap(m, l, r) = m
      BY <2>5 DEF Swap
    <3> QED
      BY <1>0, <2>1, <3>1, <1>a
  <2> QED
    BY <2>2, <2>3, <2>4, <2>5
<1>7. CASE UNCHANGED optionalVars
  BY <1>7 DEF optionalVars, OptionalsInv, Good, Memory
<1> QED
  BY <1>1, <1>2, <1>3, <1>4, <1>5, <1>6, <1>7 DEF OptionalNext

LEMMA AlwaysGood == OptionalSpec => []OptionalsInv
<1> QED
  BY InitIsGood, NextIsGood, PTL DEF OptionalSpec

\* Every reference and referee in a program that moves, assigns, swaps and
\* destroys them in any order point at each other, and never at a dead object
\* (weak_reference.h:40-193).
THEOREM PointersAlwaysAgree == OptionalSpec => []PointersAgree
<1>1. OptionalsInv => PointersAgree
  BY DEF OptionalsInv, Good, Sound, Memory, PointersAgree
<1> QED
  BY <1>1, AlwaysGood, PTL

\* A weak reference finds its object wherever it has been moved to, and is null
\* only when the object is gone.
THEOREM ReferencesFollow == OptionalSpec => []FollowsItsObject
<1>1. OptionalsInv => FollowsItsObject
  BY DEF OptionalsInv, Good, Sound, Memory, FollowsItsObject
<1> QED
  BY <1>1, AlwaysGood, PTL

\* An Optional constructs and destroys what it holds exactly once, for a type
\* that can be assigned and for one that cannot (optional.h:72-376).
THEOREM FlagsAreLifetimes == OptionalSpec => []FlagIsLifetime
<1>1. OptionalsInv => FlagIsLifetime
  BY DEF OptionalsInv, Good, Memory, FlagIsLifetime
<1> QED
  BY <1>1, AlwaysGood, PTL

\* The comparisons of optional.h:381-498 are a strict total order in which an
\* Optional that is not set comes first, and a value compares like an Optional
\* that holds it.
THEOREM OptionalsAreOrdered ==
  ASSUME NEW x \in {Unset} \cup {Some(v) : v \in Int},
         NEW y \in {Unset} \cup {Some(v) : v \in Int},
         NEW z \in {Unset} \cup {Some(v) : v \in Int},
         NEW v \in Int
  PROVE  /\ ~OptionalLess(x, x)
         /\ OptionalLess(x, y) /\ OptionalLess(y, z) => OptionalLess(x, z)
         /\ OptionalLess(x, y) \/ OptionalEquals(x, y) \/ OptionalLess(y, x)
         /\ OptionalAtMost(x, y) <=> OptionalLess(x, y) \/ OptionalEquals(x, y)
         /\ ValueLessOptional(v, y) <=> OptionalLess(Some(v), y)
         /\ OptionalLessValue(x, v) <=> OptionalLess(x, Some(v))
BY SMT DEF Unset, Some, OptionalLess, OptionalEquals, OptionalAtMost,
       ValueLessOptional, OptionalLessValue
-----------------------------------------------------------------------------
(* The lock that keeps the log to one process at a time. *)

\* Nobody holds anything at the start.
LEMMA LockInitially == LockInit => LockInv
  BY ZenonT(30), LockAssumption DEF LockInit, LockInv, LockTypeOK, OpenMeansFile,
     LogIsExclusive, HolderOwnsTheName, Stages

\* Every system call of FileLock, and the death of a process, keeps the
\* invariant.
LEMMA LockPreserved == LockInv /\ [LockNext]_lockVars => LockInv'
<1> USE DEF LockTypeOK, Stages
<1> SUFFICES ASSUME LockInv, [LockNext]_lockVars PROVE LockInv'
    OBVIOUS
<1> USE DEF LockInv
<1>1. CASE UNCHANGED lockVars
  BY <1>1 DEF lockVars, OpenMeansFile, LogIsExclusive, HolderOwnsTheName
<1>2. ASSUME NEW p \in Processes, OpenLockFile(p) PROVE LockInv'
  <2>1. PICK i \in Inodes :
          /\ IF named = NoInode THEN Unused(i) ELSE i = named
          /\ named' = i
          /\ descriptor' = [descriptor EXCEPT ![p] = i]
    BY ZenonT(30), <1>2 DEF OpenLockFile
  <2>2. /\ stage[p] = "none"
        /\ stage' = [stage EXCEPT ![p] = "open"]
        /\ overlapped' = overlapped
    BY <1>2 DEF OpenLockFile
  <2>3. LockTypeOK' /\ OpenMeansFile'
    BY <2>1, <2>2 DEF OpenMeansFile
  <2>4. \A q \in Processes : stage'[q] \in {"held", "unlocked"} =>
            stage[q] = stage'[q] /\ descriptor'[q] = descriptor[q]
    BY <2>1, <2>2
  <2>5. \A q \in Processes : overlapped \/ (stage'[q] = "held" => named' = named)
    BY <2>1, <2>4, LockAssumption DEF OpenMeansFile, HolderOwnsTheName
  <2>6. LogIsExclusive' /\ HolderOwnsTheName'
    BY <2>2, <2>4, <2>5 DEF LogIsExclusive, HolderOwnsTheName
  <2> QED BY <2>3, <2>6
<1>3. ASSUME NEW p \in Processes, LockSucceeds(p) PROVE LockInv'
  <2>1. LockTypeOK' /\ OpenMeansFile'
    BY <1>3 DEF LockSucceeds, OpenMeansFile
  <2>2. CASE overlapped'
    BY <2>1, <2>2 DEF LogIsExclusive, HolderOwnsTheName
  <2>3. CASE ~overlapped'
    <3>1. /\ ~overlapped /\ descriptor[p] = named
          /\ \A q \in Processes : stage[q] # "unlocked"
          /\ Holders(named) = {}
          /\ stage' = [stage EXCEPT ![p] = "held"]
          /\ named' = named /\ descriptor' = descriptor
      BY <1>3, <2>3 DEF LockSucceeds
    <3>2. \A q \in Processes : stage[q] # "held"
      BY <3>1 DEF Holders, HolderOwnsTheName
    <3> QED BY <2>1, <3>1, <3>2 DEF LogIsExclusive, HolderOwnsTheName
  <2> QED BY <2>2, <2>3
<1>4. ASSUME NEW p \in Processes, LockFails(p) PROVE LockInv'
  BY <1>4 DEF LockFails, Close, OpenMeansFile, LogIsExclusive, HolderOwnsTheName
<1>5. ASSUME NEW p \in Processes, Unlock(p) PROVE LockInv'
  BY <1>5 DEF Unlock, OpenMeansFile, LogIsExclusive, HolderOwnsTheName
<1>6. ASSUME NEW p \in Processes, Unlink(p) PROVE LockInv'
  BY <1>6 DEF Unlink, Close, OpenMeansFile, LogIsExclusive, HolderOwnsTheName
<1>7. ASSUME NEW p \in Processes, Killed(p) PROVE LockInv'
  BY ZenonT(30), <1>7 DEF Killed, Close, OpenMeansFile, LogIsExclusive, HolderOwnsTheName
<1>8. ASSUME NEW p \in Processes, OpenFails(p) PROVE LockInv'
  BY <1>1, <1>8 DEF OpenFails
<1> QED BY <1>1, <1>2, <1>3, <1>4, <1>5, <1>6, <1>7, <1>8 DEF LockNext, LockStep

\* Two processes never hold the log at once, whatever their number and whenever
\* they are killed, unless a lock is taken on a file that its last holder has
\* unlinked or is about to unlink (file_lock.cpp:37-40).
THEOREM LogIsExclusiveCorrect == LockSpec => []LogIsExclusive
<1>1. LockInv => LogIsExclusive
  BY DEF LockInv
<1> QED BY LockInitially, LockPreserved, <1>1, PTL DEF LockSpec
-----------------------------------------------------------------------------
(***************************************************************************)
(* Fingerprints.                                                           *)
(***************************************************************************)
LOCAL INSTANCE SequenceTheorems
LOCAL INSTANCE WellFoundedInduction


FingerprintOrNone == Fingerprint \cup {NoFingerprint}

\* The fingerprint has the hash of the file's content if it has the file's size,
\* inode and mtime, whatever has been done to the file's mode.
Agrees(fp) ==
  \/ fp = NoFingerprint
  \/ /\ fp.stat.mode = Absent => fp.hash = <<>>
     /\ (/\ fp.stat.mode # Absent /\ file.mode # Absent
         /\ fp.stat.ino = file.ino /\ fp.stat.mtime = file.mtime
         /\ fp.stat.size = Size[file.content])
          => fp.hash = <<fp.stat.mode, file.content>>

\* The fingerprint is of a file that can only be written again in a later second.
Settled(fp) ==
  \/ fp = NoFingerprint
  \/ /\ fp.stat.mtime <= now
     /\ fp.stat.mtime < now \/ exit_time = now
     /\ fp.racily_clean = FALSE

InLog(fp) == fp \in FingerprintOrNone /\ Agrees(fp) /\ Settled(fp)

\* A fingerprint taken in this run.
IsFresh(fp, time) ==
  /\ fp \in Fingerprint
  /\ Agrees(fp)
  /\ fp.stat = fromStat(file)
  /\ fp.stat.mtime <= time

DelayedOK(e) ==
  /\ e.timestamp <= now
  /\ e.cleaned => e.mine
  /\ ~e.cleaned => IsFresh(e.fingerprint, e.timestamp)

\* Once the step has been looked at, its entry is up to date or about to be.
StepDone ==
  \/ entry = NoFingerprint
  \/ entry.stat = fromStat(file)
  \/ \E k \in 1..Len(delayed) : delayed[k].mine

FingerprintsInv ==
  /\ TypeOK
  /\ file.mtime <= now
  /\ exit_time <= now
  /\ InLog(known) /\ InLog(entry)
  /\ \A p \in saved : InLog(p[1]) /\ InLog(p[2])
  /\ phase \in {"idle", "command"} => delayed = <<>>
  /\ phase = "command" => mine
  /\ phase = "log" => IsFresh(taken, now)
  /\ \A k \in 1..Len(delayed) : DelayedOK(delayed[k])
  /\ (~failed /\ (phase = "running" \/ (phase # "idle" /\ ~mine))) => StepDone

----------------------------------------------------------------------------
(* Facts about the operators.                                              *)

\* A nonempty set of entries has a last one.
LEMMA LastOfType ==
  ASSUME NEW n \in Nat, NEW S \in SUBSET (1..n), S # {}
  PROVE  LastOf(S) \in S
<1> DEFINE T == {x \in Nat : \E k \in S : x = n - k}
<1>1. T \subseteq Nat /\ T # {}
  <2>1. PICK k \in S : TRUE
    OBVIOUS
  <2>2. n - k \in T
    BY SMT, <2>1
  <2> QED BY <2>2
<1> DEFINE R == {ss \in Nat \X Nat : ss[1] < ss[2]}
<1>0. IsWellFoundedOn(R, Nat)
  BY NatLessThanWellFounded DEF OpToRel
<1>2. PICK x \in T : \A y \in T : ~(<<y, x>> \in R)
  <2> HIDE DEF T, R
  <2> QED BY <1>0, <1>1, WFMin
<1>3. \A y \in T : ~(y < x)
  BY <1>1, <1>2
<1>4. PICK k \in S : x = n - k
  OBVIOUS
<1>5. \A j \in S : j <= k
  <2>1. SUFFICES ASSUME NEW j \in S PROVE j <= k
    OBVIOUS
  <2>2. ~(n - j < n - k)
    BY SMT, <1>3, <1>4
  <2> QED BY SMT, <2>2
<1> QED BY <1>5 DEF LastOf

\* The elements of u are those of s from n + 1 on, and those of t.
Leaves(u, s, n, t) ==
  /\ \A k \in 1..Len(u) : \/ \E j \in (n + 1)..Len(s) : u[k] = s[j]
                          \/ \E j \in 1..Len(t) : u[k] = t[j]
  /\ \A j \in (n + 1)..Len(s) : \E k \in 1..Len(u) : u[k] = s[j]
  /\ \A j \in 1..Len(t) : \E k \in 1..Len(u) : u[k] = t[j]

\* What is left of the delayed entries when the first n are written and t is added.
LEMMA Remainder ==
  ASSUME NEW S, NEW s \in Seq(S), NEW t \in Seq(S), NEW n \in 0..Len(s),
         NEW u, u = SubSeq(s, n + 1, Len(s)) \o t
  PROVE  u \in Seq(S) /\ Leaves(u, s, n, t)
<1>1. PICK r : /\ r = SubSeq(s, n + 1, Len(s))
               /\ r \in Seq(S)
               /\ Len(r) = Len(s) - n
               /\ \A k \in 1..Len(r) : r[k] = s[n + k]
  <2>1. n \in Nat /\ Len(s) \in Nat /\ n <= Len(s)
    BY SMT, LenProperties
  <2>2. /\ SubSeq(s, n + 1, Len(s)) \in Seq(S)
        /\ Len(SubSeq(s, n + 1, Len(s))) = Len(s) - n
    BY <2>1, SMT
  <2>3. \A k \in 1..(Len(s) - n) : SubSeq(s, n + 1, Len(s))[k] = s[n + k]
    BY <2>1, SMT
  <2> QED BY <2>2, <2>3
<1>2. /\ u = r \o t
      /\ u \in Seq(S) /\ Len(u) = Len(r) + Len(t)
      /\ \A k \in 1..Len(u) : u[k] = IF k <= Len(r) THEN r[k] ELSE t[k - Len(r)]
  <2>1. r \in Seq(S)
    BY <1>1
  <2>2. /\ r \o t \in Seq(S) /\ Len(r \o t) = Len(r) + Len(t)
        /\ \A k \in 1..(Len(r) + Len(t)) :
             (r \o t)[k] = IF k <= Len(r) THEN r[k] ELSE t[k - Len(r)]
    BY ONLY <2>1, t \in Seq(S), ConcatProperties
  <2> QED BY <1>1, <2>2
<1>3. /\ Len(r) \in Nat /\ Len(t) \in Nat /\ Len(s) \in Nat /\ n \in Nat
      /\ Len(r) = Len(s) - n /\ Len(u) = Len(r) + Len(t)
  BY SMT, <1>1, <1>2, LenProperties
<1>4. \A k \in 1..Len(u) : \/ \E j \in (n + 1)..Len(s) : u[k] = s[j]
                           \/ \E j \in 1..Len(t) : u[k] = t[j]
  <2> SUFFICES ASSUME NEW k \in 1..Len(u)
               PROVE  \/ \E j \in (n + 1)..Len(s) : u[k] = s[j]
                      \/ \E j \in 1..Len(t) : u[k] = t[j]
    OBVIOUS
  <2>1. CASE k <= Len(r)
    <3>1. u[k] = s[n + k] /\ n + k \in (n + 1)..Len(s)
      BY SMT, <1>1, <1>2, <1>3, <2>1
    <3> QED BY <3>1
  <2>2. CASE k > Len(r)
    <3>1. u[k] = t[k - Len(r)] /\ k - Len(r) \in 1..Len(t)
      BY SMT, <1>1, <1>2, <1>3, <2>2
    <3> QED BY <3>1
  <2> QED BY SMT, <1>3, <2>1, <2>2
<1>5. \A j \in (n + 1)..Len(s) : \E k \in 1..Len(u) : u[k] = s[j]
  <2> SUFFICES ASSUME NEW j \in (n + 1)..Len(s) PROVE \E k \in 1..Len(u) : u[k] = s[j]
    OBVIOUS
  <2>1. /\ j - n \in 1..Len(u)
        /\ j - n \in 1..Len(r)
        /\ n + (j - n) = j
    BY SMT, <1>3
  <2>2. u[j - n] = r[j - n]
    <3>1. j - n <= Len(r)
      BY SMT, <1>3, <2>1
    <3> QED BY <1>2, <2>1, <3>1
  <2>3. r[j - n] = s[n + (j - n)]
    BY <1>1, <2>1
  <2> QED BY <2>1, <2>2, <2>3
<1>6. \A j \in 1..Len(t) : \E k \in 1..Len(u) : u[k] = t[j]
  <2> SUFFICES ASSUME NEW j \in 1..Len(t) PROVE \E k \in 1..Len(u) : u[k] = t[j]
    OBVIOUS
  <2>1. /\ j + Len(r) \in 1..Len(u)
        /\ ~(j + Len(r) <= Len(r))
        /\ j + Len(r) - Len(r) = j
    BY SMT, <1>3
  <2>2. u[j + Len(r)] = t[j]
    BY ONLY SMT, <1>2, <2>1
  <2> QED BY <2>1, <2>2
<1> QED BY ONLY <1>2, <1>4, <1>5, <1>6 DEF Leaves

\* What is stated and hashed of a file has its type.
LEMMA FileFacts ==
  ASSUME NEW f \in File
  PROVE  /\ fromStat(f) \in FStat
         /\ computeFingerprintHash(f) \in {<<>>} \cup (Mode \X Content)
         /\ fromStat(f).mode = f.mode
         /\ f.mode = Absent => /\ fromStat(f).mtime = 0
                               /\ computeFingerprintHash(f) = <<>>
         /\ f.mode # Absent => /\ fromStat(f).mtime = f.mtime
                               /\ fromStat(f).ino = f.ino
                               /\ fromStat(f).size = Size[f.content]
                               /\ computeFingerprintHash(f) = <<f.mode, f.content>>
BY FingerprintsTyped DEF File, fromStat, computeFingerprintHash, FStat

\* Marking a fingerprint as not racily clean changes nothing else of it.
LEMMA NotRacilyCleanFacts ==
  ASSUME NEW fp \in Fingerprint
  PROVE  /\ NotRacilyClean(fp) \in Fingerprint
         /\ NotRacilyClean(fp) # NoFingerprint
         /\ NotRacilyClean(fp).stat = fp.stat
         /\ NotRacilyClean(fp).hash = fp.hash
         /\ NotRacilyClean(fp).racily_clean = FALSE
<1>1. NotRacilyClean(fp) \in Fingerprint
  BY DEF NotRacilyClean, Fingerprint
<1> QED BY <1>1, FingerprintsTyped DEF NotRacilyClean, Fingerprint

\* A match is sound for a fingerprint that agrees with the file.
LEMMA AgreesIsSound ==
  ASSUME file \in File, NEW fp \in Fingerprint, Agrees(fp), fingerprintMatches(fp, file).clean
  PROVE  fp.hash = computeFingerprintHash(file)
<1>1. fp # NoFingerprint
  BY FingerprintsTyped
<1>2. CASE NeedsHash(fp, file)
  BY <1>2 DEF fingerprintMatches
<1>3. CASE ~NeedsHash(fp, file)
  <2>1. fromStat(file) = fp.stat
    BY <1>3 DEF fingerprintMatches
  <2> QED BY <1>1, <2>1, FileFacts DEF Agrees
<1> QED BY <1>2, <1>3

\* The fingerprint of the present file agrees with it, and is of its stat.
LEMMA TakenIsFresh ==
  ASSUME file \in File, now \in Nat, timestamp \in Nat, file.mtime <= now,
         known \in FingerprintOrNone, Agrees(known), TakeFingerprint
  PROVE  IsFresh(taken', now)
<1> DEFINE fp == [stat |-> fromStat(file),
                  racily_clean |-> isRacilyClean(fromStat(file), timestamp),
                  hash |-> computeFingerprintHash(file)]
<1>1. taken' = fp
  <2>1. CASE known = NoFingerprint
    BY <2>1 DEF TakeFingerprint, takeFingerprint
  <2>2. CASE known # NoFingerprint
    <3>1. known \in Fingerprint
      BY <2>2 DEF FingerprintOrNone
    <3>2. taken' = retakeFingerprint(file, timestamp, known)
      BY <2>2 DEF TakeFingerprint
    <3>3. CASE /\ fingerprintMatches(known, file).clean
               /\ ~fingerprintMatches(known, file).should_update
      <4>1. known.hash = computeFingerprintHash(file)
        BY <3>1, <3>3, AgreesIsSound
      <4> QED BY <3>2, <3>3, <4>1 DEF retakeFingerprint
    <3>4. CASE fingerprintMatches(known, file).should_update
      BY <3>2, <3>4 DEF retakeFingerprint
    <3>5. CASE /\ ~fingerprintMatches(known, file).clean
               /\ ~fingerprintMatches(known, file).should_update
      BY <3>2, <3>5 DEF retakeFingerprint, takeFingerprint
    <3> QED BY <3>3, <3>4, <3>5
  <2> QED BY <2>1, <2>2
<1>2. isRacilyClean(fromStat(file), timestamp) \in BOOLEAN
  BY SMT DEF isRacilyClean
<1>3. fp \in Fingerprint
  BY <1>2, FileFacts DEF Fingerprint
<1>4. fp.stat.mtime <= now
  BY SMT, FileFacts DEF File
<1>5. Agrees(fp)
  BY FileFacts DEF Agrees
<1> QED BY <1>1, <1>3, <1>4, <1>5 DEF IsFresh

\* What the log has once the first n entries are written is what it had before, or
\* comes from one of them.
LEMMA AfterCases ==
  ASSUME TypeOK, NEW n \in 0..Len(delayed)
  PROVE  /\ \/ KnownAfter(n) = known
            \/ \E k \in 1..n : /\ ~delayed[k].cleaned
                               /\ KnownAfter(n) = NotRacilyClean(delayed[k].fingerprint)
         /\ \/ (\A k \in 1..n : ~delayed[k].mine) /\ EntryAfter(n) = entry
            \/ /\ \E k \in 1..n : delayed[k].mine
               /\ \/ EntryAfter(n) = NoFingerprint
                  \/ \E k \in 1..n : /\ ~delayed[k].cleaned
                                     /\ EntryAfter(n) = NotRacilyClean(delayed[k].fingerprint)
<1> DEFINE ran == {k \in 1..n : ~delayed[k].cleaned}
           step == {k \in 1..n : delayed[k].mine}
<1>1. n \in Nat
  BY SMT, LenProperties DEF TypeOK
<1>2. ran # {} => LastOf(ran) \in ran
  <2>1. ran \in SUBSET (1..n)
    OBVIOUS
  <2> HIDE DEF ran
  <2> QED BY <1>1, <2>1, LastOfType
<1>3. step # {} => LastOf(step) \in step
  <2>1. step \in SUBSET (1..n)
    OBVIOUS
  <2> HIDE DEF step
  <2> QED BY <1>1, <2>1, LastOfType
<1>4. \/ KnownAfter(n) = known
      \/ \E k \in 1..n : /\ ~delayed[k].cleaned
                         /\ KnownAfter(n) = NotRacilyClean(delayed[k].fingerprint)
  <2>1. KnownAfter(n) = IF ran = {} THEN known
                        ELSE NotRacilyClean(delayed[LastOf(ran)].fingerprint)
    BY DEF KnownAfter
  <2> QED BY <1>2, <2>1
<1>5. EntryAfter(n) = IF step = {} THEN entry
                      ELSE IF delayed[LastOf(step)].cleaned THEN NoFingerprint
                      ELSE NotRacilyClean(delayed[LastOf(step)].fingerprint)
  BY DEF EntryAfter
<1>6. CASE step = {}
  BY <1>4, <1>5, <1>6
<1>7. CASE step # {}
  BY <1>3, <1>4, <1>5, <1>7
<1> QED BY <1>6, <1>7

\* Entries that are older than the present second only write settled fingerprints.
LEMMA OldEntriesAreSettled ==
  ASSUME FingerprintsInv, NEW n \in 0..Len(delayed), \A k \in 1..n : delayed[k].timestamp < now
  PROVE  InLog(KnownAfter(n)) /\ InLog(EntryAfter(n))
<1> USE DEF FingerprintsInv
<1>1. \A k \in 1..n : ~delayed[k].cleaned => InLog(NotRacilyClean(delayed[k].fingerprint))
  <2> SUFFICES ASSUME NEW k \in 1..n, ~delayed[k].cleaned
               PROVE  InLog(NotRacilyClean(delayed[k].fingerprint))
    OBVIOUS
  <2>1. k \in 1..Len(delayed)
    BY SMT, LenProperties DEF TypeOK
  <2>2. delayed[k] \in DelayedEntry
    BY SMT, <2>1 DEF TypeOK
  <2>3. IsFresh(delayed[k].fingerprint, delayed[k].timestamp)
    BY <2>1 DEF DelayedOK
  <2>4. delayed[k].fingerprint \in Fingerprint
    BY <2>3 DEF IsFresh
  <2>5. delayed[k].timestamp \in Nat /\ delayed[k].fingerprint.stat.mtime \in Nat /\ now \in Nat
    BY <2>2, <2>4 DEF DelayedEntry, Fingerprint, FStat, TypeOK
  <2>6. Settled(NotRacilyClean(delayed[k].fingerprint))
    <3>1. delayed[k].fingerprint.stat.mtime < now
      <4>1. delayed[k].fingerprint.stat.mtime <= delayed[k].timestamp
        BY <2>3 DEF IsFresh
      <4>2. delayed[k].timestamp < now
        OBVIOUS
      <4> QED BY ONLY SMT, <2>5, <4>1, <4>2
    <3>2. /\ NotRacilyClean(delayed[k].fingerprint).stat = delayed[k].fingerprint.stat
          /\ NotRacilyClean(delayed[k].fingerprint).racily_clean = FALSE
      BY <2>4, NotRacilyCleanFacts
    <3> QED BY ONLY SMT, <2>5, <3>1, <3>2 DEF Settled
  <2>7. Agrees(NotRacilyClean(delayed[k].fingerprint))
    BY <2>3, <2>4, NotRacilyCleanFacts, FingerprintsTyped DEF Agrees, IsFresh
  <2> QED BY <2>4, <2>6, <2>7, NotRacilyCleanFacts DEF InLog, FingerprintOrNone
<1>2. InLog(NoFingerprint)
  BY DEF InLog, Agrees, Settled, FingerprintOrNone
<1> QED BY <1>1, <1>2, AfterCases

\* The delayed entries, the log and what may be on disk after writeDelayedEntries.
LEMMA WriteKeeps ==
  ASSUME FingerprintsInv, NEW added \in Seq(DelayedEntry), \A k \in 1..Len(added) : DelayedOK(added[k]),
         writeDelayedEntries(now, added)
  PROVE  /\ InLog(known') /\ InLog(entry')
         /\ \A p \in saved' : InLog(p[1]) /\ InLog(p[2])
         /\ delayed' \in Seq(DelayedEntry)
         /\ \A k \in 1..Len(delayed') : DelayedOK(delayed'[k])
         /\ \/ entry' = NoFingerprint
            \/ entry' = entry
            \/ entry'.stat = fromStat(file)
         /\ \A j \in 1..Len(added) : \E k \in 1..Len(delayed') : delayed'[k] = added[j]
         /\ StepDone => \/ entry' = NoFingerprint
                        \/ entry'.stat = fromStat(file)
                        \/ \E k \in 1..Len(delayed') : delayed'[k].mine
<1>1. PICK n \in 0..Len(delayed) :
        /\ \A k \in 1..n : delayed[k].timestamp < now
        /\ WriteEntries(n)
        /\ saved' = saved \cup SavedBy(n)
        /\ delayed' = SubSeq(delayed, n + 1, Len(delayed)) \o added
  BY DEF writeDelayedEntries
<1>2. delayed \in Seq(DelayedEntry) /\ Len(delayed) \in Nat
  BY LenProperties DEF FingerprintsInv, TypeOK
<1>3. \A m \in 0..n : InLog(KnownAfter(m)) /\ InLog(EntryAfter(m))
  <2> SUFFICES ASSUME NEW m \in 0..n PROVE InLog(KnownAfter(m)) /\ InLog(EntryAfter(m))
    OBVIOUS
  <2>1. m \in 0..Len(delayed) /\ \A k \in 1..m : delayed[k].timestamp < now
    BY SMT, <1>1, <1>2
  <2> QED BY <2>1, OldEntriesAreSettled
<1>4. InLog(known') /\ InLog(entry')
  BY SMT, <1>1, <1>2, <1>3 DEF WriteEntries
<1>5. \A p \in saved' : InLog(p[1]) /\ InLog(p[2])
  <2>1. \A p \in saved : InLog(p[1]) /\ InLog(p[2])
    BY DEF FingerprintsInv
  <2>2. \A p \in SavedBy(n) : InLog(p[1]) /\ InLog(p[2])
    <3> SUFFICES ASSUME NEW p \in SavedBy(n) PROVE InLog(p[1]) /\ InLog(p[2])
      OBVIOUS
    <3>1. \/ \E m \in 0..n : p = <<KnownAfter(m), EntryAfter(m)>>
          \/ \E m \in 1..n : p = <<KnownAfter(m), EntryAfter(m - 1)>>
      BY DEF SavedBy
    <3>2. CASE \E m \in 0..n : p = <<KnownAfter(m), EntryAfter(m)>>
      BY SMT, <1>3, <3>2
    <3>3. CASE \E m \in 1..n : p = <<KnownAfter(m), EntryAfter(m - 1)>>
      <4>1. PICK m \in 1..n : p = <<KnownAfter(m), EntryAfter(m - 1)>>
        BY <3>3
      <4>2. m \in 0..n /\ m - 1 \in 0..n
        BY SMT, <1>2
      <4> QED BY <1>3, <4>1, <4>2
    <3> QED BY <3>1, <3>2, <3>3
  <2> QED BY <1>1, <2>1, <2>2
<1>6. delayed' \in Seq(DelayedEntry) /\ Leaves(delayed', delayed, n, added)
  <2>1. delayed' = SubSeq(delayed, n + 1, Len(delayed)) \o added
    BY <1>1
  <2>2. delayed \in Seq(DelayedEntry)
    BY <1>2
  <2> QED BY ONLY <2>1, <2>2, n \in 0..Len(delayed), added \in Seq(DelayedEntry), Remainder
<1>7. \A k \in 1..Len(delayed') : DelayedOK(delayed'[k])
  <2>1. \A j \in (n + 1)..Len(delayed) : DelayedOK(delayed[j])
    BY SMT, <1>2 DEF FingerprintsInv
  <2> QED BY <1>6, <2>1 DEF Leaves
<1>8. \A k \in 1..n : ~delayed[k].cleaned
        => NotRacilyClean(delayed[k].fingerprint).stat = fromStat(file)
  <2> SUFFICES ASSUME NEW k \in 1..n, ~delayed[k].cleaned
               PROVE  NotRacilyClean(delayed[k].fingerprint).stat = fromStat(file)
    OBVIOUS
  <2>1. IsFresh(delayed[k].fingerprint, delayed[k].timestamp)
    BY SMT, <1>2 DEF FingerprintsInv, DelayedOK
  <2> QED BY <2>1, NotRacilyCleanFacts DEF IsFresh
<1>9. /\ entry' = NoFingerprint \/ entry' = entry \/ entry'.stat = fromStat(file)
      /\ \/ entry' = NoFingerprint
         \/ entry'.stat = fromStat(file)
         \/ entry' = entry /\ \A k \in 1..n : ~delayed[k].mine
  BY <1>1, <1>8, AfterCases DEF WriteEntries, FingerprintsInv
<1>10. StepDone => \/ entry' = NoFingerprint
                   \/ entry'.stat = fromStat(file)
                   \/ \E k \in 1..Len(delayed') : delayed'[k].mine
  <2> SUFFICES ASSUME entry' = entry, \A k \in 1..n : ~delayed[k].mine,
                      NEW j \in 1..Len(delayed), delayed[j].mine
               PROVE  \E k \in 1..Len(delayed') : delayed'[k].mine
    BY <1>9 DEF StepDone
  <2>1. j \in (n + 1)..Len(delayed)
    BY SMT, <1>2
  <2> QED BY <1>6, <2>1 DEF Leaves
<1> QED BY <1>4, <1>5, <1>6, <1>7, <1>9, <1>10 DEF Leaves

----------------------------------------------------------------------------
(* The invariant.                                                          *)

\* No fingerprint stands for anything that could be wrong.
LEMMA NoneInLog == InLog(NoFingerprint)
BY DEF InLog, Agrees, Settled, FingerprintOrNone

\* While the file, the clock and the end of the last run stay as they are, so does
\* what is known of a fingerprint.
LEMMA Frame ==
  ASSUME UNCHANGED <<now, file, exit_time>>
  PROVE  /\ InLog(known') => InLog(known)'
         /\ InLog(entry') => InLog(entry)'
         /\ (\A p \in saved' : InLog(p[1]) /\ InLog(p[2]))
              => (\A p \in saved : InLog(p[1]) /\ InLog(p[2]))'
         /\ (\A k \in 1..Len(delayed') : DelayedOK(delayed'[k]))
              => (\A k \in 1..Len(delayed) : DelayedOK(delayed[k]))'
BY DEF InLog, Agrees, Settled, DelayedOK, IsFresh, fromStat

\* The saved pairs are typed when they may be in the log.
LEMMA SavedTyped ==
  ASSUME NEW S, \A p \in S : InLog(p[1]) /\ InLog(p[2])
  PROVE  \A p \in S : \A k \in 1..2 : p[k] \in Fingerprint \cup {NoFingerprint}
BY SMT DEF InLog, FingerprintOrNone

\* Initially nothing has been fingerprinted.
LEMMA FingerprintsInitially == Init => FingerprintsInv
<1> SUFFICES ASSUME Init PROVE FingerprintsInv
  OBVIOUS
<1> USE DEF Init
<1>1. file \in File /\ file.mtime = 1
  BY SMT DEF File
<1>2. delayed \in Seq(DelayedEntry) /\ Len(delayed) = 0
  BY SMT
<1>3. TypeOK
  BY <1>1, <1>2 DEF TypeOK, Phases
<1> QED BY SMT, <1>1, <1>2, <1>3, NoneInLog DEF FingerprintsInv

\* The clock moves on: what was written by the last second is settled.
LEMMA TickKeeps == FingerprintsInv /\ Tick => FingerprintsInv'
<1> SUFFICES ASSUME FingerprintsInv, Tick PROVE FingerprintsInv'
  OBVIOUS
<1> USE DEF FingerprintsInv, Tick
<1>1. TypeOK'
  BY SMT DEF TypeOK
<1>2. now \in Nat /\ exit_time \in Nat /\ file.mtime \in Nat /\ exit_time' # now'
  BY SMT DEF TypeOK, File
<1>3. ASSUME NEW fp, InLog(fp) PROVE InLog(fp)'
  <2>1. fp = NoFingerprint \/ (fp.stat.mtime \in Nat /\ fp.stat.mtime <= now)
    BY ONLY <1>3 DEF InLog, FingerprintOrNone, Settled, Fingerprint, FStat
  <2>2. fp = NoFingerprint \/ (fp.stat.mtime <= now' /\ fp.stat.mtime < now')
    BY ONLY SMT, <1>2, <2>1, Tick DEF Tick
  <2>3. Settled(fp)'
    BY ONLY <1>3, <2>2 DEF InLog, Settled
  <2>4. Agrees(fp)'
    BY ONLY <1>3, Tick DEF InLog, Agrees, Tick
  <2> QED BY ONLY <1>3, <2>3, <2>4 DEF InLog
<1>4. InLog(known)'
  <2>1. InLog(known) /\ known' = known
    OBVIOUS
  <2> QED BY ONLY <1>3, <2>1 DEF InLog, Agrees, Settled
<1>5. InLog(entry)'
  <2>1. InLog(entry) /\ entry' = entry
    OBVIOUS
  <2> QED BY ONLY <1>3, <2>1 DEF InLog, Agrees, Settled
<1>6. (\A p \in saved : InLog(p[1]) /\ InLog(p[2]))'
  <2>1. (\A p \in saved : InLog(p[1]) /\ InLog(p[2])) /\ saved' = saved
    OBVIOUS
  <2> QED BY ONLY <1>3, <2>1
<1>7. (phase = "log" => IsFresh(taken, now))'
  <2> SUFFICES ASSUME phase = "log" PROVE IsFresh(taken, now)'
    OBVIOUS
  <2>1. IsFresh(taken, now)
    OBVIOUS
  <2>2. taken.stat.mtime \in Nat
    BY <2>1 DEF IsFresh, Fingerprint, FStat
  <2>3. taken' = taken /\ file' = file /\ now' = now + 1
    OBVIOUS
  <2>4. Agrees(taken)' /\ taken'.stat = fromStat(file)'
    BY ONLY Zenon, <2>1, <2>3 DEF IsFresh, Agrees, fromStat
  <2>5. taken'.stat.mtime <= now'
    BY ONLY SMT, <1>2, <2>1, <2>2, <2>3 DEF IsFresh
  <2> QED BY ONLY Zenon, <2>1, <2>3, <2>4, <2>5 DEF IsFresh
<1>8. (\A k \in 1..Len(delayed) : DelayedOK(delayed[k]))'
  <2> SUFFICES ASSUME NEW k \in 1..Len(delayed) PROVE DelayedOK(delayed[k])'
    OBVIOUS
  <2>1. delayed[k] \in DelayedEntry
    BY SMT DEF TypeOK
  <2>2. DelayedOK(delayed[k]) /\ delayed[k].timestamp \in Nat
    BY <2>1 DEF DelayedEntry
  <2>3. delayed' = delayed /\ file' = file /\ now' = now + 1
    OBVIOUS
  <2>4. delayed[k].timestamp <= now'
    BY ONLY SMT, <1>2, <2>2, <2>3 DEF DelayedOK
  <2>5. (~delayed[k].cleaned => IsFresh(delayed[k].fingerprint, delayed[k].timestamp))'
    BY ONLY Zenon, <2>2, <2>3 DEF DelayedOK, IsFresh, Agrees, fromStat
  <2> QED BY ONLY Zenon, <2>2, <2>3, <2>4, <2>5 DEF DelayedOK
<1>9. ((~failed /\ (phase = "running" \/ (phase # "idle" /\ ~mine))) => StepDone)'
  BY DEF StepDone, fromStat
<1> QED BY SMT, <1>1, <1>2, <1>4, <1>5, <1>6, <1>7, <1>8, <1>9

\* A change of the file leaves the fingerprints in the log right: a file that is
\* written gets an mtime that no fingerprint in the log has.
LEMMA ChangeKeepsLog ==
  ASSUME Quiet, FingerprintsInv, Change, UNCHANGED <<now, exit_time>>
  PROVE  /\ file' \in File /\ file'.mtime <= now
         /\ \A fp : InLog(fp) => InLog(fp)'
<1>1. now \in Nat /\ exit_time \in Nat /\ file \in File /\ file.mtime <= now /\ exit_time <= now
  BY DEF FingerprintsInv, TypeOK
<1>2. CASE /\ IsQuiet
           /\ \E m \in Mode, c \in Content, i \in Ino :
                file' = [mode |-> m, content |-> c, ino |-> i, mtime |-> now]
  <2>1. file' \in File /\ file'.mtime = now
    BY SMT, <1>1, <1>2 DEF File
  <2>2. now # exit_time
    BY SMT, <1>1, <1>2 DEF IsQuiet
  <2>3. ASSUME NEW fp, InLog(fp) PROVE InLog(fp)'
    <3>1. fp = NoFingerprint \/ (fp.stat.mtime \in Nat /\ fp.stat.mtime < now)
      BY <2>2, <2>3 DEF InLog, FingerprintOrNone, Settled, Fingerprint, FStat
    <3>2. fp = NoFingerprint \/ fp.stat.mtime # file'.mtime
      BY SMT, <1>1, <2>1, <3>1
    <3> QED BY <2>3, <3>2 DEF InLog, Agrees, Settled
  <2> QED BY SMT, <1>1, <2>1, <2>3
<1>3. CASE file' = [file EXCEPT !.mode = Absent]
  <2>1. file' \in File /\ file'.mtime <= now /\ file'.mode = Absent
    BY <1>1, <1>3 DEF File
  <2> QED BY <2>1 DEF InLog, Agrees, Settled
<1>4. CASE file.mode # Absent /\ \E m \in Mode : file' = [file EXCEPT !.mode = m]
  <2>1. /\ file' \in File /\ file'.mtime = file.mtime /\ file'.ino = file.ino
        /\ file'.content = file.content
    BY <1>1, <1>4 DEF File
  <2> QED BY <1>1, <1>4, <2>1 DEF InLog, Agrees, Settled
<1> QED BY <1>2, <1>3, <1>4 DEF Change

\* The user changes the file, or the command does: nothing has been fingerprinted
\* in this run yet.
LEMMA FileChangeKeeps == Quiet /\ FingerprintsInv /\ (Edit \/ Command) => FingerprintsInv'
<1> SUFFICES ASSUME Quiet, FingerprintsInv, Edit \/ Command PROVE FingerprintsInv'
  OBVIOUS
<1>1. /\ UNCHANGED <<now, exit_time, known, entry, saved, delayed, timestamp, taken, mine>>
      /\ failed' \in BOOLEAN
      /\ UNCHANGED file \/ Change
      /\ phase \in {"idle", "command"}
      /\ phase' = "idle" \/ (phase' = "fingerprint" /\ mine)
  BY DEF Edit, Command, FingerprintsInv, TypeOK
<1>2. /\ file' \in File /\ file'.mtime <= now
      /\ \A fp : InLog(fp) => InLog(fp)'
  <2>1. CASE UNCHANGED file
    <3>1. file' \in File /\ file'.mtime <= now
      BY <2>1 DEF FingerprintsInv, TypeOK
    <3> QED BY <1>1, <2>1, <3>1 DEF InLog, Agrees, Settled
  <2>2. CASE Change
    BY <1>1, <2>2, ChangeKeepsLog
  <2> QED BY <1>1, <2>1, <2>2
<1>3. TypeOK'
  BY <1>1, <1>2 DEF FingerprintsInv, TypeOK, Phases
<1>4. InLog(known)' /\ InLog(entry)'
  <2>1. InLog(known) /\ InLog(entry) /\ known' = known /\ entry' = entry
    BY <1>1 DEF FingerprintsInv
  <2> QED BY ONLY <1>2, <2>1 DEF InLog, Agrees, Settled
<1>5. (\A p \in saved : InLog(p[1]) /\ InLog(p[2]))'
  <2>1. (\A p \in saved : InLog(p[1]) /\ InLog(p[2])) /\ saved' = saved
    BY <1>1 DEF FingerprintsInv
  <2> QED BY ONLY <1>2, <2>1
<1>6. delayed' = <<>> /\ exit_time' <= now' /\ file'.mtime <= now'
  BY <1>1, <1>2 DEF FingerprintsInv
<1> QED BY SMT, <1>1, <1>3, <1>4, <1>5, <1>6 DEF FingerprintsInv

\* A run starts, or goes on to the next step, without writing anything.
LEMMA QuietStepKeeps ==
  FingerprintsInv /\ (Check \/ AskClock \/ TakeFingerprint \/ NotLogged \/ OtherUser)
    => FingerprintsInv'
<1> SUFFICES ASSUME FingerprintsInv,
                    Check \/ AskClock \/ TakeFingerprint \/ NotLogged \/ OtherUser
             PROVE  FingerprintsInv'
  OBVIOUS
<1>1. /\ UNCHANGED <<now, file, exit_time, known, entry, delayed>>
      /\ saved' = saved \/ saved' = {<<known, entry>>}
  BY DEF Check, AskClock, TakeFingerprint, NotLogged, OtherUser
<1>2. \A p \in saved' : InLog(p[1]) /\ InLog(p[2])
  BY SMT, <1>1 DEF FingerprintsInv
<1>3. /\ InLog(known)' /\ InLog(entry)'
      /\ (\A p \in saved : InLog(p[1]) /\ InLog(p[2]))'
      /\ (\A k \in 1..Len(delayed) : DelayedOK(delayed[k]))'
  BY <1>1, <1>2, Frame DEF FingerprintsInv
<1>4. StepDone' <=> StepDone
  BY <1>1 DEF StepDone, fromStat
<1>5. ASSUME Check PROVE FingerprintsInv'
  <2>1. /\ phase = "idle" /\ mine' = TRUE /\ delayed = <<>>
        /\ UNCHANGED <<failed, timestamp, taken>>
        /\ phase' \in {"command", "fingerprint", "running"}
        /\ phase' = "running" => /\ entry # NoFingerprint
                                 /\ fingerprintMatches(entry, file).clean
                                 /\ ~fingerprintMatches(entry, file).should_update
    BY <1>5 DEF Check, FingerprintsInv
  <2>2. TypeOK'
    BY <1>1, <1>2, <2>1, SavedTyped DEF FingerprintsInv, TypeOK, Phases
  <2>3. phase' = "running" => StepDone
    BY <2>1 DEF fingerprintMatches, StepDone
  <2> QED BY <1>1, <1>3, <1>4, <2>1, <2>2, <2>3 DEF FingerprintsInv
<1>6. ASSUME AskClock PROVE FingerprintsInv'
  <2>1. /\ phase = "fingerprint" /\ phase' = "stat" /\ timestamp' = now
        /\ UNCHANGED <<mine, failed, taken, saved>>
    BY <1>6 DEF AskClock
  <2>2. TypeOK'
    BY <1>1, <2>1 DEF FingerprintsInv, TypeOK, Phases
  <2> QED BY <1>1, <1>3, <1>4, <2>1, <2>2 DEF FingerprintsInv
<1>7. ASSUME TakeFingerprint PROVE FingerprintsInv'
  <2>1. phase = "stat" /\ phase' = "log" /\ UNCHANGED <<mine, failed, timestamp, saved>>
    BY <1>7 DEF TakeFingerprint
  <2>2. IsFresh(taken', now)
    BY <1>7, TakenIsFresh DEF FingerprintsInv, TypeOK, InLog
  <2>3. IsFresh(taken, now)'
    BY <1>1, <2>2 DEF IsFresh, Agrees, fromStat
  <2>4. TypeOK'
    BY <1>1, <2>1, <2>2 DEF FingerprintsInv, TypeOK, Phases, IsFresh
  <2> QED BY <1>1, <1>3, <1>4, <2>1, <2>3, <2>4 DEF FingerprintsInv
<1>8. ASSUME OtherUser PROVE FingerprintsInv'
  <2>1. /\ phase = "running" /\ phase' = "fingerprint" /\ mine' = FALSE
        /\ UNCHANGED <<failed, timestamp, taken, saved>>
    BY <1>8 DEF OtherUser
  <2>2. TypeOK'
    BY <1>1, <2>1 DEF FingerprintsInv, TypeOK, Phases
  <2> QED BY <1>1, <1>3, <1>4, <2>1, <2>2 DEF FingerprintsInv
<1>9. ASSUME NotLogged PROVE FingerprintsInv'
  <2>1. /\ phase = "log" /\ phase' = "running" /\ failed /\ taken' = NoFingerprint
        /\ UNCHANGED <<mine, failed, timestamp, saved>>
    BY <1>9 DEF NotLogged
  <2>2. TypeOK'
    BY <1>1, <2>1 DEF FingerprintsInv, TypeOK, Phases
  <2> QED BY <1>1, <1>3, <1>4, <2>1, <2>2 DEF FingerprintsInv
<1> QED BY <1>5, <1>6, <1>7, <1>8, <1>9

\* A step is logged, and the old entries are written with it.
LEMMA LoggingKeeps == FingerprintsInv /\ (RanCommand \/ RanOther) => FingerprintsInv'
<1> SUFFICES ASSUME FingerprintsInv, RanCommand \/ RanOther PROVE FingerprintsInv'
  OBVIOUS
<1>1. /\ UNCHANGED <<now, file, exit_time, mine, failed, timestamp>>
      /\ phase' = "running"
      /\ taken' \in FingerprintOrNone
  BY DEF RanCommand, RanOther, FingerprintsInv, TypeOK, FingerprintOrNone
<1>2. ASSUME NEW added \in Seq(DelayedEntry), \A k \in 1..Len(added) : DelayedOK(added[k]),
             writeDelayedEntries(now, added),
             ~failed => (StepDone \/ \E j \in 1..Len(added) : added[j].mine)
      PROVE  FingerprintsInv'
  <2>1. /\ InLog(known') /\ InLog(entry')
        /\ \A p \in saved' : InLog(p[1]) /\ InLog(p[2])
        /\ delayed' \in Seq(DelayedEntry)
        /\ \A k \in 1..Len(delayed') : DelayedOK(delayed'[k])
        /\ \A j \in 1..Len(added) : \E k \in 1..Len(delayed') : delayed'[k] = added[j]
        /\ StepDone => \/ entry' = NoFingerprint
                       \/ entry'.stat = fromStat(file)
                       \/ \E k \in 1..Len(delayed') : delayed'[k].mine
    BY <1>2, WriteKeeps
  <2>2. /\ InLog(known)' /\ InLog(entry)'
        /\ (\A p \in saved : InLog(p[1]) /\ InLog(p[2]))'
        /\ (\A k \in 1..Len(delayed) : DelayedOK(delayed[k]))'
    BY <1>1, <2>1, Frame
  <2>3. \A p \in saved' : \A k \in 1..2 : p[k] \in Fingerprint \cup {NoFingerprint}
    BY <2>1, SavedTyped
  <2>4. TypeOK'
    BY <1>1, <2>1, <2>3 DEF FingerprintsInv, TypeOK, Phases, InLog, FingerprintOrNone
  <2>5. ~failed => StepDone'
    <3> SUFFICES ASSUME ~failed PROVE StepDone'
      OBVIOUS
    <3>1. fromStat(file)' = fromStat(file)
      BY <1>1 DEF fromStat
    <3>2. \/ entry' = NoFingerprint
          \/ entry'.stat = fromStat(file)
          \/ \E k \in 1..Len(delayed') : delayed'[k].mine
      BY <1>2, <2>1
    <3> QED BY ONLY <3>1, <3>2 DEF StepDone
  <2> QED BY <1>1, <2>2, <2>4, <2>5 DEF FingerprintsInv
<1>3. CASE RanCommand
  <2>1. phase = "log" /\ writeDelayedEntries(now, <<RanCommandEntry>>)
    BY <1>3 DEF RanCommand
  <2>2. IsFresh(taken, now) /\ now \in Nat /\ mine \in BOOLEAN
    BY <2>1 DEF FingerprintsInv, TypeOK
  <2>3. RanCommandEntry \in DelayedEntry
    BY <2>2 DEF RanCommandEntry, DelayedEntry, IsFresh
  <2>4. DelayedOK(RanCommandEntry)
    BY SMT, <2>2 DEF RanCommandEntry, DelayedOK
  <2>5. ~failed => (StepDone \/ RanCommandEntry.mine)
    BY <2>1, <2>2 DEF FingerprintsInv, RanCommandEntry
  <2>6. PICK added : /\ added = <<RanCommandEntry>>
                     /\ added \in Seq(DelayedEntry)
                     /\ Len(added) = 1 /\ added[1] = RanCommandEntry
    <3>1. /\ <<RanCommandEntry>> \in Seq(DelayedEntry)
          /\ Len(<<RanCommandEntry>>) = 1 /\ <<RanCommandEntry>>[1] = RanCommandEntry
      BY SMT, <2>3
    <3> QED BY <3>1, Zenon
  <2>7. \A k \in 1..Len(added) : DelayedOK(added[k])
    BY SMT, <2>4, <2>6
  <2>8. ~failed => (StepDone \/ \E j \in 1..Len(added) : added[j].mine)
    BY SMT, <2>5, <2>6
  <2> QED BY <1>2, <2>1, <2>6, <2>7, <2>8
<1>4. CASE RanOther
  <2>1. writeDelayedEntries(now, <<>>) /\ (~failed => StepDone)
    BY <1>4 DEF RanOther, FingerprintsInv
  <2>2. <<>> \in Seq(DelayedEntry) /\ \A k \in 1..Len(<<>>) : DelayedOK(<<>>[k])
    BY SMT
  <2> QED BY <1>2, <2>1, <2>2
<1> QED BY <1>3, <1>4

\* The file is deleted as a stale output.
LEMMA CleanKeeps == FingerprintsInv /\ Clean => FingerprintsInv'
<1> SUFFICES ASSUME FingerprintsInv, Clean PROVE FingerprintsInv'
  OBVIOUS
<1>1. /\ UNCHANGED <<now, exit_time, known, entry, mine, failed, timestamp, taken>>
      /\ file' = [file EXCEPT !.mode = Absent]
      /\ saved' = {<<known, entry>>}
      /\ phase' = "running"
      /\ delayed' = <<CleanedCommandEntry>>
      /\ now \in Nat /\ file \in File
  BY DEF Clean, FingerprintsInv, TypeOK
<1>2. file' \in File /\ file'.mtime = file.mtime /\ file'.mode = Absent
  BY <1>1 DEF File
<1>3. ASSUME NEW fp, InLog(fp) PROVE InLog(fp)'
  BY ONLY <1>1, <1>2, <1>3 DEF InLog, Agrees, Settled
<1>4. InLog(known)' /\ InLog(entry)'
  <2>1. InLog(known) /\ InLog(entry) /\ known' = known /\ entry' = entry
    BY <1>1 DEF FingerprintsInv
  <2> QED BY ONLY <1>3, <2>1 DEF InLog, Agrees, Settled
<1>5. (\A p \in saved : InLog(p[1]) /\ InLog(p[2]))'
  <2>1. \A p \in saved' : InLog(p[1]) /\ InLog(p[2])
    BY SMT, <1>1 DEF FingerprintsInv
  <2> QED BY ONLY <1>3, <2>1
<1>6. /\ CleanedCommandEntry \in DelayedEntry
      /\ CleanedCommandEntry.mine = TRUE
      /\ CleanedCommandEntry.cleaned = TRUE
      /\ CleanedCommandEntry.timestamp = now
  BY <1>1 DEF CleanedCommandEntry, DelayedEntry
<1>7. /\ delayed' \in Seq(DelayedEntry)
      /\ Len(delayed') = 1
      /\ delayed'[1] = CleanedCommandEntry
  BY SMT, <1>1, <1>6
<1>8. (\A k \in 1..Len(delayed) : DelayedOK(delayed[k]))'
  BY SMT, <1>1, <1>6, <1>7 DEF DelayedOK
<1>9. StepDone'
  BY SMT, <1>6, <1>7 DEF StepDone
<1>10. TypeOK'
  <2>1. \A p \in saved' : InLog(p[1]) /\ InLog(p[2])
    BY SMT, <1>1 DEF FingerprintsInv
  <2> QED BY <1>1, <1>2, <1>7, <2>1, SavedTyped DEF FingerprintsInv, TypeOK, Phases
<1> QED BY <1>1, <1>2, <1>4, <1>5, <1>8, <1>9, <1>10 DEF FingerprintsInv

\* What the log has at the end of a run.
LEMMA ExitLog ==
  ASSUME FingerprintsInv, Exit
  PROVE  /\ InLog(known)' /\ InLog(entry)'
         /\ failed \/ entry' = NoFingerprint \/ entry'.stat = fromStat(file)
<1>1. /\ known' = KnownAfter(Len(delayed)) /\ entry' = EntryAfter(Len(delayed))
      /\ UNCHANGED <<now, file>> /\ exit_time' = now
      /\ phase = "running" /\ (~failed => StepDone)
  BY DEF Exit, WriteEntries, FingerprintsInv
<1>2. Len(delayed) \in 0..Len(delayed) /\ now \in Nat
  BY SMT, LenProperties DEF FingerprintsInv, TypeOK
<1> DEFINE Written(fp) == /\ fp \in FingerprintOrNone
                          /\ Agrees(fp)
                          /\ fp = NoFingerprint \/ (fp.stat.mtime <= now /\ fp.racily_clean = FALSE)
<1>3. Written(known) /\ Written(entry) /\ Written(NoFingerprint)
  BY DEF FingerprintsInv, InLog, Settled, Agrees, FingerprintOrNone
<1>4. ASSUME NEW k \in 1..Len(delayed), ~delayed[k].cleaned
      PROVE  /\ Written(NotRacilyClean(delayed[k].fingerprint))
             /\ NotRacilyClean(delayed[k].fingerprint).stat = fromStat(file)
  <2>1. IsFresh(delayed[k].fingerprint, delayed[k].timestamp) /\ delayed[k].timestamp <= now
    BY <1>4 DEF FingerprintsInv, DelayedOK
  <2>2. delayed[k].fingerprint \in Fingerprint /\ delayed[k] \in DelayedEntry
    BY SMT, <2>1 DEF IsFresh, FingerprintsInv, TypeOK
  <2>3. PICK q : q = NotRacilyClean(delayed[k].fingerprint)
    OBVIOUS
  <2>4. /\ q \in Fingerprint /\ q # NoFingerprint
        /\ q.stat = delayed[k].fingerprint.stat
        /\ q.hash = delayed[k].fingerprint.hash
        /\ q.racily_clean = FALSE
    BY <2>2, <2>3, NotRacilyCleanFacts
  <2>5. Agrees(delayed[k].fingerprint) /\ delayed[k].fingerprint # NoFingerprint
    BY <2>1, <2>2, FingerprintsTyped DEF IsFresh
  <2>6. /\ delayed[k].timestamp \in Nat
        /\ delayed[k].fingerprint.stat.mtime \in Nat
        /\ delayed[k].fingerprint.stat.mtime <= delayed[k].timestamp
        /\ delayed[k].fingerprint.stat = fromStat(file)
    BY <2>1, <2>2 DEF DelayedEntry, Fingerprint, FStat, IsFresh
  <2>7. q.stat.mtime <= now
    BY ONLY SMT, <1>2, <2>1, <2>4, <2>6
  <2>8. Agrees(q)
    BY ONLY <2>4, <2>5 DEF Agrees
  <2> QED BY <2>3, <2>4, <2>6, <2>7, <2>8 DEF FingerprintOrNone
<1>5. /\ Written(known') /\ Written(entry')
      /\ failed \/ entry' = NoFingerprint \/ entry'.stat = fromStat(file)
  <2> HIDE DEF Written
  <2>1. TypeOK
    BY DEF FingerprintsInv
  <2> QED BY <1>1, <1>2, <1>3, <1>4, <2>1, AfterCases DEF StepDone
<1> QED BY ONLY <1>1, <1>5 DEF InLog, Agrees, Settled

\* A run ends, or is killed.
LEMMA EndKeeps == FingerprintsInv /\ (Exit \/ Kill) => FingerprintsInv'
<1> SUFFICES ASSUME FingerprintsInv, Exit \/ Kill PROVE FingerprintsInv'
  OBVIOUS
<1>1. /\ UNCHANGED <<now, file>> /\ phase' = "idle" /\ mine' = FALSE /\ failed' = FALSE
      /\ delayed' = <<>> /\ saved' = {} /\ timestamp' = 0
      /\ exit_time' \in {now, exit_time}
      /\ taken' \in FingerprintOrNone
  BY DEF Exit, Kill, FingerprintsInv, TypeOK, FingerprintOrNone
<1>2. InLog(known)' /\ InLog(entry)'
  <2>1. CASE Exit
    BY <2>1, ExitLog
  <2>2. CASE Kill
    <3>1. InLog(known') /\ InLog(entry') /\ UNCHANGED <<now, file, exit_time>>
      BY <2>2 DEF Kill, FingerprintsInv
    <3> QED BY <3>1, Frame
  <2> QED BY <2>1, <2>2
<1>3. now \in Nat /\ exit_time \in Nat /\ file \in File /\ file.mtime <= now /\ exit_time <= now
  BY DEF FingerprintsInv, TypeOK
<1>4. known' \in FingerprintOrNone /\ entry' \in FingerprintOrNone
  BY <1>2 DEF InLog, FingerprintOrNone, Fingerprint, FStat
<1>5. delayed' \in Seq(DelayedEntry) /\ Len(delayed') = 0
  BY SMT, <1>1
<1>6. TypeOK'
  BY <1>1, <1>3, <1>4, <1>5 DEF TypeOK, Phases, FingerprintOrNone
<1>7. exit_time' <= now' /\ file'.mtime <= now'
  BY SMT, <1>1, <1>3
<1> QED BY SMT, <1>1, <1>2, <1>5, <1>6, <1>7 DEF FingerprintsInv

\* Every step keeps the invariant, if no file is written in the rest of the second
\* in which a run of shk ends.
THEOREM FingerprintsInductive ==
  ASSUME Quiet
  PROVE  Spec => []FingerprintsInv
<1>1. FingerprintsInv /\ [Next]_vars => FingerprintsInv'
  <2> SUFFICES ASSUME FingerprintsInv, [Next]_vars PROVE FingerprintsInv'
    OBVIOUS
  <2>1. CASE Next
    BY <2>1, TickKeeps, FileChangeKeeps, QuietStepKeeps, LoggingKeeps, CleanKeeps, EndKeeps
       DEF Next
  <2>2. CASE UNCHANGED vars
    <3>1. UNCHANGED <<now, file, known, entry, phase, mine, failed, timestamp, taken,
                      delayed, saved, exit_time>>
      BY <2>2 DEF vars
    <3>2. TypeOK'
      BY <3>1 DEF FingerprintsInv, TypeOK
    <3>3. /\ InLog(known)' /\ InLog(entry)'
          /\ (\A p \in saved : InLog(p[1]) /\ InLog(p[2]))'
          /\ (\A k \in 1..Len(delayed) : DelayedOK(delayed[k]))'
      BY <3>1, Frame DEF FingerprintsInv
    <3>4. (StepDone' <=> StepDone) /\ (IsFresh(taken, now)' <=> IsFresh(taken, now))
      BY <3>1 DEF StepDone, IsFresh, Agrees, fromStat
    <3> QED BY <3>1, <3>2, <3>3, <3>4 DEF FingerprintsInv
  <2> QED BY <2>1, <2>2
<1> QED BY <1>1, FingerprintsInitially, PTL DEF Spec

\* A fingerprint in the log is found to match only a file whose mode and content
\* are the ones that were fingerprinted (fingerprintMatches), however often shk
\* is run or killed.
THEOREM MatchIsSoundCorrect ==
  ASSUME Quiet
  PROVE  Spec => []MatchIsSound
<1>1. FingerprintsInv => MatchIsSound
  <2> SUFFICES ASSUME FingerprintsInv, entry # NoFingerprint, fingerprintMatches(entry, file).clean
               PROVE  entry.hash = computeFingerprintHash(file)
    BY DEF MatchIsSound
  <2>1. entry \in Fingerprint /\ Agrees(entry) /\ file \in File
    BY DEF FingerprintsInv, InLog, FingerprintOrNone, TypeOK
  <2> QED BY <2>1, AgreesIsSound
<1> QED BY <1>1, FingerprintsInductive, PTL

\* After a run that came to its end the file matches by its stat alone: the next
\* run has nothing to hash (DelayedInvocationLog, MatchesResult::should_update).
THEOREM SecondRunIsNoOpCorrect ==
  ASSUME Quiet
  PROVE  Spec => SecondRunIsNoOp
<1>1. FingerprintsInv /\ [Next]_vars
        => [(Exit /\ ~failed /\ entry' # NoFingerprint)
              => fingerprintMatches(entry', file') = [clean |-> TRUE, should_update |-> FALSE]]_vars
  <2> SUFFICES ASSUME FingerprintsInv, Exit, ~failed, entry' # NoFingerprint
               PROVE  fingerprintMatches(entry', file') = [clean |-> TRUE, should_update |-> FALSE]
    OBVIOUS
  <2>1. entry'.stat = fromStat(file') /\ entry'.racily_clean = FALSE
    BY ExitLog DEF InLog, Settled, Exit
  <2>2. ~NeedsHash(entry', file')
    BY <2>1 DEF NeedsHash
  <2> QED BY <2>1, <2>2 DEF fingerprintMatches
<1> QED BY <1>1, FingerprintsInductive, PTL DEF Spec, SecondRunIsNoOp
=============================================================================
