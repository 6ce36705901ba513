--------------------------- MODULE WeakReferences ---------------------------
(***************************************************************************)
(* WeakReference and WeakReferee (rs/weak_reference.h): a pair of raw      *)
(* pointers that point at each other.  The operators of the streams        *)
(* library keep one of the two in the subscription and the other in the    *)
(* subscriber, and then both are moved into their final places, moved      *)
(* over, and destroyed, in any order.  Every move has to repair the        *)
(* pointer at the other end.                                               *)
(*                                                                         *)
(* An object is its address.  The operations are functions of the graph of *)
(* pointers, so that a class that contains referees (Optionals) can do     *)
(* several in one of its own steps.  Memory of an object that is not       *)
(* alive keeps its last contents: a pointer into it is a dangling pointer, *)
(* not a null pointer.                                                     *)
(***************************************************************************)

CONSTANTS References,   \* addresses of WeakReference objects
          Referees,     \* addresses of WeakReferee objects
          Objects,      \* identities of the values of type T
          Null          \* nullptr; also "no object"

ASSUME NullAssumption == Null \notin References \cup Referees \cup Objects

VARIABLE
  (*************************************************************************)
  (* val     : WeakReference::val_ of every address of a reference         *)
  (* backref : WeakReferee::backref_ of every address of a referee         *)
  (* refs, referees : the addresses at which there is a living object      *)
  (* holds   : the T that a referee derives from; Null once moved away     *)
  (* names   : the T the reference was made for.  Nothing in the code      *)
  (*           stores this: it is history, for FollowsItsObject.           *)
  (*************************************************************************)
  graph

Graph ==
  [val      : [References -> Referees \cup {Null}],
   backref  : [Referees -> References \cup {Null}],
   refs     : SUBSET References,
   referees : SUBSET Referees,
   holds    : [Referees -> Objects \cup {Null}],
   names    : [References -> Objects \cup {Null}]]

GraphInit ==
  graph = [val      |-> [r \in References |-> Null],
           backref  |-> [x \in Referees |-> Null],
           refs     |-> {},
           referees |-> {},
           holds    |-> [x \in Referees |-> Null],
           names    |-> [r \in References |-> Null]]

-----------------------------------------------------------------------------
(* The two writes through a pointer that the methods are made of.          *)

\* backref_->val_ = to, if there is a backref_.
WriteVal(g, x, to) ==
  IF g.backref[x] # Null THEN [g EXCEPT !.val[g.backref[x]] = to] ELSE g

\* set_backref_(val_, to), if there is a val_.
SetBackref(g, r, to) ==
  IF g.val[r] # Null THEN [g EXCEPT !.backref[g.val[r]] = to] ELSE g

-----------------------------------------------------------------------------
(* WeakReferee.                                                            *)

\* ~WeakReferee
DestroyReferee(g, x) ==
  [WriteVal(g, x, Null) EXCEPT !.referees = @ \ {x}]

\* WeakReferee(WeakReferee &&other)
MoveConstructReferee(g, x, other) ==
  WriteVal([g EXCEPT !.referees = @ \cup {x},
                     !.holds    = [@ EXCEPT ![x] = g.holds[other],
                                            ![other] = Null],
                     !.backref  = [@ EXCEPT ![x] = g.backref[other],
                                            ![other] = Null]],
           x, x)

\* The part of operator= that follows `backref_->val_ = nullptr`.
TakeOver(g, x, other) ==
  WriteVal([g EXCEPT !.holds   = [@ EXCEPT ![x] = g.holds[other],
                                           ![other] = Null],
                     !.backref = [@ EXCEPT ![x] = g.backref[other],
                                           ![other] = Null]],
           x, x)

\* Mutant: the reference to the overwritten object is not cleared.
OverwriteWithoutClearing(g, x, other) == TakeOver(g, x, other)

\* WeakReferee &operator=(WeakReferee &&other)
MoveAssignReferee(g, x, other) == TakeOver(WriteVal(g, x, Null), x, other)

-----------------------------------------------------------------------------
(* WeakReference.                                                          *)

\* WeakReference()
ConstructReference(g, r) ==
  [g EXCEPT !.refs = @ \cup {r}, !.val[r] = Null, !.names[r] = Null]

\* ~WeakReference
DestroyReference(g, r) == [SetBackref(g, r, Null) EXCEPT !.refs = @ \ {r}]

\* WeakReference(WeakReference &&other)
MoveConstructReference(g, r, other) ==
  SetBackref([g EXCEPT !.refs  = @ \cup {r},
                       !.val   = [@ EXCEPT ![r] = g.val[other],
                                           ![other] = Null],
                       !.names = [@ EXCEPT ![r] = g.names[other],
                                           ![other] = Null]],
             r, r)

\* The part of operator= that follows `set_backref_(val_, nullptr)`.  `to` is
\* the other reference's val_ and k the object it was made for.
PointAt(g, r, to, k) ==
  SetBackref([g EXCEPT !.val[r] = to, !.names[r] = k], r, r)

\* WeakReference &operator=(WeakReference &&other)
MoveAssignReference(g, r, other) ==
  PointAt([SetBackref(g, r, Null) EXCEPT !.val[other] = Null,
                                         !.names[other] = Null],
          r, g.val[other], g.names[other])

Reset(g, r) == [SetBackref(g, r, Null) EXCEPT !.val[r] = Null,
                                              !.names[r] = Null]

\* WithSingleWeakReference: a new referee for the object k, whose reference is
\* moved into *r.
WithWeakReference(g, x, r, k) ==
  PointAt([SetBackref(g, r, Null) EXCEPT !.referees = @ \cup {x},
                                         !.backref[x] = Null,
                                         !.holds[x] = k],
          r, x, k)

-----------------------------------------------------------------------------
(* What a program can do with them.  It does not use an object outside its *)
(* lifetime, and nothing in the library moves an object into itself.       *)

\* A new T: the identity is only history, so one that nothing mentions.
Fresh(k) ==
  /\ \A x \in graph.referees : graph.holds[x] # k
  /\ \A r \in graph.refs : graph.names[r] # k

ReferenceStep ==
  \/ \E r \in References \ graph.refs :
       \/ graph' = ConstructReference(graph, r)
       \/ \E other \in graph.refs :
            graph' = MoveConstructReference(graph, r, other)
  \/ \E r \in graph.refs :
       \/ graph' = Reset(graph, r)
       \/ graph' = DestroyReference(graph, r)
       \/ \E other \in graph.refs \ {r} :
            graph' = MoveAssignReference(graph, r, other)

\* The addresses `Owned` belong to a container, which constructs and destroys
\* what is there; anyone may move out of them and move into a living one.
RefereeStep(Owned) ==
  \/ \E x \in Referees \ (graph.referees \cup Owned) :
       \/ \E r \in graph.refs, k \in Objects :
            Fresh(k) /\ graph' = WithWeakReference(graph, x, r, k)
       \/ \E other \in graph.referees :
            graph' = MoveConstructReferee(graph, x, other)
  \/ \E x \in graph.referees \ Owned : graph' = DestroyReferee(graph, x)
  \/ \E x \in graph.referees : \E other \in graph.referees \ {x} :
       graph' = MoveAssignReferee(graph, x, other)

-----------------------------------------------------------------------------
(* Properties.                                                             *)

\* A reference and its referee always point at each other, and never at an
\* object that has been destroyed: weak_reference.h repairs both ends in every
\* move, assignment, Reset and destructor.
PointersAgreeIn(g) ==
  /\ \A r \in g.refs :
       g.val[r] # Null => /\ g.val[r] \in g.referees
                          /\ g.backref[g.val[r]] = r
  /\ \A x \in g.referees :
       g.backref[x] # Null => /\ g.backref[x] \in g.refs
                              /\ g.val[g.backref[x]] = x

PointersAgree == PointersAgreeIn(graph)

\* Wherever the object has been moved to, the reference that was made for it
\* finds it there, and a reference is only null when its object is gone: the
\* code takes a null reference to mean that the other half was destroyed, "by
\* definition already cancelled" (reduce.h:130, zip.h:126).
FollowsItsObjectIn(g) ==
  \A r \in g.refs :
    /\ g.val[r] # Null => g.holds[g.val[r]] = g.names[r]
    /\ \A x \in g.referees :
         g.names[r] # Null /\ g.holds[x] = g.names[r] => g.val[r] = x

FollowsItsObject == FollowsItsObjectIn(graph)
=============================================================================
