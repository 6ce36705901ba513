----------------------------- MODULE Optionals ------------------------------
(***************************************************************************)
(* detail::Optional (rs/detail/optional.h) holding weak referees, as Zip,  *)
(* ConcatMap, Start and the callback subscriptions hold the subscribers    *)
(* that others point at.  An Optional is raw memory and a byte that says   *)
(* whether an object lives there, and it calls constructors and            *)
(* destructors by hand; what it holds must be constructed and destroyed    *)
(* exactly once, and a weak reference to it must survive every move.       *)
(*                                                                         *)
(* A referee cannot be copied, so the copying constructor and assignments  *)
(* do not exist for it.  A lambda can be moved but not assigned: which of  *)
(* the two Assign methods the compiler picks is the constant               *)
(* MoveAssignable.                                                         *)
(***************************************************************************)
EXTENDS WeakReferences, Integers

CONSTANTS Optionals,       \* the Optionals; each is the address of its storage
          Temporary,       \* the local variable of std::swap
          MoveAssignable   \* std::is_move_assignable<T>

ASSUME OptionalsAssumption ==
  /\ Optionals \subseteq Referees
  /\ Temporary \in Referees \ Optionals
  /\ MoveAssignable \in BOOLEAN

VARIABLE set               \* the last byte of data_ of every Optional

optionalVars == <<graph, set>>

-----------------------------------------------------------------------------
(* The methods, on the memory m = [graph, set].                            *)

\* Mutant: the object is destroyed and the flag is left as it was.
DestroyWithoutClear(m, o) ==
  [m EXCEPT !.graph = IF m.set[o] THEN DestroyReferee(@, o) ELSE @]

Clear(m, o) ==
  IF m.set[o]
  THEN [graph |-> DestroyReferee(m.graph, o), set |-> [m.set EXCEPT ![o] = FALSE]]
  ELSE m

\* MoveConstruct(std::move(*x)); SetSet(true)
Fill(m, o, x) ==
  [graph |-> MoveConstructReferee(m.graph, o, x),
   set   |-> [m.set EXCEPT ![o] = TRUE]]

\* Assign(value_type &&by_move)
Assign(m, o, x) ==
  IF m.set[o] /\ MoveAssignable
  THEN [m EXCEPT !.graph = MoveAssignReferee(@, o, x)]
  ELSE Fill(Clear(m, o), o, x)

\* Optional(Optional<T> &&other)
MoveConstructOptional(m, o, other) ==
  IF m.set[other] THEN Clear(Fill(m, o, other), other) ELSE m

\* Optional<T>& operator=(Optional<T> &&other)
MoveAssignOptional(m, o, other) ==
  IF m.set[other] THEN Clear(Assign(m, o, other), other) ELSE Clear(m, o)

\* std::swap(*lhs, *rhs): a temporary and two assignments.
SwapValues(m, l, r) ==
  LET held == MoveConstructReferee(m.graph, Temporary, l)
      one  == MoveAssignReferee(held, l, r)
      two  == MoveAssignReferee(one, r, Temporary)
  IN  [m EXCEPT !.graph = DestroyReferee(two, Temporary)]

\* std::swap(Optional<T> &lhs, Optional<T> &rhs)
Swap(m, l, r) ==
  CASE m.set[l] /\ m.set[r] -> SwapValues(m, l, r)
    [] m.set[l] /\ ~m.set[r] -> MoveAssignOptional(m, r, l)
    [] ~m.set[l] /\ m.set[r] -> MoveAssignOptional(m, l, r)
    [] ~m.set[l] /\ ~m.set[r] -> m

-----------------------------------------------------------------------------
(* operator== and operator< of two Optionals, and of an Optional and a     *)
(* value: Unset stands for an Optional that is not set.                    *)

Unset == [set |-> FALSE]
Some(v) == [set |-> TRUE, value |-> v]

OptionalEquals(x, y) ==
  \/ ~x.set /\ ~y.set
  \/ x.set /\ y.set /\ x.value = y.value

OptionalLess(x, y) == y.set /\ (x.set => x.value < y.value)
ValueLessOptional(v, y) == y.set /\ v < y.value
OptionalLessValue(x, v) == x.set => x.value < v

\* operator!=, >, <= and >= are made of the two above.
OptionalAtMost(x, y) == ~OptionalLess(y, x)

-----------------------------------------------------------------------------
(* The steps of a program that uses Optionals of weak referees.            *)

Memory == [graph |-> graph, set |-> set]

Becomes(m) == graph' = m.graph /\ set' = m.set

OptionalInit == GraphInit /\ set = [o \in Optionals |-> FALSE]

ObjectStep == (ReferenceStep \/ RefereeStep(Optionals \cup {Temporary})) /\ UNCHANGED set

\* ~Optional is Clear; it and Optional() leave an Optional that is not set.
ClearStep == \E o \in Optionals : Becomes(Clear(Memory, o))

\* Optional(value_type &&) and operator=(value_type &&)
SetStep ==
  \E o \in Optionals, x \in graph.referees :
    x # o /\ Becomes(Assign(Memory, o, x))

MoveConstructStep ==
  \E o, other \in Optionals :
    o # other /\ ~set[o] /\ Becomes(MoveConstructOptional(Memory, o, other))

MoveAssignStep ==
  \E o, other \in Optionals :
    o # other /\ Becomes(MoveAssignOptional(Memory, o, other))

\* Swapping assigns, so it only exists for a T that can be assigned.
SwapStep ==
  \E l, r \in Optionals :
    MoveAssignable /\ l # r /\ Becomes(Swap(Memory, l, r))

OptionalNext ==
  ObjectStep \/ ClearStep \/ SetStep \/ MoveConstructStep \/ MoveAssignStep \/ SwapStep

OptionalSpec == OptionalInit /\ [][OptionalNext]_optionalVars

-----------------------------------------------------------------------------
(* Properties.                                                             *)

\* There is a living object in an Optional exactly when its last byte says so
\* (optional.h:369 "The last byte of this char array is non-zero if data_
\* contains an initialized value"): nothing is destroyed twice, leaked or
\* constructed on top of another object.
FlagIsLifetime == \A o \in Optionals : set[o] <=> o \in graph.referees
=============================================================================
