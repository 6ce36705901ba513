---------------------------- MODULE ElementCount ----------------------------
(***************************************************************************)
(* The demand counter of the rs library (element_count.h): a long long     *)
(* whose largest value means "unbounded".  Adding to or taking from an     *)
(* unbounded count leaves it unbounded, an addition that would overflow    *)
(* becomes unbounded, and one that would go below the smallest value       *)
(* throws std::range_error.                                                *)
(*                                                                         *)
(* MaxValue stands for std::numeric_limits<long long>::max().              *)
(***************************************************************************)
EXTENDS Integers

CONSTANT MaxValue

ASSUME MaxValueAssumption == MaxValue \in Nat \ {0}

MinValue == -MaxValue - 1

\* The values a long long can hold.
Count == MinValue .. MaxValue

Unbounded == MaxValue

\* What an operation that throws std::range_error returns here.
RangeError == MaxValue + 1

IsUnbounded(a) == a = Unbounded

-----------------------------------------------------------------------------
ElementCountAdd(a, b) ==
    IF (b > 0 /\ a > MaxValue - b) \/ (b < 0 /\ a = MaxValue) THEN MaxValue
    ELSE IF b < 0 /\ a < MinValue - b THEN RangeError
    ELSE a + b

ElementCountSubtract(a, b) ==
    IF (b < 0 /\ a > MaxValue + b) \/ (b > 0 /\ a = MaxValue) THEN MaxValue
    ELSE IF b > 0 /\ a < MinValue + b THEN RangeError
    ELSE a - b

Increment(a) == IF IsUnbounded(a) THEN a ELSE a + 1

\* Mutant: every count is taken for unbounded.
DecrementDoesNothing(a) == a

\* operator-- ; a bounded count is never the smallest value in the library.
Decrement(a) ==
    IF a = MinValue THEN RangeError
    ELSE IF IsUnbounded(a) THEN a ELSE a - 1
=============================================================================
