--------------------------- MODULE MCFingerprints ---------------------------
(***************************************************************************)
(* Fingerprints with three contents, two of which have the same size.      *)
(* Time and the number of delayed entries are bounded by a constraint.     *)
(***************************************************************************)
EXTENDS Fingerprints

MCMode == {"file", "exec"}
MCContent == {"a", "b", "cc"}
MCSize == [c \in MCContent |-> IF c = "cc" THEN 2 ELSE 1]
MCIno == {1, 2}

MaxTime == 3
MaxDelayed == 2
Bounded == now <= MaxTime /\ Len(delayed) <= MaxDelayed
=============================================================================
