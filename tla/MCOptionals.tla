---------------------------- MODULE MCOptionals -----------------------------
(* Optionals of weak referees on a small instance.  Addresses of one kind  *)
(* are interchangeable.                                                    *)
EXTENDS Optionals, TLC

CONSTANTS r1, r2, r3, local1, o1, o2, temp, k1, k2, k3

MCReferences == {r1, r2, r3}
MCReferees == {local1, o1, o2, temp}
MCOptionals == {o1, o2}
MCObjects == {k1, k2, k3}

Symmetry == Permutations(MCReferences) \cup Permutations(MCOptionals)
              \cup Permutations(MCObjects)
=============================================================================
