------------------------------ MODULE MCLifetime ------------------------------
(* An instance of Lifetime for TLC: one issue and an ad-hoc delivery. *)
EXTENDS Lifetime, TLC

CONSTANTS i1, k1, k2, k3, k4, o1, o2, c1, c2

\* Keys that ask for the issue are alike; k4 asks for an ad-hoc delivery.
Requests == [k \in Keys |-> IF k = k4 THEN Adhoc ELSE i1]

StartSymmetry == Permutations(Callers) \cup Permutations(Orgs) \cup Permutations(Keys \ {k4})
=============================================================================
