---------------------------- MODULE MCCompletion ----------------------------
(* Instances of LaneCompletion for TLC: requests for one lane of one task. *)
EXTENDS LaneCompletion, TLC

CONSTANTS o1, p1, t1, l1, c1, c2, k1, k2, d1

OneHome == [x \in {t1, l1} |-> o1]
NoStages == {}

\* Two agents report the same dimension; one accepts the work, one fails it.
Rivals == (k1 :> [lane |-> l1, outcome |-> "accepted", dims |-> {d1}])
       @@ (k2 :> [lane |-> l1, outcome |-> "failed", dims |-> {d1}])

CallerSymmetry == Permutations(Callers)
=============================================================================
