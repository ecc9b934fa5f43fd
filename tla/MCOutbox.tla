------------------------------ MODULE MCOutbox ------------------------------
(* Instances of Outbox for TLC. *)
EXTENDS Outbox, TLC

CONSTANTS i1, i2, p1, p2, s1, s2

OneIntent == {i1}
TwoIntents == {i1, i2}
OnePool == {p1}
TwoPool == {p1, p2}
OneCaller == {s1}
NoCaller == {}

\* fmt.Sprintf("pool-%d", id), and an id no other request has.
DistinctIds == [w \in Workers |-> w]

OnlyCrash == {"crash"}
LostThenCancelled == {"responseLost", "cancel"}
=============================================================================
