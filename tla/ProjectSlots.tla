----------------------------- MODULE ProjectSlots -----------------------------
(***************************************************************************)
(* What the lane scheduler promises about work in flight, with statuses,   *)
(* callers, events and the task graph left out.  Each project of an        *)
(* orchestration is a slot that one lane can hold under a lease.  A slot   *)
(* passes from lane to lane only by becoming free in between; no more      *)
(* projects than the cap have a slot taken; and the token of a lease is    *)
(* later than anything that ever happened to its lane, so that no token is *)
(* issued twice.                                                           *)
(***************************************************************************)
EXTENDS Naturals, FiniteSets

CONSTANTS
  Orchestrations,
  Projects,
  Lanes,
  Home,           \* the orchestration of each lane
  MaxProjects     \* the cap

VARIABLES
  lease,          \* the leases of each slot, one at most
  clock           \* the number of what happened last to each lane

vars == <<lease, clock>>

Slots == Orchestrations \X Projects

Init ==
  /\ lease = [s \in Slots |-> {}]
  /\ clock \in [Lanes -> Nat]

\* The projects in which something is taken.
Busy == {p \in Projects : \E o \in Orchestrations : lease[<<o, p>>] # {}}

Grant(p, l) ==
  LET s == <<Home[l], p>>
  IN  /\ lease[s] = {}
      /\ p \in Busy \/ Cardinality(Busy) < MaxProjects
      /\ clock[l] < clock'[l]
      /\ lease' = [lease EXCEPT ![s] = {[lane |-> l, token |-> clock'[l]]}]

\* Leases are completed, rejected or expire, any number of them at once.
Release == \E S \in SUBSET Slots : lease' = [s \in Slots |-> IF s \in S THEN {} ELSE lease[s]]

Next ==
  /\ clock' \in [Lanes -> Nat]
  /\ \A l \in Lanes : clock[l] <= clock'[l]
  /\ Release \/ \E p \in Projects, l \in Lanes : Grant(p, l)

Spec == Init /\ [][Next]_vars
=============================================================================
