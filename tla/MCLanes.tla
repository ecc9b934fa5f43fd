------------------------------- MODULE MCLanes -------------------------------
(***************************************************************************)
(* Instances of LaneScheduler for TLC.  The runs about leases and stages   *)
(* start where SyncFrontier has opened every lane and leave the task graph *)
(* alone from there; the others start from nothing.                        *)
(***************************************************************************)
EXTENDS LaneScheduler, TLC

CONSTANTS o1, o2, p1, p2, t1, t2, t3, l1, l2, l3, e1, e2, e3, c1, c2

\* l1 and l2 in one orchestration, l3 in another.
TwoHomes == [x \in {t1, t2, t3, l1, l2, l3} |-> IF x \in {t3, l3} THEN o2 ELSE o1]

\* Everything in one orchestration.
OneHome == [x \in {t1, t2, t3, l1, l2, l3} |-> o1]

TaskOf == (l1 :> t1) @@ (l2 :> t2) @@ (l3 :> t3)
ProjectOf == (l1 :> p1) @@ (l2 :> p1) @@ (l3 :> p2)

\* Each lane was created for its own routed task and opened by SyncFrontier.
OpenedInit ==
  /\ open = Orchestrations
  /\ routed = [t \in Tasks |-> CHOOSE p \in Projects : \E l \in Lanes : TaskOf[l] = t /\ ProjectOf[l] = p]
  /\ edge = [e \in EdgeIds |-> NoEdge]
  /\ lane = [l \in Lanes |-> LaneUnblocked(Event(NewLane("waiting", ProjectOf[l], TaskOf[l])))]
  /\ view = [c \in Callers |-> [id |-> NoLane, revision |-> 0, status |-> "absent", repairs |-> 0]]
  /\ held = [c \in Callers |-> [id |-> NoLane, token |-> 0]]

OpenedSpec == OpenedInit /\ [][LaneNext]_vars

\* The task graph and what becomes of the lanes made for it, without leases.
\* As in CompleteLaneWork, the one caller of UpdateLaneStatus, no lane is
\* concluded that still waits for others.
FrontierNext ==
  \/ GraphNext /\ UNCHANGED laneVars
  \/ \E l \in Lanes, p \in Projects, t \in Tasks : CreateLane(l, p, t)
  \/ \E o \in Orchestrations : SyncFrontier(o)
  \/ \E c \in Callers, l \in {k \in Lanes : lane[k].status = "runnable"} : GetLane(c, l)
  \/ \E c \in Callers, status \in Concluded : UpdateLaneStatus(c, status)

FrontierSpec == Init /\ [][FrontierNext]_vars

\* Semar and Bagong, the defaults of isRequired.
DefaultStages == {1, 4}

\* A workflow definition that also requires Petruk.
PetrukRequired == {1, 3, 4}

\* Tasks and edges play the same part in OneHome.
GraphSymmetry == Permutations(Tasks) \cup Permutations(EdgeIds) \cup Permutations(Lanes)
CallerSymmetry == Permutations(Callers)
=============================================================================
