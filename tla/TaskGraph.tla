------------------------------ MODULE TaskGraph ------------------------------
(***************************************************************************)
(* Parent tasks, their routing to projects and the dependency edges        *)
(* between them (internal/delivery: parenttasks.go, graph.go), as the event *)
(* log of their orchestration replays them.  Every operation is one        *)
(* transaction of the serialized writer.                                   *)
(***************************************************************************)
EXTENDS Naturals, FiniteSets

CONSTANTS
  Orchestrations,
  Projects,       \* the active rows of delivery_projects
  Tasks,          \* parent task ids
  EdgeIds,        \* dependency edge ids
  Home,           \* the orchestration whose log holds each task (and lane)
  Absent,         \* a task that was not created
  Unrouted,       \* a task without project_id
  NoEdge,         \* an edge id that was not used
  Removed         \* an edge with status removed

ASSUME TaskGraphAssumption ==
  /\ IsFiniteSet(Tasks)
  /\ \A t \in Tasks : Home[t] \in Orchestrations
  /\ Absent \notin Projects
  /\ Unrouted \notin Projects \cup {Absent}

VARIABLES
  open,           \* orchestrations that are neither completed nor cancelled
  routed,         \* the project of each task
  edge            \* the dependency edges

graphVars == <<open, routed, edge>>

\* "from" depends on "to".  Edges of type requires and produces-input-for
\* block execution, the two other types do not.
Edge == [from : Tasks, to : Tasks, blocking : BOOLEAN]

ASSUME EdgeAssumption == NoEdge \notin Edge /\ Removed \notin Edge \cup {NoEdge}

GraphTypeOK ==
  /\ open \in SUBSET Orchestrations
  /\ routed \in [Tasks -> Projects \cup {Absent, Unrouted}]
  /\ edge \in [EdgeIds -> Edge \cup {NoEdge, Removed}]

GraphInit ==
  /\ open = Orchestrations
  /\ routed = [t \in Tasks |-> Absent]
  /\ edge = [e \in EdgeIds |-> NoEdge]

Exists(t) == routed[t] # Absent
Routed(t) == routed[t] \in Projects
Active == {e \in EdgeIds : edge[e] \notin {NoEdge, Removed}}

-----------------------------------------------------------------------------
\* CreateParentTask, with an id that was not used before.
CreateParentTask(t) ==
  /\ Home[t] \in open
  /\ ~Exists(t)
  /\ routed' = [routed EXCEPT ![t] = Unrouted]
  /\ UNCHANGED <<open, edge>>

\* RouteParentTask: also for a task that is already routed.
RouteParentTask(t, p) ==
  /\ Exists(t)
  /\ routed' = [routed EXCEPT ![t] = p]
  /\ UNCHANGED <<open, edge>>

\* S contains what its members depend on.
Closed(S) == \A e \in Active : edge[e].from \in S => edge[e].to \in S

\* reachable: following active edges of every type from "from" to "to".
Reachable(from, to) == \A S \in SUBSET Tasks : from \in S /\ Closed(S) => to \in S

\* Two tasks already routed to different projects, and nobody asked for it: the
\* edge's origin is neither explicit-source nor user.
CrossesProjectsUnsafely(from, to, explicit) ==
  Routed(from) /\ Routed(to) /\ routed[from] # routed[to] /\ ~explicit

\* Variant: the new edge is followed in the wrong direction.
AddDependencyEdgeBackwards(e, from, to, blocking, explicit) ==
  /\ edge[e] = NoEdge
  /\ from # to
  /\ Exists(from) /\ Exists(to) /\ Home[from] = Home[to]
  /\ ~CrossesProjectsUnsafely(from, to, explicit)
  /\ ~Reachable(from, to)
  /\ edge' = [edge EXCEPT ![e] = [from |-> from, to |-> to, blocking |-> blocking]]
  /\ UNCHANGED <<open, routed>>

AddDependencyEdge(e, from, to, blocking, explicit) ==
  /\ edge[e] = NoEdge
  /\ from # to
  /\ Exists(from) /\ Exists(to) /\ Home[from] = Home[to]
  /\ ~CrossesProjectsUnsafely(from, to, explicit)
  /\ ~Reachable(to, from)
  /\ edge' = [edge EXCEPT ![e] = [from |-> from, to |-> to, blocking |-> blocking]]
  /\ UNCHANGED <<open, routed>>

\* RemoveDependencyEdge: once the from-task is routed the caller must name its
\* evidence, which changes nothing in the graph.
RemoveDependencyEdge(e) ==
  /\ e \in Active
  /\ edge' = [edge EXCEPT ![e] = Removed]
  /\ UNCHANGED <<open, routed>>

\* CompleteOrchestration and CancelOrchestration.
CloseOrchestration(o) ==
  /\ o \in open
  /\ open' = open \ {o}
  /\ UNCHANGED <<routed, edge>>

GraphNext ==
  \/ \E t \in Tasks : CreateParentTask(t)
  \/ \E t \in Tasks, p \in Projects : RouteParentTask(t, p)
  \/ \E e \in EdgeIds, from, to \in Tasks, blocking, explicit \in BOOLEAN :
       AddDependencyEdge(e, from, to, blocking, explicit)
  \/ \E e \in EdgeIds : RemoveDependencyEdge(e)
  \/ \E o \in Orchestrations : CloseOrchestration(o)

GraphSpec == GraphInit /\ [][GraphNext]_graphVars

-----------------------------------------------------------------------------
(* Frontier: what blocks a task, given the tasks already resolved. *)

\* The edges that keep t blocked; its blocked_by list has one entry for each.
Blockers(t, resolved) ==
  {e \in Active : edge[e].from = t /\ edge[e].blocking /\ edge[e].to \notin resolved}

Frontier(resolved) == {t \in Tasks : Exists(t) /\ t \notin resolved /\ Blockers(t, resolved) = {}}

-----------------------------------------------------------------------------
\* No task depends on itself, over any number of edges: AddDependencyEdge
\* checks each new edge against the edges that are active at that moment.
Acyclic == \A e \in Active : ~Reachable(edge[e].to, edge[e].from)

\* Whatever is resolved, some remaining task is on the frontier: the blocking
\* edges can never wedge an orchestration.
NeverWedged ==
  \A resolved \in SUBSET Tasks :
    (\E t \in Tasks \ resolved : Exists(t)) => Frontier(resolved) # {}

\* Which task waits for which, over one edge or several.
Waits ==
  {x \in Tasks \X Tasks : \E e \in Active : edge[e].from = x[1] /\ Reachable(edge[e].to, x[2])}

Order == INSTANCE TaskOrder WITH waits <- Waits

\* Adding and removing edges one by one edits an order of the tasks: no cycle
\* is ever closed, and an edge makes no task wait, and its removal frees none,
\* but those behind it for those ahead of it (graph.go: AddDependencyEdge,
\* RemoveDependencyEdge, reachable).
ImplementsOrder == Order!Spec
=============================================================================
