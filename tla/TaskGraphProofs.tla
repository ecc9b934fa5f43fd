--------------------------- MODULE TaskGraphProofs ---------------------------
(***************************************************************************)
(* What holds of the task graph for any number of tasks, projects, edges   *)
(* and orchestrations.                                                     *)
(***************************************************************************)
EXTENDS TaskGraph, FiniteSetTheorems, WellFoundedInduction, TLAPS

\* An edge joins tasks that exist, of one orchestration.
EndsExist ==
  \A e \in Active : /\ Exists(edge[e].from) /\ Exists(edge[e].to)
                    /\ Home[edge[e].from] = Home[edge[e].to]

\* The inductive invariant.
GraphInv == GraphTypeOK /\ EndsExist /\ Acyclic

\* What a task depends on, itself included.
Dependencies(t) == {u \in Tasks : Reachable(t, u)}

-----------------------------------------------------------------------------
\* The initial graph has no edges.
LEMMA GraphInitInv == GraphInit => GraphInv
BY TaskGraphAssumption DEF GraphInit, GraphInv, GraphTypeOK, EndsExist, Acyclic, Active

\* Every operation keeps the types.
LEMMA GraphTypeStep == GraphTypeOK /\ GraphNext => GraphTypeOK'
<1> SUFFICES ASSUME GraphTypeOK, GraphNext PROVE GraphTypeOK'
  OBVIOUS
<1> USE TaskGraphAssumption, EdgeAssumption DEF GraphTypeOK
<1>1. ASSUME NEW t \in Tasks, CreateParentTask(t) PROVE GraphTypeOK'
  BY <1>1 DEF CreateParentTask
<1>2. ASSUME NEW t \in Tasks, NEW p \in Projects, RouteParentTask(t, p) PROVE GraphTypeOK'
  BY <1>2 DEF RouteParentTask
<1>3. ASSUME NEW e \in EdgeIds, NEW from \in Tasks, NEW to \in Tasks,
             NEW blocking \in BOOLEAN, NEW explicit \in BOOLEAN,
             AddDependencyEdge(e, from, to, blocking, explicit)
      PROVE  GraphTypeOK'
  BY <1>3 DEF AddDependencyEdge, Edge
<1>4. ASSUME NEW e \in EdgeIds, RemoveDependencyEdge(e) PROVE GraphTypeOK'
  BY <1>4 DEF RemoveDependencyEdge
<1>5. ASSUME NEW o \in Orchestrations, CloseOrchestration(o) PROVE GraphTypeOK'
  BY <1>5 DEF CloseOrchestration
<1>6. QED
  BY <1>1, <1>2, <1>3, <1>4, <1>5 DEF GraphNext

\* An active edge is a record over Tasks.
LEMMA ActiveEdge ==
  ASSUME GraphTypeOK, NEW e \in Active
  PROVE  edge[e] \in Edge /\ edge[e].from \in Tasks /\ edge[e].to \in Tasks
BY DEF GraphTypeOK, Active, Edge

\* A new edge closes no cycle.  What separates the ends of an old edge is cut
\* down, or widened, by what the new edge's target depends on.
LEMMA AddKeepsAcyclic ==
  ASSUME GraphInv,
         NEW d \in EdgeIds, NEW from \in Tasks, NEW to \in Tasks,
         NEW blocking \in BOOLEAN, NEW explicit \in BOOLEAN,
         AddDependencyEdge(d, from, to, blocking, explicit)
  PROVE  Acyclic'
<1>1. PICK T \in SUBSET Tasks : to \in T /\ Closed(T) /\ from \notin T
  BY DEF AddDependencyEdge, Reachable
<1>2. /\ Active' = Active \cup {d}
      /\ d \notin Active
      /\ edge'[d].from = from /\ edge'[d].to = to
      /\ \A e \in Active : edge'[e] = edge[e]
  BY EdgeAssumption DEF AddDependencyEdge, Active, GraphInv, GraphTypeOK, Edge
<1>3. ASSUME NEW S \in SUBSET Tasks, Closed(S), from \in S => to \in S PROVE Closed(S)'
  BY <1>2, <1>3 DEF Closed
<1>4. SUFFICES ASSUME NEW e \in Active'
               PROVE  \E S \in SUBSET Tasks :
                        edge'[e].to \in S /\ Closed(S)' /\ edge'[e].from \notin S
  BY DEF Acyclic, Reachable
<1>5. CASE e = d
  BY <1>1, <1>2, <1>3, <1>5
<1>6. CASE e \in Active
  <2>1. PICK S \in SUBSET Tasks : edge[e].to \in S /\ Closed(S) /\ edge[e].from \notin S
    BY <1>6 DEF GraphInv, Acyclic, Reachable
  <2>2. CASE edge[e].from \in T
    <3>1. edge[e].to \in S \cap T
      BY <1>1, <1>6, <2>1, <2>2 DEF Closed
    <3>2. Closed(S \cap T) /\ from \notin S \cap T
      BY <1>1, <2>1 DEF Closed
    <3>3. QED
      BY <1>2, <1>3, <1>6, <2>1, <3>1, <3>2
  <2>3. CASE edge[e].from \notin T
    <3>1. Closed(S \cup T) /\ to \in S \cup T
      BY <1>1, <2>1 DEF Closed
    <3>2. QED
      BY <1>2, <1>3, <1>6, <2>1, <2>3, <3>1
  <2>4. QED
    BY <2>2, <2>3
<1>7. QED
  BY <1>2, <1>5, <1>6

\* Fewer edges reach no further.
LEMMA RemoveKeepsAcyclic ==
  ASSUME GraphInv, NEW d \in EdgeIds, RemoveDependencyEdge(d)
  PROVE  Acyclic'
<1>1. Active' \subseteq Active /\ \A e \in Active' : edge'[e] = edge[e]
  BY DEF RemoveDependencyEdge, Active, GraphInv, GraphTypeOK
<1>2. \A S \in SUBSET Tasks : Closed(S) => Closed(S)'
  BY <1>1 DEF Closed
<1>3. QED
  BY <1>1, <1>2 DEF GraphInv, Acyclic, Reachable

\* Every step keeps the invariant.
LEMMA GraphStepInv == GraphInv /\ [GraphNext]_graphVars => GraphInv'
<1> SUFFICES ASSUME GraphInv, [GraphNext]_graphVars PROVE GraphInv'
  OBVIOUS
<1>1. CASE UNCHANGED graphVars
  BY <1>1 DEF graphVars, GraphInv, GraphTypeOK, EndsExist, Exists, Acyclic, Reachable, Closed, Active
<1>2. CASE GraphNext
  <2>1. GraphTypeOK'
    BY <1>2, GraphTypeStep DEF GraphInv
  <2>2. ASSUME UNCHANGED edge PROVE Acyclic'
    BY <2>2 DEF GraphInv, Acyclic, Reachable, Closed, Active
  <2>3. ASSUME UNCHANGED edge, \A t \in Tasks : Exists(t) => Exists(t)' PROVE EndsExist'
    BY <2>3, ActiveEdge DEF GraphInv, EndsExist, Active
  <2>4. ASSUME NEW t \in Tasks, CreateParentTask(t) PROVE GraphInv'
    BY <2>1, <2>2, <2>3, <2>4, TaskGraphAssumption
       DEF CreateParentTask, GraphInv, GraphTypeOK, Exists
  <2>5. ASSUME NEW t \in Tasks, NEW p \in Projects, RouteParentTask(t, p) PROVE GraphInv'
    BY <2>1, <2>2, <2>3, <2>5, TaskGraphAssumption
       DEF RouteParentTask, GraphInv, GraphTypeOK, Exists
  <2>6. ASSUME NEW e \in EdgeIds, NEW from \in Tasks, NEW to \in Tasks,
               NEW blocking \in BOOLEAN, NEW explicit \in BOOLEAN,
               AddDependencyEdge(e, from, to, blocking, explicit)
        PROVE  GraphInv'
    <3>1. EndsExist'
      BY <2>6, EdgeAssumption DEF AddDependencyEdge, GraphInv, GraphTypeOK, EndsExist, Exists, Active, Edge
    <3>2. QED
      BY <2>1, <2>6, <3>1, AddKeepsAcyclic DEF GraphInv
  <2>7. ASSUME NEW e \in EdgeIds, RemoveDependencyEdge(e) PROVE GraphInv'
    <3>1. EndsExist'
      BY <2>7, EdgeAssumption DEF RemoveDependencyEdge, GraphInv, GraphTypeOK, EndsExist, Exists, Active, Edge
    <3>2. QED
      BY <2>1, <2>7, <3>1, RemoveKeepsAcyclic DEF GraphInv
  <2>8. ASSUME NEW o \in Orchestrations, CloseOrchestration(o) PROVE GraphInv'
    BY <2>1, <2>2, <2>3, <2>8 DEF CloseOrchestration, GraphInv, Exists
  <2>9. QED
    BY <1>2, <2>4, <2>5, <2>6, <2>7, <2>8 DEF GraphNext
<1>3. QED
  BY <1>1, <1>2

-----------------------------------------------------------------------------
\* What a task depends on contains what any of its dependencies depends on.
\* The dependency itself does not depend on the task, so it has fewer.
LEMMA FewerDependencies ==
  ASSUME GraphInv, NEW e \in Active
  PROVE  Cardinality(Dependencies(edge[e].to)) < Cardinality(Dependencies(edge[e].from))
<1> DEFINE f == edge[e].from
           t == edge[e].to
<1>1. f \in Tasks /\ t \in Tasks
  BY ActiveEdge DEF GraphInv
<1>2. Dependencies(t) \subseteq Dependencies(f)
  BY DEF Dependencies, Reachable, Closed
<1>3. f \in Dependencies(f) /\ f \notin Dependencies(t)
  BY <1>1 DEF Dependencies, Reachable, GraphInv, Acyclic
<1>4. IsFiniteSet(Dependencies(f))
  BY FS_Subset, TaskGraphAssumption DEF Dependencies
<1>5. /\ Cardinality(Dependencies(t)) <= Cardinality(Dependencies(f))
      /\ Cardinality(Dependencies(t)) # Cardinality(Dependencies(f))
  BY <1>2, <1>3, <1>4, FS_Subset
<1>6. Cardinality(Dependencies(t)) \in Nat /\ Cardinality(Dependencies(f)) \in Nat
  BY <1>2, <1>4, FS_Subset, FS_CardinalityType
<1>7. QED
  BY <1>5, <1>6

\* An acyclic graph always has a task to work on: the one with the fewest
\* dependencies.
LEMMA AcyclicNeverWedged == GraphInv => NeverWedged
<1> SUFFICES ASSUME GraphInv, NEW resolved \in SUBSET Tasks,
                    \E t \in Tasks \ resolved : Exists(t),
                    Frontier(resolved) = {}
             PROVE  FALSE
  BY DEF NeverWedged
<1> DEFINE Rest == {t \in Tasks \ resolved : Exists(t)}
           Size(t) == Cardinality(Dependencies(t))
           Sizes == {Size(t) : t \in Rest}
<1>1. \A t \in Rest : Size(t) \in Nat
  BY FS_Subset, FS_CardinalityType, TaskGraphAssumption DEF Dependencies
<1>2. \A t \in Rest : \E u \in Rest : Size(u) < Size(t)
  <2>1. SUFFICES ASSUME NEW t \in Rest PROVE \E u \in Rest : Size(u) < Size(t)
    OBVIOUS
  <2>2. PICK e \in Active : edge[e].from = t /\ edge[e].to \notin resolved
    BY DEF Frontier, Blockers
  <2>3. edge[e].to \in Rest
    BY <2>2, ActiveEdge DEF GraphInv, EndsExist
  <2>4. QED
    BY <2>2, <2>3, FewerDependencies
<1>3. PICK n \in Sizes : \A m \in Sizes : ~(<<m, n>> \in OpToRel(<, Nat))
  <2>1. Sizes \subseteq Nat /\ Sizes # {}
    BY <1>1
  <2>2. QED
    BY <2>1, NatLessThanWellFounded, WFMin
<1>4. \A m \in Sizes : ~(m < n)
  BY <1>1, <1>3 DEF OpToRel
<1>5. QED
  BY <1>2, <1>4

-----------------------------------------------------------------------------
\* In a graph without cycles a task waits for what it depends on, itself left
\* out.
LEMMA WaitsIsReachable ==
  GraphInv => \A a, b \in Tasks : <<a, b>> \in Waits <=> a # b /\ Reachable(a, b)
<1> SUFFICES ASSUME GraphInv, NEW a \in Tasks, NEW b \in Tasks
             PROVE  <<a, b>> \in Waits <=> a # b /\ Reachable(a, b)
  OBVIOUS
<1>1. ASSUME <<a, b>> \in Waits PROVE a # b /\ Reachable(a, b)
  <2>1. PICK e \in Active : edge[e].from = a /\ Reachable(edge[e].to, b)
    BY <1>1 DEF Waits
  <2>2. a # b
    BY <2>1 DEF GraphInv, Acyclic
  <2>3. ASSUME NEW S \in SUBSET Tasks, a \in S, Closed(S) PROVE b \in S
    BY <2>1, <2>3 DEF Closed, Reachable
  <2>4. QED
    BY <2>2, <2>3 DEF Reachable
<1>2. ASSUME a # b, Reachable(a, b) PROVE <<a, b>> \in Waits
  <2> DEFINE S == {a} \cup {x \in Tasks : <<a, x>> \in Waits}
  <2>1. ASSUME NEW e \in Active, edge[e].from \in S PROVE edge[e].to \in S
    <3>1. edge[e].to \in Tasks
      BY ActiveEdge DEF GraphInv
    <3>2. CASE edge[e].from = a
      BY <3>1, <3>2 DEF Waits, Reachable
    <3>3. CASE <<a, edge[e].from>> \in Waits
      <4>1. PICK g \in Active : edge[g].from = a /\ Reachable(edge[g].to, edge[e].from)
        BY <3>3 DEF Waits
      <4>2. Reachable(edge[g].to, edge[e].to)
        BY <4>1 DEF Reachable, Closed
      <4>3. QED
        BY <3>1, <4>1, <4>2 DEF Waits
    <3>4. QED
      BY <2>1, <3>2, <3>3
  <2>2. S \in SUBSET Tasks /\ a \in S /\ Closed(S)
    BY <2>1 DEF Closed
  <2>3. b \in S
    BY <1>2, <2>2 DEF Reachable
  <2>4. QED
    BY <1>2, <2>3
<1>3. QED
  BY <1>1, <1>2

\* The same of the next state.
LEMMA WaitsIsReachableNext ==
  GraphInv' => \A a, b \in Tasks : <<a, b>> \in Waits' <=> a # b /\ Reachable(a, b)'
<1>1. (GraphInv => \A a, b \in Tasks : <<a, b>> \in Waits <=> a # b /\ Reachable(a, b))'
  BY WaitsIsReachable, PTL
<1>2. QED
  BY <1>1

\* Waits is a set of pairs of tasks, in both states.
LEMMA WaitsIsPairs == Waits \subseteq Tasks \X Tasks /\ Waits' \subseteq Tasks \X Tasks
BY DEF Waits

\* Dependencies of dependencies are dependencies.
LEMMA ReachableTransitive ==
  ASSUME NEW a \in Tasks, NEW b \in Tasks, NEW c \in Tasks, Reachable(a, b), Reachable(b, c)
  PROVE  Reachable(a, c)
BY DEF Reachable

\* A new edge lets those that reach its start reach what its end reaches, and
\* no others.  The set that separates a from b, cut down by one that separates
\* a from the edge, or widened by one that separates the edge from b, is still
\* closed with the new edge.
LEMMA AddReaches ==
  ASSUME GraphInv,
         NEW d \in EdgeIds, NEW from \in Tasks, NEW to \in Tasks,
         NEW blocking \in BOOLEAN, NEW explicit \in BOOLEAN,
         AddDependencyEdge(d, from, to, blocking, explicit),
         NEW a \in Tasks, NEW b \in Tasks
  PROVE  Reachable(a, b)' <=> Reachable(a, b) \/ (Reachable(a, from) /\ Reachable(to, b))
<1>1. /\ Active' = Active \cup {d}
      /\ edge'[d].from = from /\ edge'[d].to = to
      /\ \A e \in Active : edge'[e] = edge[e]
  BY EdgeAssumption DEF AddDependencyEdge, Active, GraphInv, GraphTypeOK, Edge
<1>2. ASSUME NEW S \in SUBSET Tasks
      PROVE  Closed(S)' <=> Closed(S) /\ (from \in S => to \in S)
  BY <1>1 DEF Closed
<1>3. ASSUME Reachable(a, b) \/ (Reachable(a, from) /\ Reachable(to, b)),
             NEW S \in SUBSET Tasks, a \in S, Closed(S)'
      PROVE  b \in S
  BY <1>2, <1>3 DEF Reachable
<1>4. ASSUME ~Reachable(a, b), ~Reachable(a, from) \/ ~Reachable(to, b)
      PROVE  \E S \in SUBSET Tasks : a \in S /\ Closed(S)' /\ b \notin S
  <2>1. PICK S \in SUBSET Tasks : a \in S /\ Closed(S) /\ b \notin S
    BY <1>4 DEF Reachable
  <2>2. CASE ~Reachable(a, from)
    <3>1. PICK T \in SUBSET Tasks : a \in T /\ Closed(T) /\ from \notin T
      BY <2>2 DEF Reachable
    <3>2. Closed(S \cap T)
      BY <2>1, <3>1 DEF Closed
    <3>3. QED
      BY <1>2, <2>1, <3>1, <3>2
  <2>3. CASE ~Reachable(to, b)
    <3>1. PICK T \in SUBSET Tasks : to \in T /\ Closed(T) /\ b \notin T
      BY <2>3 DEF Reachable
    <3>2. Closed(S \cup T)
      BY <2>1, <3>1 DEF Closed
    <3>3. QED
      BY <1>2, <2>1, <3>1, <3>2
  <2>4. QED
    BY <1>4, <2>2, <2>3
<1>5. QED
  BY <1>3, <1>4 DEF Reachable

\* Removing an edge cuts off only those that reached its start from what its
\* end reaches.
LEMMA RemoveReaches ==
  ASSUME GraphInv, NEW d \in EdgeIds, RemoveDependencyEdge(d),
         NEW a \in Tasks, NEW b \in Tasks
  PROVE  /\ Reachable(a, b)' => Reachable(a, b)
         /\ Reachable(a, b) /\ ~Reachable(a, b)' =>
              Reachable(a, edge[d].from) /\ Reachable(edge[d].to, b)
<1> DEFINE from == edge[d].from
           to == edge[d].to
<1>1. /\ Active = Active' \cup {d}
      /\ \A e \in Active' : edge'[e] = edge[e]
  BY DEF RemoveDependencyEdge, Active, GraphInv, GraphTypeOK
<1>2. ASSUME NEW S \in SUBSET Tasks
      PROVE  Closed(S) <=> Closed(S)' /\ (from \in S => to \in S)
  BY <1>1 DEF Closed
<1>3. Reachable(a, b)' => Reachable(a, b)
  BY <1>2 DEF Reachable
<1>4. ASSUME Reachable(a, b), ~Reachable(a, b)',
             ~Reachable(a, from) \/ ~Reachable(to, b)
      PROVE  FALSE
  <2>1. PICK S \in SUBSET Tasks : a \in S /\ Closed(S)' /\ b \notin S
    BY <1>4 DEF Reachable
  <2>2. CASE ~Reachable(a, from)
    <3>1. PICK T \in SUBSET Tasks : a \in T /\ Closed(T) /\ from \notin T
      BY <2>2 DEF Reachable
    <3>2. Closed(S \cap T)'
      BY <1>2, <2>1, <3>1 DEF Closed
    <3>3. Closed(S \cap T)
      BY <1>2, <3>1, <3>2
    <3>4. QED
      BY <1>4, <2>1, <3>1, <3>3 DEF Reachable
  <2>3. CASE ~Reachable(to, b)
    <3>1. PICK T \in SUBSET Tasks : to \in T /\ Closed(T) /\ b \notin T
      BY <2>3 DEF Reachable
    <3>2. Closed(S \cup T)'
      BY <1>2, <2>1, <3>1 DEF Closed
    <3>3. Closed(S \cup T)
      BY <1>2, <3>1, <3>2
    <3>4. QED
      BY <1>4, <2>1, <3>1, <3>3 DEF Reachable
  <2>4. QED
    BY <1>4, <2>2, <2>3
<1>5. QED
  BY <1>3, <1>4

\* Adding an edge is a step Depend of the order.
LEMMA AddDepends ==
  ASSUME GraphInv, GraphInv',
         NEW d \in EdgeIds, NEW from \in Tasks, NEW to \in Tasks,
         NEW blocking \in BOOLEAN, NEW explicit \in BOOLEAN,
         AddDependencyEdge(d, from, to, blocking, explicit)
  PROVE  Order!Depend(from, to)
<1>1. from # to /\ Home[from] = Home[to] /\ ~Reachable(to, from)
  BY DEF AddDependencyEdge
<1>2. <<to, from>> \notin Waits
  BY <1>1, WaitsIsReachable
<1>3. ASSUME NEW u \in Tasks PROVE u \in Order!Behind(from) <=> Reachable(u, from)
  BY <1>3, WaitsIsReachable DEF Order!Behind, Reachable
<1>4. ASSUME NEW u \in Tasks PROVE u \in Order!Ahead(to) <=> Reachable(to, u)
  BY <1>4, WaitsIsReachable DEF Order!Ahead, Reachable
<1>5. ASSUME NEW a \in Tasks, NEW b \in Tasks
      PROVE  <<a, b>> \in Waits' <=>
               <<a, b>> \in Waits \/ (a \in Order!Behind(from) /\ b \in Order!Ahead(to))
  <2>1. <<a, b>> \in Waits' <=> a # b /\ Reachable(a, b)'
    BY WaitsIsReachableNext
  <2>2. <<a, b>> \in Waits <=> a # b /\ Reachable(a, b)
    BY WaitsIsReachable
  <2>3. Reachable(a, b)' <=> Reachable(a, b) \/ (Reachable(a, from) /\ Reachable(to, b))
    BY AddReaches
  <2>4. Reachable(a, from) /\ Reachable(to, b) => a # b
    BY <1>1, ReachableTransitive
  <2>5. QED
    BY <1>3, <1>4, <2>1, <2>2, <2>3, <2>4
<1>6. Order!Behind(from) \subseteq Tasks /\ Order!Ahead(to) \subseteq Tasks
  BY DEF Order!Behind, Order!Ahead
<1>7. Waits' = Waits \cup (Order!Behind(from) \X Order!Ahead(to))
  BY <1>5, <1>6, WaitsIsPairs
<1>8. QED
  BY <1>1, <1>2, <1>7 DEF Order!Depend

\* Removing one is a step Release.
LEMMA RemoveReleases ==
  ASSUME GraphInv, GraphInv', NEW d \in EdgeIds, RemoveDependencyEdge(d)
  PROVE  Order!Release(edge[d].from, edge[d].to)
<1> DEFINE from == edge[d].from
           to == edge[d].to
<1>1. d \in Active /\ from \in Tasks /\ to \in Tasks
  BY ActiveEdge DEF RemoveDependencyEdge, GraphInv
<1>2. <<from, to>> \in Waits
  BY <1>1 DEF Waits, Reachable
<1>3. ASSUME NEW a \in Tasks, NEW b \in Tasks
      PROVE  /\ <<a, b>> \in Waits' => <<a, b>> \in Waits
             /\ <<a, b>> \in Waits /\ <<a, b>> \notin Waits' =>
                  a \in Order!Behind(from) /\ b \in Order!Ahead(to)
  <2>1. <<a, b>> \in Waits' <=> a # b /\ Reachable(a, b)'
    BY WaitsIsReachableNext
  <2>2. <<a, b>> \in Waits <=> a # b /\ Reachable(a, b)
    BY WaitsIsReachable
  <2>3. /\ Reachable(a, b)' => Reachable(a, b)
        /\ Reachable(a, b) /\ ~Reachable(a, b)' => Reachable(a, from) /\ Reachable(to, b)
    BY RemoveReaches
  <2>4. Reachable(a, from) => a \in Order!Behind(from)
    BY <1>1, WaitsIsReachable DEF Order!Behind
  <2>5. Reachable(to, b) => b \in Order!Ahead(to)
    BY <1>1, WaitsIsReachable DEF Order!Ahead
  <2>6. QED
    BY <2>1, <2>2, <2>3, <2>4, <2>5
<1>4. /\ Waits' \subseteq Waits
      /\ \A x \in Waits \ Waits' : x[1] \in Order!Behind(from) /\ x[2] \in Order!Ahead(to)
  BY <1>3, WaitsIsPairs
<1>5. ASSUME NEW a \in Tasks, NEW b \in Tasks, NEW c \in Tasks,
             <<a, b>> \in Waits', <<b, c>> \in Waits'
      PROVE  <<a, c>> \in Waits'
  <2>1. Reachable(a, b)' /\ Reachable(b, c)' /\ a # b
    BY <1>5, WaitsIsReachableNext
  <2>2. Reachable(a, c)'
    BY <2>1 DEF Reachable
  <2>3. a # c
    <3>1. a = c => Reachable(b, a) /\ Reachable(a, b)
      BY <2>1, RemoveReaches
    <3>2. <<a, b>> \in Waits
      BY <1>5, <1>4
    <3>3. PICK e \in Active : edge[e].from = a /\ Reachable(edge[e].to, b)
      BY <3>2 DEF Waits
    <3>4. edge[e].to \in Tasks
      BY ActiveEdge DEF GraphInv
    <3>5. a = c => Reachable(edge[e].to, a)
      BY <3>1, <3>3, <3>4, ReachableTransitive
    <3>6. QED
      BY <3>3, <3>5 DEF GraphInv, Acyclic
  <2>4. QED
    BY <2>2, <2>3, WaitsIsReachableNext
<1>6. QED
  BY <1>2, <1>4, <1>5 DEF Order!Release

\* Every step of the graph is a step of the order, or changes nothing of it.
LEMMA GraphStepOrder ==
  ASSUME GraphInv, GraphInv', [GraphNext]_graphVars
  PROVE  [Order!Next]_Waits
<1>1. UNCHANGED edge => UNCHANGED Waits
  BY DEF Waits, Reachable, Closed, Active
<1>2. CASE UNCHANGED edge
  BY <1>1, <1>2
<1>3. ASSUME NEW e \in EdgeIds, NEW from \in Tasks, NEW to \in Tasks,
             NEW blocking \in BOOLEAN, NEW explicit \in BOOLEAN,
             AddDependencyEdge(e, from, to, blocking, explicit)
      PROVE  Order!Next
  BY <1>3, AddDepends DEF Order!Next
<1>4. ASSUME NEW e \in EdgeIds, RemoveDependencyEdge(e) PROVE Order!Next
  <2>1. edge[e].from \in Tasks /\ edge[e].to \in Tasks
    BY <1>4, ActiveEdge DEF RemoveDependencyEdge, GraphInv
  <2>2. QED
    BY <1>4, <2>1, RemoveReleases DEF Order!Next
<1>5. QED
  BY <1>2, <1>3, <1>4
     DEF GraphNext, graphVars, CreateParentTask, RouteParentTask, CloseOrchestration

\* Without edges nothing waits.
LEMMA GraphInitOrder == GraphInit => Order!Init
BY TaskGraphAssumption DEF GraphInit, Order!Init, Waits, Active

-----------------------------------------------------------------------------
\* The invariant holds in every history of the operations on tasks and edges.
THEOREM GraphInvariance == GraphSpec => []GraphInv
<1>1. GraphInit => GraphInv
  BY GraphInitInv
<1>2. GraphInv /\ [GraphNext]_graphVars => GraphInv'
  BY GraphStepInv
<1>3. QED
  BY <1>1, <1>2, PTL DEF GraphSpec

\* AddDependencyEdge keeps the graph acyclic, whatever was added and removed
\* before.
THEOREM AlwaysAcyclic == GraphSpec => []Acyclic
<1>1. GraphInv => Acyclic
  BY DEF GraphInv
<1>2. QED
  BY <1>1, GraphInvariance, PTL

\* Dependencies never wedge an orchestration: some remaining task is on the
\* frontier, whatever has been accepted.
THEOREM AlwaysWork == GraphSpec => []NeverWedged
<1>1. QED
  BY AcyclicNeverWedged, GraphInvariance, PTL
\* The edits of the graph are edits of an order: a new dependency adds what
\* follows from it and nothing else, a removed one frees nothing else.
THEOREM KeepsOrder == GraphSpec => ImplementsOrder
<1>1. GraphInit => Order!Init
  BY GraphInitOrder
<1>2. GraphInv /\ GraphInv' /\ [GraphNext]_graphVars => [Order!Next]_Waits
  BY GraphStepOrder
<1>3. QED
  BY <1>1, <1>2, GraphInvariance, PTL DEF GraphSpec, ImplementsOrder, Order!Spec

\* No task waits for itself, and who waits for a task waits for all it waits for.
StrictOrder ==
  /\ Waits \subseteq Tasks \X Tasks
  /\ \A a \in Tasks : <<a, a>> \notin Waits
  /\ \A a, b, c \in Tasks : <<a, b>> \in Waits /\ <<b, c>> \in Waits => <<a, c>> \in Waits

\* What TaskOrder allows never makes tasks wait in a circle: that a new
\* dependency goes to a task that does not wait for its start is enough for it,
\* whatever was added and released before.
THEOREM OrderIsStrict == Order!Spec => []StrictOrder
<1>1. Order!Init => StrictOrder
  BY DEF Order!Init, StrictOrder
<1>2. ASSUME StrictOrder, [Order!Next]_Waits PROVE StrictOrder'
  <2>1. ASSUME NEW f \in Tasks, NEW t \in Tasks, Order!Depend(f, t) PROVE StrictOrder'
    <3>1. /\ f # t /\ <<t, f>> \notin Waits
          /\ Waits' = Waits \cup (Order!Behind(f) \X Order!Ahead(t))
      BY <2>1 DEF Order!Depend
    <3>2. /\ Order!Behind(f) \subseteq Tasks /\ Order!Ahead(t) \subseteq Tasks
          /\ \A u \in Tasks : u \in Order!Behind(f) <=> u = f \/ <<u, f>> \in Waits
          /\ \A u \in Tasks : u \in Order!Ahead(t) <=> u = t \/ <<t, u>> \in Waits
      BY DEF Order!Behind, Order!Ahead
    <3>3. \A a, b \in Tasks :
            <<a, b>> \in Waits' <=> <<a, b>> \in Waits \/ (a \in Order!Behind(f) /\ b \in Order!Ahead(t))
      BY <3>1
    \* The ends of the new dependency, and those beyond them, stay apart.
    <3>4. \A u \in Tasks : ~(u \in Order!Behind(f) /\ u \in Order!Ahead(t))
      BY <1>2, <3>1, <3>2 DEF StrictOrder
    <3>5. \A a, b \in Tasks : <<a, b>> \in Waits =>
            /\ b \in Order!Behind(f) => a \in Order!Behind(f)
            /\ a \in Order!Ahead(t) => b \in Order!Ahead(t)
      BY <1>2, <3>2 DEF StrictOrder
    <3>6. ASSUME NEW a \in Tasks, NEW b \in Tasks, NEW c \in Tasks, <<a, b>> \in Waits', <<b, c>> \in Waits'
          PROVE  <<a, c>> \in Waits'
      <4>1. <<a, b>> \in Waits /\ <<b, c>> \in Waits => <<a, c>> \in Waits
        BY <1>2 DEF StrictOrder
      <4>2. QED
        BY <3>3, <3>4, <3>5, <3>6, <4>1
    <3>7. \A a \in Tasks : <<a, a>> \notin Waits'
      BY <1>2, <3>3, <3>4 DEF StrictOrder
    <3>8. QED
      BY <3>6, <3>7, WaitsIsPairs DEF StrictOrder
  <2>2. ASSUME NEW f \in Tasks, NEW t \in Tasks, Order!Release(f, t) PROVE StrictOrder'
    <3>1. Waits' \subseteq Waits
      BY <2>2 DEF Order!Release
    <3>2. \A a, b, c \in Tasks : <<a, b>> \in Waits' /\ <<b, c>> \in Waits' => <<a, c>> \in Waits'
      BY <2>2 DEF Order!Release
    <3>3. QED
      BY <1>2, <3>1, <3>2, WaitsIsPairs DEF StrictOrder
  <2>3. CASE UNCHANGED Waits
    BY <1>2, <2>3 DEF StrictOrder
  <2>4. QED
    BY <1>2, <2>1, <2>2, <2>3 DEF Order!Next
<1>3. QED
  BY <1>1, <1>2, PTL DEF Order!Spec
=============================================================================
