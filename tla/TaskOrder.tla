------------------------------ MODULE TaskOrder ------------------------------
(***************************************************************************)
(* What the edits of the task graph promise, with edges, routing and the   *)
(* search for cycles left out.  The tasks wait for each other in an order, *)
(* directly or over others, and none waits for itself.  A new dependency   *)
(* makes the task, and whatever waits for it, wait for the other one and   *)
(* all that one waits for, and changes nothing else.  Taking one back      *)
(* frees only tasks that waited for others through it.                     *)
(***************************************************************************)
CONSTANTS
  Tasks,
  Home            \* the orchestration of each task

VARIABLE waits    \* the pairs of a task and one it waits for

\* t and those that wait for it; t and those it waits for.
Behind(t) == {t} \cup {u \in Tasks : <<u, t>> \in waits}
Ahead(t) == {t} \cup {u \in Tasks : <<t, u>> \in waits}

Init == waits = {}

Depend(f, t) ==
  /\ f # t /\ Home[f] = Home[t]
  /\ <<t, f>> \notin waits
  /\ waits' = waits \cup (Behind(f) \X Ahead(t))

Release(f, t) ==
  /\ <<f, t>> \in waits
  /\ waits' \subseteq waits
  /\ \A x \in waits \ waits' : x[1] \in Behind(f) /\ x[2] \in Ahead(t)
  /\ \A a, b, c \in Tasks : <<a, b>> \in waits' /\ <<b, c>> \in waits' => <<a, c>> \in waits'

Next == \E f, t \in Tasks : Depend(f, t) \/ Release(f, t)

Spec == Init /\ [][Next]_waits
=============================================================================
