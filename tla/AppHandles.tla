----------------------------- MODULE AppHandles -----------------------------
(***************************************************************************)
(* What the panel's runtime pool promises to those who hold a project's    *)
(* App, with the pool's caps, recency, timers and marks left out.  At any  *)
(* time a project is served by one App or by none; whoever asks for the    *)
(* project gets the App that serves it, or a new one if there is none; and *)
(* an App stops serving only when nobody has it, except at shutdown.  No   *)
(* App is left open that serves no project.                                *)
(***************************************************************************)
EXTENDS Naturals

CONSTANTS
  Projects,
  Primary,        \* the project whose App is never taken away
  Callers,
  Apps,
  PrimaryApp,
  NoApp           \* what serves a project that is not loaded

VARIABLES
  serving,        \* the App that serves each project
  app,            \* what became of each App: "none", "open" or "closing"
  uses,           \* who has which App for which project
  down            \* whether the pool was shut down

vars == <<serving, app, uses, down>>

Init ==
  /\ serving = [p \in Projects |-> IF p = Primary THEN PrimaryApp ELSE NoApp]
  /\ app = [a \in Apps |-> IF a = PrimaryApp THEN "open" ELSE "none"]
  /\ uses = {}
  /\ down = FALSE

Free(c) == \A u \in uses : u[1] # c

\* Of the projects served as sv says, some lose their App.
Retire(sv, st) ==
  \E gone \in SUBSET {p \in Projects \ {Primary} : sv[p] # NoApp} :
    /\ down' \/ \A p \in gone, u \in uses' : u[3] # sv[p]
    /\ serving' = [p \in Projects |-> IF p \in gone THEN NoApp ELSE sv[p]]
    /\ app' = [a \in Apps |-> IF \E p \in gone : sv[p] = a THEN "closing" ELSE st[a]]

\* c gets the App that serves p.  If it loaded another one before it knew, that
\* one is closed.
Join(c, p) ==
  /\ Free(c)
  /\ serving[p] # NoApp
  /\ uses' = uses \cup {<<c, p, serving[p]>>}
  /\ app' = app \/ \E a \in Apps : app[a] = "none" /\ app' = [app EXCEPT ![a] = "closing"]
  /\ UNCHANGED <<serving, down>>

Open(c, p, a) ==
  /\ Free(c)
  /\ serving[p] = NoApp
  /\ app[a] = "none"
  /\ uses' = uses \cup {<<c, p, a>>}
  /\ Retire([serving EXCEPT ![p] = a], [app EXCEPT ![a] = "open"])
  /\ UNCHANGED down

Release(u) ==
  /\ uses' = uses \ {u}
  /\ Retire(serving, app)
  /\ UNCHANGED down

Drop ==
  /\ Retire(serving, app)
  /\ UNCHANGED <<uses, down>>

Shutdown ==
  /\ down' = TRUE
  /\ UNCHANGED uses
  /\ Retire(serving, app)

FinishClose(a) ==
  /\ app[a] = "closing"
  /\ app' = [app EXCEPT ![a] = "none"]
  /\ UNCHANGED <<serving, uses, down>>

Next ==
  \/ \E c \in Callers, p \in Projects : Join(c, p) \/ \E a \in Apps : Open(c, p, a)
  \/ \E u \in uses : Release(u)
  \/ Drop \/ Shutdown
  \/ \E a \in Apps : FinishClose(a)

Spec == Init /\ [][Next]_vars
=============================================================================
