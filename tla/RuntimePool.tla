----------------------------- MODULE RuntimePool -----------------------------
(***************************************************************************)
(* The panel's pool of loaded project runtimes                             *)
(* (internal/panel/runtime/manager.go).  A caller acquires a project's     *)
(* runtime and releases it when done; the manager keeps runtimes warm      *)
(* between callers, evicts the least recently used idle ones over the cap, *)
(* closes the ones left idle by a timer, and drops those that were         *)
(* invalidated.  Loading and closing an App happen outside the mutex, so   *)
(* they are steps of their own; what the code does while it holds m.mu is  *)
(* one step.                                                               *)
(*                                                                         *)
(* Time is abstracted to what the manager reads from it: which runtime was *)
(* used less recently (recent) and which idle ones have passed their       *)
(* deadline when the timer fires (due).                                    *)
(***************************************************************************)
EXTENDS Integers, FiniteSets

CONSTANTS
  Projects,    \* project ids a caller may ask for
  Primary,     \* the project of the App the panel command owns
  Callers,     \* request handlers
  Apps,        \* identities of loaded Apps; one is reused once it was closed
  PrimaryApp,  \* the App the manager is seeded with
  Caps,        \* values SetMaxActive is called with
  NoApp        \* the App of a project that is not in the pool

ASSUME PoolAssumption ==
  /\ IsFiniteSet(Projects) /\ Primary \in Projects
  /\ IsFiniteSet(Callers)
  /\ PrimaryApp \in Apps /\ NoApp \notin Apps
  /\ Caps # {} /\ Caps \subseteq Nat \ {0}

VARIABLES
  pool,    \* project -> its pooled runtime, or Vacant
  recent,  \* project -> its rank by lastUsedAt, the least recently used first
  app,     \* App -> "none" (not loaded), "open", "closing" (removed, not closed yet)
  call,    \* caller -> what it does: nothing, loading a project, using an App
  cap,     \* maxActive
  timer,   \* TRUE iff the idle timer is pending
  due,     \* the idle runtimes the CloseIdle of a fired timer finds expired
  phase    \* "up", "stopping" (StopIdleTimer done), "down" (Close done)

vars == <<pool, recent, app, call, cap, timer, due, phase>>

Vacant == [app |-> NoApp, inUse |-> 0, marked |-> FALSE]
Loaded(a) == [app |-> a, inUse |-> 1, marked |-> FALSE]

Resting == [at |-> "resting", project |-> Primary, app |-> NoApp]
Loading(p) == [at |-> "loading", project |-> p, app |-> NoApp]
Using(p, a) == [at |-> "using", project |-> p, app |-> a]

Ranks == 1..Cardinality(Projects)

Pooled(pl) == {p \in Projects : pl[p].app # NoApp}
Idle(pl) == {p \in Pooled(pl) \ {Primary} : pl[p].inUse = 0}
Without(pl, gone) == [p \in Projects |-> IF p \in gone THEN Vacant ELSE pl[p]]

\* lastUsedAt = now(): p becomes the most recently used.
Touch(p) == [q \in Projects |-> CASE q = p -> Cardinality(Projects)
                                  [] recent[q] > recent[p] -> recent[q] - 1
                                  [] OTHER -> recent[q]]

\* Mutant: The victim is chosen without looking at who uses it.
EvictionsOfBusy(pl, rank, n) ==
  {p \in Pooled(pl) \ {Primary} :
     Cardinality({q \in Pooled(pl) \ {Primary} : rank[q] < rank[p]}) < Cardinality(Pooled(pl)) - n}

\* selectEvictionsLocked: the least recently used idle runtimes, as many as
\* the pool holds beyond n, or all of them if they are fewer.
Evictions(pl, rank, n) ==
  {p \in Idle(pl) : Cardinality({q \in Idle(pl) : rank[q] < rank[p]}) < Cardinality(Pooled(pl)) - n}

\* Mutant: The nearest deadline is looked up before the change, not after it.
ScheduleBefore(pl) == timer' = (Idle(pool) # {})

\* scheduleIdleTimerLocked: a timer is pending exactly for an idle runtime.
Schedule(pl) == timer' = (Idle(pl) # {})

\* The rest of a critical section: runtimes in gone leave the pool pl, their
\* Apps are closed after the unlock, the timer is scheduled anew.
Settle(pl, st, gone) ==
  /\ pool' = Without(pl, gone)
  /\ app' = [a \in Apps |-> IF \E p \in gone : pl[p].app = a THEN "closing" ELSE st[a]]
  /\ Schedule(Without(pl, gone))

Init ==
  /\ pool = [p \in Projects |-> IF p = Primary THEN [Vacant EXCEPT !.app = PrimaryApp] ELSE Vacant]
  /\ recent \in [Projects -> Ranks]
  /\ \A p, q \in Projects : recent[p] = recent[q] => p = q
  /\ app = [a \in Apps |-> IF a = PrimaryApp THEN "open" ELSE "none"]
  /\ call = [c \in Callers |-> Resting]
  /\ cap \in Caps
  /\ timer = FALSE
  /\ due = {}
  /\ phase = "up"

-----------------------------------------------------------------------------
(* Acquire. *)

\* The caller joins the runtime pooled for p; st is what became of the Apps.
Join(c, p, st) ==
  /\ pool[p].app # NoApp
  /\ Settle([pool EXCEPT ![p].inUse = @ + 1], st, {})
  /\ recent' = Touch(p)
  /\ due' = due \ {p}
  /\ call' = [call EXCEPT ![c] = Using(p, pool[p].app)]
  /\ UNCHANGED <<cap, phase>>

AcquirePooled(c, p) ==
  /\ call[c].at = "resting"
  /\ Join(c, p, app)

\* Not pooled: the loader runs without the mutex.
StartLoad(c, p) ==
  /\ call[c].at = "resting"
  /\ pool[p].app = NoApp
  /\ call' = [call EXCEPT ![c] = Loading(p)]
  /\ UNCHANGED <<pool, recent, app, cap, timer, due, phase>>

LoadFails(c) ==
  /\ call[c].at = "loading"
  /\ call' = [call EXCEPT ![c] = Resting]
  /\ UNCHANGED <<pool, recent, app, cap, timer, due, phase>>

\* Another caller admitted the project meanwhile: its runtime is used and
\* the App just loaded, a, is closed.
JoinAfterLoad(c, a) ==
  /\ call[c].at = "loading"
  /\ app[a] = "none"
  /\ Join(c, call[c].project, [app EXCEPT ![a] = "closing"])

Admit(c, a) ==
  LET p == call[c].project
      grown == [pool EXCEPT ![p] = Loaded(a)]
      gone == Evictions(grown, Touch(p), cap)
  IN  /\ call[c].at = "loading"
      /\ pool[p].app = NoApp
      /\ app[a] = "none"
      /\ Settle(grown, [app EXCEPT ![a] = "open"], gone)
      /\ recent' = Touch(p)
      /\ due' = due \ (gone \cup {p})
      /\ call' = [call EXCEPT ![c] = Using(p, a)]
      /\ UNCHANGED <<cap, phase>>

-----------------------------------------------------------------------------
(* Release, by the closure Acquire returned: it names the project. *)

\* Close took the runtime away: nothing to release.
ReleaseVanished(c) ==
  /\ call[c].at = "using"
  /\ pool[call[c].project].app = NoApp
  /\ call' = [call EXCEPT ![c] = Resting]
  /\ UNCHANGED <<pool, recent, app, cap, timer, due, phase>>

\* Mutant: A release only refreshes lastUsedAt.
FewerNot(p) == pool

\* if rt.inUse > 0 { rt.inUse-- }
Fewer(p) == [pool EXCEPT ![p].inUse = IF @ > 0 THEN @ - 1 ELSE @]

\* Mutant: A release only lowers the count: the pool shrinks at the next admission.
DroppedStaleOnly(p) ==
  LET left == Fewer(p)
  IN  IF left[p].inUse = 0 /\ left[p].marked /\ p # Primary THEN {p} ELSE {}

\* Mutant: A release forgets the runtime was invalidated.
DroppedOverCap(p) ==
  LET left == Fewer(p)
  IN  IF left[p].inUse > 0 THEN {} ELSE Evictions(left, Touch(p), cap)

\* What the release of p drops: nothing while others use it; else the
\* runtime itself if it was invalidated meanwhile, and whatever is over cap.
Dropped(p) ==
  LET left == Fewer(p)
      stale == IF left[p].marked /\ p # Primary THEN {p} ELSE {}
  IN  IF left[p].inUse > 0 THEN {}
      ELSE stale \cup Evictions(Without(left, stale), Touch(p), cap)

Release(c) ==
  LET p == call[c].project
  IN  /\ call[c].at = "using"
      /\ pool[p].app # NoApp
      /\ Settle(Fewer(p), app, Dropped(p))
      /\ recent' = Touch(p)
      /\ due' = due \ (Dropped(p) \cup {p})
      /\ call' = [call EXCEPT ![c] = Resting]
      /\ UNCHANGED <<cap, phase>>

-----------------------------------------------------------------------------
(* Invalidate: ProjectSource.Deregister drops the runtime of a project. *)

InvalidateIdle(p) ==
  /\ p \in Idle(pool)
  /\ Settle(pool, app, {p})
  /\ due' = due \ {p}
  /\ UNCHANGED <<recent, call, cap, phase>>

InvalidateBusy(p) ==
  /\ p \in Pooled(pool) \ {Primary}
  /\ pool[p].inUse > 0
  /\ pool' = [pool EXCEPT ![p].marked = TRUE]
  /\ UNCHANGED <<recent, app, call, cap, timer, due, phase>>

SetMaxActive(n) ==
  LET gone == Evictions(pool, recent, n)
  IN  /\ cap' = n
      /\ Settle(pool, app, gone)
      /\ due' = due \ gone
      /\ UNCHANGED <<recent, call, phase>>

-----------------------------------------------------------------------------
(* The idle timer, and shutdown. *)

\* The nearest deadline arrives: the least recently used idle runtime has
\* expired, with it perhaps some of the next.
FireIdleTimer ==
  /\ timer
  /\ \E expired \in (SUBSET Idle(pool)) \ {{}} :
       /\ \A p \in expired, q \in Idle(pool) : recent[q] < recent[p] => q \in expired
       /\ due' = expired
  /\ timer' = FALSE
  /\ UNCHANGED <<pool, recent, app, call, cap, phase>>

\* The fired timer's CloseIdle gets the mutex; a runtime used since is in
\* due no more.
CloseIdle ==
  /\ due # {}
  /\ Settle(pool, app, due)
  /\ due' = {}
  /\ UNCHANGED <<recent, call, cap, phase>>

StopIdleTimer ==
  /\ phase = "up"
  /\ phase' = "stopping"
  /\ timer' = FALSE
  /\ UNCHANGED <<pool, recent, app, call, cap, due>>

\* Every runtime but the primary, used or not; the timer is left alone.
Close ==
  LET gone == Pooled(pool) \ {Primary}
  IN  /\ phase = "stopping"
      /\ phase' = "down"
      /\ pool' = Without(pool, gone)
      /\ app' = [a \in Apps |-> IF \E p \in gone : pool[p].app = a THEN "closing" ELSE app[a]]
      /\ due' = {}
      /\ UNCHANGED <<recent, call, cap, timer>>

\* m.closer(rt.App), after the mutex was given up.
FinishClose(a) ==
  /\ app[a] = "closing"
  /\ app' = [app EXCEPT ![a] = "none"]
  /\ UNCHANGED <<pool, recent, call, cap, timer, due, phase>>

CallerStep(c) ==
  \/ \E p \in Projects : AcquirePooled(c, p) \/ StartLoad(c, p)
  \/ LoadFails(c)
  \/ \E a \in Apps : JoinAfterLoad(c, a) \/ Admit(c, a)
  \/ ReleaseVanished(c)
  \/ Release(c)

Next ==
  \/ \E c \in Callers : CallerStep(c)
  \/ \E p \in Projects : InvalidateIdle(p) \/ InvalidateBusy(p)
  \/ \E n \in Caps : SetMaxActive(n)
  \/ FireIdleTimer
  \/ CloseIdle
  \/ StopIdleTimer
  \/ Close
  \/ \E a \in Apps : FinishClose(a)

Spec == Init /\ [][Next]_vars

\* A timer that is pending fires when its deadline comes, and rescheduling
\* it does not put the deadline of an unused runtime off: the deadline is
\* lastUsedAt plus the timeout.  The goroutine it starts gets the mutex.
Fairness == WF_vars(FireIdleTimer) /\ WF_vars(CloseIdle)

FairSpec == Spec /\ Fairness

-----------------------------------------------------------------------------
(* Properties. *)

Runtimes == [app : Apps \cup {NoApp}, inUse : 0..Cardinality(Callers), marked : BOOLEAN]
Calls == [at : {"resting", "loading", "using"}, project : Projects, app : Apps \cup {NoApp}]

\* Every variable has its type; no count exceeds the callers there are
\* (ProjectRuntime, ProjectRuntimeManager).
PoolTypeOK ==
  /\ pool \in [Projects -> Runtimes]
  /\ recent \in [Projects -> Ranks]
  /\ app \in [Apps -> {"none", "open", "closing"}]
  /\ call \in [Callers -> Calls]
  /\ cap \in Caps
  /\ timer \in BOOLEAN
  /\ due \subseteq Projects
  /\ phase \in {"up", "stopping", "down"}

Users(p) == {c \in Callers : call[c].at = "using" /\ call[c].project = p}

\* The App a caller was given stays open and stays the pooled one of its
\* project until the caller releases it, whatever loads, evictions,
\* invalidations, timers and releases happen meanwhile (manager.go:70-72: a
\* runtime in use is never evicted or closed).  Close at shutdown is the
\* documented exception.
HeldStaysOpen ==
  phase # "down" =>
    \A c \in Callers : call[c].at = "using" =>
      /\ pool[call[c].project].app = call[c].app
      /\ app[call[c].app] = "open"

\* No App is forgotten and none is closed while pooled: the open Apps are
\* the pooled ones, each of one project, the redundant load of a race is
\* closed, and the primary keeps its own App (manager.go:234-267).
Accounted ==
  /\ \A a \in Apps : app[a] = "open" <=> \E p \in Projects : pool[p].app = a
  /\ \A p, q \in Projects : pool[p].app # NoApp /\ pool[p].app = pool[q].app => p = q
  /\ pool[Primary].app = PrimaryApp

\* The pool exceeds its cap only while every runtime but the primary is in
\* use: going idle, admission and a lowered cap all bring it back at once
\* (manager.go:28-33, 360-366).
OverCapOnlyWhileBusy == Cardinality(Pooled(pool)) > cap => Idle(pool) = {}

\* A runtime that was invalidated while in use does not outlive its last
\* reference (manager.go:74-77).
StaleOnlyWhileUsed == \A p \in Projects : pool[p].marked => pool[p].inUse > 0

\* An idle runtime has a timer pending, or a sweep about to take the mutex,
\* that will come back for it (manager.go:488-493).
TimerCovers == phase = "up" /\ Idle(pool) # {} => timer \/ due # {}

\* A runtime left idle is used again or closed; others coming and going
\* cannot keep it pooled for ever (manager.go:436-461, 521-527).
IdleReclaimed ==
  \A p \in Projects :
    (p \in Idle(pool) /\ phase = "up") ~> (p \notin Idle(pool) \/ phase # "up")

\* Who holds which App, and for which project.
Handles == {<<c, call[c].project, call[c].app>> : c \in {d \in Callers : call[d].at = "using"}}

Holding == INSTANCE AppHandles WITH
  serving <- [p \in Projects |-> pool[p].app],
  uses <- Handles,
  down <- phase = "down"

\* To its callers the pool is a table of Apps: one at most per project, taken
\* away from nobody before shutdown, none left open behind, whatever loads,
\* evictions, invalidations, timers and releases interleave (manager.go:70-77,
\* 234-267).
ImplementsHandles == Holding!Spec
=============================================================================
