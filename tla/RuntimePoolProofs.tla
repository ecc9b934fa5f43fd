-------------------------- MODULE RuntimePoolProofs --------------------------
(***************************************************************************)
(* Proofs about RuntimePool: no runtime is closed under a caller, no App   *)
(* is forgotten, no stale runtime outlives its last user and the cap is    *)
(* exceeded only by what is in use, for any projects, callers and caps.    *)
(*                                                                         *)
(* What is inductive is that the pool, the Apps and the callers fit: every *)
(* count is the number of callers that hold the project (after Close, at   *)
(* most that number).  A critical section changes the pool and then        *)
(* removes idle runtimes; lemma RemovalFits treats the removal once for    *)
(* all, so that each action has only its own change to account for.        *)
(***************************************************************************)
EXTENDS RuntimePool, FiniteSetTheorems, WellFoundedInduction, TLAPS

USE PoolAssumption

Entries == [app : Apps \cup {NoApp}, inUse : Nat, marked : BOOLEAN]
AppStates == {"none", "open", "closing"}

\* The callers that use project p in the calls cl.
UsersIn(cl, p) == {c \in Callers : cl[c].at = "using" /\ cl[c].project = p}

WellTyped(pl, st, cl) ==
  /\ pl \in [Projects -> Entries]
  /\ st \in [Apps -> AppStates]
  /\ cl \in [Callers -> Calls]

Complete(pl, st) ==
  /\ \A a \in Apps : st[a] = "open" <=> \E p \in Projects : pl[p].app = a
  /\ \A p, q \in Projects : pl[p].app # NoApp /\ pl[p].app = pl[q].app => p = q
  /\ pl[Primary].app = PrimaryApp
  /\ \A p \in Projects : pl[p].app = NoApp => pl[p].inUse = 0

Counted(pl, cl, down) ==
  /\ \A p \in Projects : pl[p].inUse <= Cardinality(UsersIn(cl, p))
  /\ ~down => \A p \in Projects : pl[p].inUse = Cardinality(UsersIn(cl, p))

Held(pl, cl, down) ==
  ~down => \A c \in Callers : cl[c].at = "using" => /\ cl[c].app \in Apps
                                                    /\ pl[cl[c].project].app = cl[c].app

Fits(pl, st, cl, down) ==
  /\ WellTyped(pl, st, cl)
  /\ Complete(pl, st)
  /\ Counted(pl, cl, down)
  /\ Held(pl, cl, down)

\* A mark says that the runtime is in use and is not the primary.
Marked(pl) == \A p \in Projects : pl[p].marked => pl[p].inUse > 0 /\ p # Primary

Rest ==
  /\ recent \in [Projects -> Ranks]
  /\ cap \in Caps
  /\ timer \in BOOLEAN
  /\ due \subseteq Idle(pool)
  /\ phase \in {"up", "stopping", "down"}

PoolInv ==
  /\ Fits(pool, app, call, phase = "down")
  /\ Marked(pool)
  /\ Rest
  /\ TimerCovers

-----------------------------------------------------------------------------
(* Who uses a project. *)

\* The users of a project are finitely many; one user makes the number positive.
LEMMA UsersFinite ==
  ASSUME NEW cl, NEW p
  PROVE  /\ IsFiniteSet(UsersIn(cl, p))
         /\ Cardinality(UsersIn(cl, p)) \in Nat
         /\ Cardinality(UsersIn(cl, p)) <= Cardinality(Callers)
         /\ Cardinality(Callers) \in Nat
         /\ \A c \in UsersIn(cl, p) : Cardinality(UsersIn(cl, p)) > 0
  <1>1. UsersIn(cl, p) \subseteq Callers
    BY DEF UsersIn
  <1>2. IsFiniteSet(UsersIn(cl, p)) /\ Cardinality(UsersIn(cl, p)) <= Cardinality(Callers)
    BY <1>1, FS_Subset
  <1>3. Cardinality(UsersIn(cl, p)) \in Nat /\ Cardinality(Callers) \in Nat
    BY <1>2, FS_CardinalityType
  <1>4. UsersIn(cl, p) # {} => Cardinality(UsersIn(cl, p)) # 0
    BY <1>2, FS_EmptySet
  <1>5. QED
    BY <1>2, <1>3, <1>4

\* A caller that was not using anything starts to use p (the end of Acquire).
LEMMA UserAdded ==
  ASSUME NEW c \in Callers, call \in [Callers -> Calls], call[c].at # "using",
         NEW p \in Projects, NEW a, call' = [call EXCEPT ![c] = Using(p, a)]
  PROVE  /\ Cardinality(UsersIn(call', p)) = Cardinality(UsersIn(call, p)) + 1
         /\ \A q \in Projects \ {p} : UsersIn(call', q) = UsersIn(call, q)
  <1>. DEFINE S == UsersIn(call, p)
  <1>1. \A d \in Callers \ {c} : call'[d] = call[d]
    OBVIOUS
  <1>2. call'[c].at = "using" /\ call'[c].project = p
    BY DEF Using
  <1>3. UsersIn(call', p) = S \cup {c} /\ c \notin S
    BY <1>1, <1>2 DEF UsersIn
  <1>4. IsFiniteSet(S)
    BY UsersFinite
  <1>5. \A q \in Projects \ {p} : UsersIn(call', q) = UsersIn(call, q)
    BY <1>1, <1>2 DEF UsersIn
  <1>6. Cardinality(S \cup {c}) = Cardinality(S) + 1
    <2>. HIDE DEF S
    <2>. QED BY <1>3, <1>4, FS_AddElement
  <1>. QED
    BY <1>3, <1>5, <1>6

\* A user of p is done (a release).
LEMMA UserRemoved ==
  ASSUME NEW c \in Callers, call \in [Callers -> Calls], call[c].at = "using",
         call' = [call EXCEPT ![c] = Resting]
  PROVE  /\ Cardinality(UsersIn(call', call[c].project)) = Cardinality(UsersIn(call, call[c].project)) - 1
         /\ \A q \in Projects \ {call[c].project} : UsersIn(call', q) = UsersIn(call, q)
  <1>. DEFINE S == UsersIn(call, call[c].project)
  <1>1. \A d \in Callers \ {c} : call'[d] = call[d]
    OBVIOUS
  <1>2. call'[c].at # "using"
    BY DEF Resting
  <1>3. UsersIn(call', call[c].project) = S \ {c}
    BY <1>1, <1>2 DEF UsersIn
  <1>4. IsFiniteSet(S) /\ c \in S
    BY UsersFinite DEF UsersIn
  <1>5. \A q \in Projects \ {call[c].project} : UsersIn(call', q) = UsersIn(call, q)
    BY <1>1, <1>2 DEF UsersIn
  <1>6. Cardinality(S \ {c}) = Cardinality(S) - 1
    <2>. HIDE DEF S
    <2>. QED BY <1>4, FS_RemoveElement
  <1>. QED
    BY <1>3, <1>5, <1>6

\* A caller that uses nothing before and after changes no count (StartLoad, LoadFails).
LEMMA UsersSame ==
  ASSUME NEW c \in Callers, call \in [Callers -> Calls], call[c].at # "using",
         NEW s, s.at # "using", call' = [call EXCEPT ![c] = s]
  PROVE  \A q \in Projects : UsersIn(call', q) = UsersIn(call, q)
  BY DEF UsersIn

-----------------------------------------------------------------------------
(* Removing idle runtimes. *)

Closing(pl, st, gone) == [a \in Apps |-> IF \E p \in gone : pl[p].app = a THEN "closing" ELSE st[a]]

\* Idle runtimes that leave the pool, their Apps to be closed, leave every
\* caller its App and every other App accounted for (selectEvictionsLocked,
\* CloseIdle, Invalidate, Release); after shutdown any runtime may leave but
\* the primary (Close).
LEMMA RemovalFits ==
  ASSUME NEW pl, NEW st, NEW cl, NEW down \in BOOLEAN, Fits(pl, st, cl, down),
         NEW gone \in SUBSET (Pooled(pl) \ {Primary}), ~down => gone \subseteq Idle(pl)
  PROVE  /\ Fits(Without(pl, gone), Closing(pl, st, gone), cl, down)
         /\ Idle(Without(pl, gone)) = Idle(pl) \ gone
  <1>. DEFINE pl2 == Without(pl, gone)
              st2 == Closing(pl, st, gone)
  <1>1. WellTyped(pl, st, cl) /\ Complete(pl, st) /\ Counted(pl, cl, down) /\ Held(pl, cl, down)
    BY DEF Fits
  <1>2. /\ \A p \in Projects : pl2[p] = IF p \in gone THEN Vacant ELSE pl[p]
        /\ \A a \in Apps : st2[a] = IF \E p \in gone : pl[p].app = a THEN "closing" ELSE st[a]
        /\ pl2 = [p \in Projects |-> pl2[p]] /\ st2 = [a \in Apps |-> st2[a]]
    BY DEF Without, Closing
  <1>3. /\ gone \subseteq Projects \ {Primary}
        /\ ~down => \A p \in gone : pl[p].inUse = 0
    BY DEF Idle, Pooled
  <1>4. WellTyped(pl2, st2, cl)
    <2>1. Vacant \in Entries
      BY DEF Vacant, Entries
    <2>2. \A p \in Projects : pl2[p] \in Entries
      BY <1>1, <1>2, <2>1 DEF WellTyped
    <2>3. \A a \in Apps : st2[a] \in AppStates
      BY <1>1, <1>2 DEF WellTyped, AppStates
    <2>. HIDE DEF pl2, st2
    <2>. QED
      BY <1>1, <1>2, <2>2, <2>3 DEF WellTyped
  <1>5. Complete(pl2, st2)
    <2>1. Vacant.app = NoApp /\ Vacant.inUse = 0
      BY DEF Vacant
    <2>2. ASSUME NEW a \in Apps PROVE st2[a] = "open" <=> \E p \in Projects : pl2[p].app = a
      <3>1. a # NoApp
        BY PoolAssumption
      <3>2. CASE \E p \in gone : pl[p].app = a
        <4>1. PICK p \in gone : pl[p].app = a
          BY <3>2
        <4>2. \A q \in Projects \ gone : pl[q].app # a
          BY <1>1, <1>3, <3>1, <4>1 DEF Complete
        <4>3. \A q \in Projects : pl2[q].app # a
          BY <1>2, <2>1, <3>1, <4>2
        <4>. QED
          BY <1>2, <3>2, <4>3
      <3>3. CASE ~\E p \in gone : pl[p].app = a
        <4>1. st2[a] = st[a]
          BY <1>2, <3>3
        <4>2. \A q \in Projects : pl2[q].app = a <=> pl[q].app = a
          BY <1>2, <1>3, <2>1, <3>1, <3>3
        <4>. QED
          BY <1>1, <4>1, <4>2 DEF Complete
      <3>. QED
        BY <3>2, <3>3
    <2>3. \A p \in Projects : pl2[p].app # NoApp => pl2[p] = pl[p]
      BY <1>2, <2>1
    <2>4. \A p, q \in Projects : pl2[p].app # NoApp /\ pl2[p].app = pl2[q].app => p = q
      BY <1>1, <2>3 DEF Complete
    <2>5. pl2[Primary].app = PrimaryApp
      BY <1>1, <1>2, <1>3, PoolAssumption DEF Complete
    <2>6. \A p \in Projects : pl2[p].app = NoApp => pl2[p].inUse = 0
      BY <1>1, <1>2, <2>1 DEF Complete
    <2>. QED
      BY <2>2, <2>4, <2>5, <2>6 DEF Complete
  <1>6. \A p \in Projects : /\ pl2[p].inUse = 0 \/ pl2[p].inUse = pl[p].inUse
                            /\ ~down => pl2[p].inUse = pl[p].inUse
    BY <1>2, <1>3 DEF Vacant
  <1>7. Counted(pl2, cl, down)
    <2>1. \A p \in Projects : Cardinality(UsersIn(cl, p)) \in Nat
      BY UsersFinite
    <2>2. ASSUME NEW p \in Projects PROVE pl2[p].inUse <= Cardinality(UsersIn(cl, p))
      <3>1. pl[p].inUse <= Cardinality(UsersIn(cl, p))
        BY <1>1 DEF Counted
      <3>. HIDE DEF pl2
      <3>. QED
        BY <1>6, <2>1, <3>1
    <2>3. ASSUME ~down, NEW p \in Projects PROVE pl2[p].inUse = Cardinality(UsersIn(cl, p))
      BY <1>1, <1>6, <2>3 DEF Counted
    <2>. QED
      BY <2>2, <2>3 DEF Counted
  <1>8. Held(pl2, cl, down)
    <2>. SUFFICES ASSUME ~down, NEW c \in Callers, cl[c].at = "using"
                  PROVE  cl[c].app \in Apps /\ pl2[cl[c].project].app = cl[c].app
      BY DEF Held
    <2>1. cl[c].project \in Projects
      BY <1>1 DEF WellTyped, Calls
    <2>2. c \in UsersIn(cl, cl[c].project)
      BY DEF UsersIn
    <2>3. pl[cl[c].project].inUse > 0
      BY <1>1, <2>1, <2>2, UsersFinite DEF Counted
    <2>4. cl[c].project \notin gone
      BY <1>3, <2>3
    <2>. QED
      BY <1>1, <1>2, <2>1, <2>4 DEF Held
  <1>9. Idle(pl2) = Idle(pl) \ gone
    BY <1>2 DEF Idle, Pooled, Vacant
  <1>. QED
    BY <1>4, <1>5, <1>7, <1>8, <1>9 DEF Fits

\* Marks survive the removal of runtimes as they should: a runtime that is
\* marked and not in use is among those removed (Release).
LEMMA RemovalMarked ==
  ASSUME NEW pl, NEW gone,
         \A p \in Projects : pl[p].marked => p # Primary /\ (pl[p].inUse > 0 \/ p \in gone)
  PROVE  Marked(Without(pl, gone))
  BY DEF Marked, Without, Vacant

LEMMA EvictionsIdle ==
  ASSUME NEW pl, NEW rank, NEW n
  PROVE  Evictions(pl, rank, n) \subseteq Idle(pl)
  BY DEF Evictions

\* The shared end of the critical sections: if pool pl, Apps st and the new
\* calls fit before idle runtimes are removed, they fit afterwards, and the
\* timer covers what is left idle.
LEMMA SettleFits ==
  ASSUME NEW pl, NEW st, NEW gone \in SUBSET Idle(pl), Settle(pl, st, gone),
         Fits(pl, st, call', (phase = "down")'),
         \A p \in Projects : pl[p].marked => p # Primary /\ (pl[p].inUse > 0 \/ p \in gone)
  PROVE  /\ Fits(pool', app', call', (phase = "down")')
         /\ Marked(pool')
         /\ Idle(pool') = Idle(pl) \ gone
         /\ timer' \in BOOLEAN
         /\ TimerCovers'
  <1>1. /\ pool' = Without(pl, gone)
        /\ app' = Closing(pl, st, gone)
        /\ timer' = (Idle(pool') # {})
    BY DEF Settle, Closing, Schedule
  <1>2. gone \in SUBSET (Pooled(pl) \ {Primary})
    BY DEF Idle
  <1>3. (phase = "down")' \in BOOLEAN
    OBVIOUS
  <1>4. Fits(pool', app', call', (phase = "down")') /\ Idle(pool') = Idle(pl) \ gone
    BY <1>1, <1>2, <1>3, RemovalFits
  <1>5. Marked(pool')
    BY <1>1, RemovalMarked
  <1>6. timer' \in BOOLEAN /\ TimerCovers'
    BY <1>1 DEF TimerCovers
  <1>. QED
    BY <1>4, <1>5, <1>6

-----------------------------------------------------------------------------
(* The invariant. *)

LEMMA TouchRanks ==
  ASSUME recent \in [Projects -> Ranks], NEW p \in Projects
  PROVE  Touch(p) \in [Projects -> Ranks]
  <1>1. Cardinality(Projects) \in Nat
    BY PoolAssumption, FS_CardinalityType
  <1>2. \A q \in Projects : recent[q] \in 1..Cardinality(Projects)
    BY DEF Ranks
  <1>3. Cardinality(Projects) \in 1..Cardinality(Projects)
    BY <1>1, <1>2
  <1>4. \A q \in Projects : recent[q] > recent[p] => recent[q] - 1 \in 1..Cardinality(Projects)
    BY <1>1, <1>2
  <1>. QED
    BY <1>2, <1>3, <1>4 DEF Touch, Ranks

\* A caller joins the runtime of p: one more user, one more counted.
LEMMA JoinKeeps ==
  ASSUME PoolInv, NEW c \in Callers, NEW p \in Projects, call[c].at # "using",
         NEW st \in [Apps -> AppStates], Join(c, p, st),
         \A a \in Apps : st[a] = "open" <=> app[a] = "open"
  PROVE  PoolInv'
  <1>. DEFINE pl == [pool EXCEPT ![p].inUse = @ + 1]
  <1>1. /\ WellTyped(pool, app, call) /\ Complete(pool, app)
        /\ Counted(pool, call, phase = "down") /\ Held(pool, call, phase = "down")
    BY DEF PoolInv, Fits
  <1>2. /\ pool[p].app # NoApp
        /\ Settle(pl, st, {})
        /\ recent' = Touch(p)
        /\ due' = due \ {p}
        /\ call' = [call EXCEPT ![c] = Using(p, pool[p].app)]
        /\ cap' = cap /\ phase' = phase
    BY DEF Join
  <1>3. /\ pl \in [Projects -> Entries]
        /\ \A q \in Projects : pl[q].app = pool[q].app /\ pl[q].marked = pool[q].marked
        /\ pl[p].inUse = pool[p].inUse + 1 /\ pl[p].inUse > 0
        /\ \A q \in Projects \ {p} : pl[q].inUse = pool[q].inUse
    BY <1>1 DEF WellTyped, Entries
  <1>4. Using(p, pool[p].app) \in Calls /\ pool[p].app \in Apps
    BY <1>1, <1>2 DEF WellTyped, Entries, Using, Calls
  <1>5. call' \in [Callers -> Calls]
    BY <1>1, <1>2, <1>4 DEF WellTyped
  <1>6. /\ Cardinality(UsersIn(call', p)) = Cardinality(UsersIn(call, p)) + 1
        /\ \A q \in Projects \ {p} : UsersIn(call', q) = UsersIn(call, q)
    <2>1. call \in [Callers -> Calls]
      BY <1>1 DEF WellTyped
    <2>2. call' = [call EXCEPT ![c] = Using(p, pool[p].app)]
      BY <1>2
    <2>. QED
      BY <2>1, <2>2, UserAdded
  <1>7. Fits(pl, st, call', (phase = "down")')
    <2>1. WellTyped(pl, st, call')
      BY <1>3, <1>5 DEF WellTyped
    <2>2. Complete(pl, st)
      BY <1>1, <1>2, <1>3 DEF Complete
    <2>3. Counted(pl, call', (phase = "down")')
      <3>1. \A q \in Projects : pool[q].inUse \in Nat /\ Cardinality(UsersIn(call, q)) \in Nat
        BY <1>1, UsersFinite DEF WellTyped, Entries
      <3>2. \A q \in Projects \ {p} : /\ pl[q].inUse = pool[q].inUse
                                      /\ Cardinality(UsersIn(call', q)) = Cardinality(UsersIn(call, q))
        BY <1>3, <1>6
      <3>3. /\ pl[p].inUse = pool[p].inUse + 1
            /\ Cardinality(UsersIn(call', p)) = Cardinality(UsersIn(call, p)) + 1
        BY <1>3, <1>6
      <3>. HIDE DEF pl
      <3>4. ASSUME NEW q \in Projects PROVE pl[q].inUse <= Cardinality(UsersIn(call', q))
        <4>1. pool[q].inUse <= Cardinality(UsersIn(call, q))
          BY <1>1 DEF Counted
        <4>. QED
          BY <3>1, <3>2, <3>3, <4>1
      <3>5. ASSUME phase' # "down", NEW q \in Projects PROVE pl[q].inUse = Cardinality(UsersIn(call', q))
        <4>1. pool[q].inUse = Cardinality(UsersIn(call, q))
          BY <1>1, <1>2, <3>5 DEF Counted
        <4>. QED
          BY <3>2, <3>3, <4>1
      <3>. QED
        BY <3>4, <3>5 DEF Counted
    <2>4. Held(pl, call', (phase = "down")')
      BY <1>1, <1>2, <1>3, <1>4 DEF Held, Using, WellTyped, Calls
    <2>. QED
      BY <2>1, <2>2, <2>3, <2>4 DEF Fits
  <1>8. \A q \in Projects : pl[q].marked => q # Primary /\ (pl[q].inUse > 0 \/ q \in {})
    BY <1>3 DEF PoolInv, Marked
  <1>9. Idle(pl) = Idle(pool) \ {p}
    BY <1>3 DEF Idle, Pooled
  <1>. HIDE DEF pl
  <1>10. /\ Fits(pool', app', call', (phase = "down")') /\ Marked(pool')
         /\ Idle(pool') = Idle(pl) \ {} /\ timer' \in BOOLEAN /\ TimerCovers'
    BY <1>2, <1>7, <1>8, SettleFits
  <1>11. Rest'
    BY <1>2, <1>9, <1>10, TouchRanks DEF PoolInv, Rest
  <1>. QED
    BY <1>10, <1>11 DEF PoolInv

\* A caller that uses nothing goes on using nothing; the pool is left alone.
LEMMA CallOnlyKeeps ==
  ASSUME PoolInv, NEW c \in Callers, call[c].at # "using",
         NEW s \in Calls, s.at # "using", call' = [call EXCEPT ![c] = s],
         UNCHANGED <<pool, recent, app, cap, timer, due, phase>>
  PROVE  PoolInv'
  <1>1. /\ WellTyped(pool, app, call) /\ Complete(pool, app)
        /\ Counted(pool, call, phase = "down") /\ Held(pool, call, phase = "down")
    BY DEF PoolInv, Fits
  <1>2. WellTyped(pool', app', call')
    BY <1>1 DEF WellTyped
  <1>3. \A q \in Projects : UsersIn(call', q) = UsersIn(call, q)
    BY <1>1, UsersSame DEF WellTyped
  <1>4. Counted(pool', call', (phase = "down")')
    BY <1>1, <1>3 DEF Counted
  <1>5. Held(pool', call', (phase = "down")')
    BY <1>1 DEF Held, WellTyped
  <1>6. Complete(pool', app')
    BY <1>1
  <1>7. Marked(pool') /\ Rest' /\ TimerCovers'
    BY DEF PoolInv, Rest, TimerCovers
  <1>. QED
    BY <1>2, <1>4, <1>5, <1>6, <1>7 DEF PoolInv, Fits

LEMMA AdmitKeeps ==
  ASSUME PoolInv, NEW c \in Callers, NEW a \in Apps, Admit(c, a)
  PROVE  PoolInv'
  <1>. DEFINE p == call[c].project
              grown == [pool EXCEPT ![p] = Loaded(a)]
              st == [app EXCEPT ![a] = "open"]
              gone == Evictions(grown, Touch(p), cap)
  <1>1. /\ WellTyped(pool, app, call) /\ Complete(pool, app)
        /\ Counted(pool, call, phase = "down") /\ Held(pool, call, phase = "down")
    BY DEF PoolInv, Fits
  <1>2. /\ call[c].at = "loading"
        /\ pool[p].app = NoApp
        /\ app[a] = "none"
        /\ Settle(grown, st, gone)
        /\ recent' = Touch(p)
        /\ due' = due \ (gone \cup {p})
        /\ call' = [call EXCEPT ![c] = Using(p, a)]
        /\ cap' = cap /\ phase' = phase
    BY DEF Admit
  <1>3. p \in Projects /\ call[c].at # "using" /\ a # NoApp
    BY <1>1, <1>2, PoolAssumption DEF WellTyped, Calls
  <1>. HIDE DEF p
  <1>4. /\ grown \in [Projects -> Entries]
        /\ grown[p] = Loaded(a)
        /\ Loaded(a).app = a /\ Loaded(a).inUse = 1 /\ Loaded(a).marked = FALSE
        /\ \A q \in Projects \ {p} : grown[q] = pool[q]
    BY <1>1, <1>3 DEF WellTyped, Entries, Loaded
  <1>5. /\ st \in [Apps -> AppStates]
        /\ st[a] = "open" /\ \A b \in Apps \ {a} : st[b] = app[b]
    BY <1>1 DEF WellTyped, AppStates
  <1>6. /\ Using(p, a) \in Calls
        /\ Using(p, a).at = "using" /\ Using(p, a).project = p /\ Using(p, a).app = a
    BY <1>3 DEF Using, Calls
  <1>7. call' \in [Callers -> Calls]
    BY <1>1, <1>2, <1>6 DEF WellTyped
  <1>8. /\ Cardinality(UsersIn(call', p)) = Cardinality(UsersIn(call, p)) + 1
        /\ \A q \in Projects \ {p} : UsersIn(call', q) = UsersIn(call, q)
    <2>1. call \in [Callers -> Calls]
      BY <1>1 DEF WellTyped
    <2>. QED
      BY <1>2, <1>3, <2>1, UserAdded
  \* The App was not loaded, so no project had it.
  <1>9. \A q \in Projects : pool[q].app # a
    BY <1>1, <1>2 DEF Complete
  <1>10. pool[p].inUse = 0
    BY <1>1, <1>2, <1>3 DEF Complete
  <1>. HIDE DEF grown, st
  <1>11. Fits(grown, st, call', (phase = "down")')
    <2>1. WellTyped(grown, st, call')
      BY <1>4, <1>5, <1>7 DEF WellTyped
    <2>2. Complete(grown, st)
      <3>1. ASSUME NEW b \in Apps PROVE st[b] = "open" <=> \E q \in Projects : grown[q].app = b
        <4>1. CASE b = a
          BY <1>3, <1>4, <1>5, <4>1
        <4>2. CASE b # a
          <5>1. \A q \in Projects : grown[q].app = b <=> pool[q].app = b
            BY <1>2, <1>4, <4>2, PoolAssumption
          <5>. QED
            BY <1>1, <1>5, <4>2, <5>1 DEF Complete
        <4>. QED
          BY <4>1, <4>2
      <3>2. \A q, r \in Projects : grown[q].app # NoApp /\ grown[q].app = grown[r].app => q = r
        BY <1>1, <1>4, <1>9 DEF Complete
      <3>3. grown[Primary].app = PrimaryApp
        BY <1>1, <1>2, <1>4, PoolAssumption DEF Complete
      <3>4. \A q \in Projects : grown[q].app = NoApp => grown[q].inUse = 0
        BY <1>1, <1>3, <1>4 DEF Complete
      <3>. QED
        BY <3>1, <3>2, <3>3, <3>4 DEF Complete
    <2>3. Counted(grown, call', (phase = "down")')
      <3>1. \A q \in Projects : Cardinality(UsersIn(call, q)) \in Nat
        BY UsersFinite
      <3>2. ASSUME NEW q \in Projects PROVE grown[q].inUse <= Cardinality(UsersIn(call', q))
        <4>1. CASE q = p
          BY <1>4, <1>8, <3>1, <4>1
        <4>2. CASE q # p
          BY <1>1, <1>4, <1>8, <4>2 DEF Counted
        <4>. QED
          BY <4>1, <4>2
      <3>3. ASSUME phase' # "down", NEW q \in Projects PROVE grown[q].inUse = Cardinality(UsersIn(call', q))
        <4>1. pool[q].inUse = Cardinality(UsersIn(call, q))
          BY <1>1, <1>2, <3>3 DEF Counted
        <4>. QED
          BY <1>4, <1>8, <1>10, <3>1, <4>1
      <3>. QED
        BY <3>2, <3>3 DEF Counted
    <2>4. Held(grown, call', (phase = "down")')
      <3>. SUFFICES ASSUME phase' # "down", NEW d \in Callers, call'[d].at = "using"
                    PROVE  call'[d].app \in Apps /\ grown[call'[d].project].app = call'[d].app
        BY DEF Held
      <3>1. CASE d = c
        BY <1>1, <1>2, <1>4, <1>6, <3>1 DEF WellTyped
      <3>2. CASE d # c
        <4>1. call'[d] = call[d] /\ call[d].project \in Projects
          BY <1>1, <1>2, <3>2 DEF WellTyped, Calls
        <4>2. call[d].app \in Apps /\ pool[call[d].project].app = call[d].app
          BY <1>1, <1>2, <4>1 DEF Held
        <4>3. call[d].project # p
          BY <1>2, <4>2, PoolAssumption
        <4>. QED
          BY <1>4, <4>1, <4>2, <4>3
      <3>. QED
        BY <3>1, <3>2
    <2>. QED
      BY <2>1, <2>2, <2>3, <2>4 DEF Fits
  <1>12. \A q \in Projects : grown[q].marked => q # Primary /\ (grown[q].inUse > 0 \/ q \in gone)
    BY <1>4 DEF PoolInv, Marked
  <1>13. Idle(grown) = Idle(pool)
    BY <1>2, <1>4 DEF Idle, Pooled
  <1>14. gone \in SUBSET Idle(grown)
    BY EvictionsIdle
  <1>. HIDE DEF gone
  <1>15. /\ Fits(pool', app', call', (phase = "down")') /\ Marked(pool')
         /\ Idle(pool') = Idle(grown) \ gone /\ timer' \in BOOLEAN /\ TimerCovers'
    BY <1>2, <1>11, <1>12, <1>14, SettleFits
  <1>16. Rest'
    BY <1>2, <1>3, <1>13, <1>15, TouchRanks DEF PoolInv, Rest
  <1>. QED
    BY <1>15, <1>16 DEF PoolInv

LEMMA ReleaseKeeps ==
  ASSUME PoolInv, NEW c \in Callers, Release(c)
  PROVE  PoolInv'
  <1>. DEFINE p == call[c].project
              left == Fewer(p)
              stale == IF left[p].marked /\ p # Primary THEN {p} ELSE {}
              gone == Dropped(p)
  <1>1. /\ WellTyped(pool, app, call) /\ Complete(pool, app)
        /\ Counted(pool, call, phase = "down") /\ Held(pool, call, phase = "down")
    BY DEF PoolInv, Fits
  <1>2. /\ call[c].at = "using"
        /\ pool[p].app # NoApp
        /\ Settle(left, app, gone)
        /\ recent' = Touch(p)
        /\ due' = due \ (gone \cup {p})
        /\ call' = [call EXCEPT ![c] = Resting]
        /\ cap' = cap /\ phase' = phase
    BY DEF Release
  <1>3. p \in Projects /\ c \in UsersIn(call, p)
    BY <1>1, <1>2 DEF WellTyped, Calls, UsersIn
  <1>4. /\ Cardinality(UsersIn(call', p)) = Cardinality(UsersIn(call, p)) - 1
        /\ \A q \in Projects \ {p} : UsersIn(call', q) = UsersIn(call, q)
    <2>1. call \in [Callers -> Calls]
      BY <1>1 DEF WellTyped
    <2>. QED
      BY <1>2, <2>1, UserRemoved
  <1>5. Resting \in Calls /\ Resting.at # "using"
    BY PoolAssumption DEF Resting, Calls
  <1>6. call' \in [Callers -> Calls]
    BY <1>1, <1>2, <1>5 DEF WellTyped
  <1>7. \A d \in Callers : call'[d].at = "using" => call'[d] = call[d]
    BY <1>1, <1>2, <1>5 DEF WellTyped
  <1>. HIDE DEF p
  <1>8. /\ left \in [Projects -> Entries]
        /\ \A q \in Projects : left[q].app = pool[q].app /\ left[q].marked = pool[q].marked
        /\ left[p].inUse = IF pool[p].inUse > 0 THEN pool[p].inUse - 1 ELSE pool[p].inUse
        /\ \A q \in Projects \ {p} : left[q].inUse = pool[q].inUse
    BY <1>1, <1>3 DEF WellTyped, Entries, Fewer
  <1>9. gone = IF left[p].inUse > 0 THEN {} ELSE stale \cup Evictions(Without(left, stale), Touch(p), cap)
    BY DEF Dropped
  <1>. HIDE DEF left, gone
  <1>10. gone \in SUBSET Idle(left)
    <2>1. Evictions(Without(left, stale), Touch(p), cap) \subseteq Idle(Without(left, stale))
      BY EvictionsIdle
    <2>2. Idle(Without(left, stale)) \subseteq Idle(left)
      BY DEF Idle, Pooled, Without, Vacant
    <2>3. CASE left[p].inUse > 0
      BY <1>9, <2>3
    <2>4. CASE ~(left[p].inUse > 0)
      <3>3. left[p].inUse \in Nat
        BY <1>3, <1>8 DEF Entries
      <3>1. left[p].inUse = 0
        BY <2>4, <3>3
      <3>4. left[p].app # NoApp
        BY <1>2, <1>3, <1>8
      <3>2. stale \subseteq Idle(left)
        BY <1>3, <3>1, <3>4 DEF Idle, Pooled
      <3>. HIDE DEF stale
      <3>. QED
        BY <1>9, <2>1, <2>2, <2>4, <3>2
    <2>. QED
      BY <2>3, <2>4
  <1>11. \A q \in Projects : left[q].marked => q # Primary /\ (left[q].inUse > 0 \/ q \in gone)
    BY <1>8, <1>9 DEF PoolInv, Marked
  <1>12. Fits(left, app, call', (phase = "down")')
    <2>1. WellTyped(left, app, call')
      BY <1>1, <1>6, <1>8 DEF WellTyped
    <2>2. Complete(left, app)
      BY <1>1, <1>2, <1>8 DEF Complete
    <2>3. Counted(left, call', (phase = "down")')
      <3>1. \A q \in Projects : pool[q].inUse \in Nat /\ Cardinality(UsersIn(call, q)) \in Nat
        BY <1>1, UsersFinite DEF WellTyped, Entries
      <3>2. Cardinality(UsersIn(call, p)) > 0
        BY <1>3, UsersFinite
      <3>3. ASSUME NEW q \in Projects PROVE left[q].inUse <= Cardinality(UsersIn(call', q))
        <4>1. pool[q].inUse <= Cardinality(UsersIn(call, q))
          BY <1>1 DEF Counted
        <4>2. CASE q = p
          BY <1>4, <1>8, <3>1, <3>2, <4>1, <4>2
        <4>3. CASE q # p
          BY <1>4, <1>8, <4>1, <4>3
        <4>. QED
          BY <4>2, <4>3
      <3>4. ASSUME phase' # "down", NEW q \in Projects PROVE left[q].inUse = Cardinality(UsersIn(call', q))
        <4>1. pool[q].inUse = Cardinality(UsersIn(call, q))
          BY <1>1, <1>2, <3>4 DEF Counted
        <4>2. CASE q = p
          BY <1>4, <1>8, <3>1, <3>2, <4>1, <4>2
        <4>3. CASE q # p
          BY <1>4, <1>8, <4>1, <4>3
        <4>. QED
          BY <4>2, <4>3
      <3>. QED
        BY <3>3, <3>4 DEF Counted
    <2>4. Held(left, call', (phase = "down")')
      <3>. SUFFICES ASSUME phase' # "down", NEW d \in Callers, call'[d].at = "using"
                    PROVE  call'[d].app \in Apps /\ left[call'[d].project].app = call'[d].app
        BY DEF Held
      <3>1. call'[d] = call[d] /\ call[d].project \in Projects
        BY <1>1, <1>7 DEF WellTyped, Calls
      <3>2. call[d].app \in Apps /\ pool[call[d].project].app = call[d].app
        BY <1>1, <1>2, <3>1 DEF Held
      <3>. QED
        BY <1>8, <3>1, <3>2
    <2>. QED
      BY <2>1, <2>2, <2>3, <2>4 DEF Fits
  <1>13. Idle(left) \ {p} = Idle(pool) \ {p}
    BY <1>8 DEF Idle, Pooled
  <1>14. /\ Fits(pool', app', call', (phase = "down")') /\ Marked(pool')
         /\ Idle(pool') = Idle(left) \ gone /\ timer' \in BOOLEAN /\ TimerCovers'
    BY <1>2, <1>10, <1>11, <1>12, SettleFits
  <1>15. due \subseteq Idle(pool) /\ recent \in [Projects -> Ranks] /\ cap \in Caps /\ phase \in {"up", "stopping", "down"}
    BY DEF PoolInv, Rest
  <1>16. recent' \in [Projects -> Ranks]
    BY <1>2, <1>3, <1>15, TouchRanks
  <1>17. Rest'
    BY <1>2, <1>13, <1>14, <1>15, <1>16 DEF Rest
  <1>. QED
    BY <1>14, <1>17 DEF PoolInv

\* Only Close takes the runtime of a caller away, so what is left of the
\* invariant is what holds after it.
LEMMA ReleaseVanishedKeeps ==
  ASSUME PoolInv, NEW c \in Callers, ReleaseVanished(c)
  PROVE  PoolInv'
  <1>. DEFINE p == call[c].project
  <1>1. /\ WellTyped(pool, app, call) /\ Complete(pool, app)
        /\ Counted(pool, call, phase = "down") /\ Held(pool, call, phase = "down")
    BY DEF PoolInv, Fits
  <1>2. /\ call[c].at = "using"
        /\ pool[p].app = NoApp
        /\ call' = [call EXCEPT ![c] = Resting]
        /\ UNCHANGED <<pool, recent, app, cap, timer, due, phase>>
    BY DEF ReleaseVanished
  <1>3. p \in Projects /\ pool[p].inUse = 0
    BY <1>1, <1>2 DEF WellTyped, Calls, Complete
  <1>4. phase = "down"
    BY <1>1, <1>2, PoolAssumption DEF Held
  <1>5. Resting \in Calls
    BY PoolAssumption DEF Resting, Calls
  <1>6. WellTyped(pool', app', call')
    BY <1>1, <1>2, <1>5 DEF WellTyped
  <1>7. \A q \in Projects \ {p} : UsersIn(call', q) = UsersIn(call, q)
    <2>1. call \in [Callers -> Calls]
      BY <1>1 DEF WellTyped
    <2>. QED
      BY <1>2, <2>1, UserRemoved
  <1>8. Counted(pool', call', (phase = "down")')
    <2>1. ASSUME NEW q \in Projects PROVE pool'[q].inUse <= Cardinality(UsersIn(call', q))
      <3>1. Cardinality(UsersIn(call', q)) \in Nat
        BY UsersFinite
      <3>2. CASE q = p
        BY <1>2, <1>3, <3>1, <3>2
      <3>3. CASE q # p
        BY <1>1, <1>2, <1>7, <3>3 DEF Counted
      <3>. QED
        BY <3>2, <3>3
    <2>. QED
      BY <1>2, <1>4, <2>1 DEF Counted
  <1>9. Complete(pool', app') /\ Held(pool', call', (phase = "down")')
    BY <1>1, <1>2, <1>4 DEF Held
  <1>10. Marked(pool') /\ Rest' /\ TimerCovers'
    BY <1>2 DEF PoolInv, Rest, TimerCovers
  <1>. QED
    BY <1>6, <1>8, <1>9, <1>10 DEF PoolInv, Fits

\* Idle runtimes leave the pool and no call changes (InvalidateIdle,
\* SetMaxActive, CloseIdle).
LEMMA DroppingKeeps ==
  ASSUME PoolInv, NEW gone \in SUBSET Idle(pool), Settle(pool, app, gone),
         due' \subseteq due \ gone, cap' \in Caps, UNCHANGED <<recent, call, phase>>
  PROVE  PoolInv'
  <1>1. Fits(pool, app, call', (phase = "down")')
    BY DEF PoolInv
  <1>2. \A p \in Projects : pool[p].marked => p # Primary /\ (pool[p].inUse > 0 \/ p \in gone)
    BY DEF PoolInv, Marked
  <1>3. /\ Fits(pool', app', call', (phase = "down")') /\ Marked(pool')
        /\ Idle(pool') = Idle(pool) \ gone /\ timer' \in BOOLEAN /\ TimerCovers'
    BY <1>1, <1>2, SettleFits
  <1>4. Rest'
    BY <1>3 DEF PoolInv, Rest
  <1>. QED
    BY <1>3, <1>4 DEF PoolInv

LEMMA InvalidateBusyKeeps ==
  ASSUME PoolInv, NEW p \in Projects, InvalidateBusy(p)
  PROVE  PoolInv'
  <1>1. /\ WellTyped(pool, app, call) /\ Complete(pool, app)
        /\ Counted(pool, call, phase = "down") /\ Held(pool, call, phase = "down")
    BY DEF PoolInv, Fits
  <1>2. /\ p # Primary /\ pool[p].inUse > 0
        /\ pool' = [pool EXCEPT ![p].marked = TRUE]
        /\ UNCHANGED <<recent, app, call, cap, timer, due, phase>>
    BY DEF InvalidateBusy
  <1>3. /\ pool' \in [Projects -> Entries]
        /\ \A q \in Projects : pool'[q].app = pool[q].app /\ pool'[q].inUse = pool[q].inUse
        /\ \A q \in Projects \ {p} : pool'[q].marked = pool[q].marked
    BY <1>1, <1>2 DEF WellTyped, Entries
  <1>4. WellTyped(pool', app', call')
    BY <1>1, <1>2, <1>3 DEF WellTyped
  <1>5. Complete(pool', app')
    BY <1>1, <1>2, <1>3 DEF Complete
  <1>6. Counted(pool', call', (phase = "down")')
    BY <1>1, <1>2, <1>3 DEF Counted
  <1>7. Held(pool', call', (phase = "down")')
    BY <1>1, <1>2, <1>3 DEF Held, WellTyped, Calls
  <1>8. Marked(pool')
    BY <1>2, <1>3 DEF PoolInv, Marked
  <1>9. Idle(pool') = Idle(pool)
    BY <1>3 DEF Idle, Pooled
  <1>10. Rest' /\ TimerCovers'
    BY <1>2, <1>9 DEF PoolInv, Rest, TimerCovers
  <1>. QED
    BY <1>4, <1>5, <1>6, <1>7, <1>8, <1>10 DEF PoolInv, Fits

LEMMA CloseKeeps ==
  ASSUME PoolInv, Close
  PROVE  PoolInv'
  <1>. DEFINE gone == Pooled(pool) \ {Primary}
  <1>1. /\ phase' = "down"
        /\ pool' = Without(pool, gone)
        /\ app' = Closing(pool, app, gone)
        /\ due' = {}
        /\ UNCHANGED <<recent, call, cap, timer>>
    BY DEF Close, Closing
  <1>2. Fits(pool, app, call, TRUE)
    BY DEF PoolInv, Fits, Counted, Held
  <1>3. gone \in SUBSET (Pooled(pool) \ {Primary})
    OBVIOUS
  <1>. HIDE DEF gone
  <1>4. Fits(pool', app', call, TRUE)
    BY <1>1, <1>2, <1>3, RemovalFits
  <1>5. Marked(pool')
    <2>1. \A p \in Projects : pool[p].marked => p # Primary /\ (pool[p].inUse > 0 \/ p \in gone)
      BY DEF PoolInv, Marked
    <2>. QED
      BY <1>1, <2>1, RemovalMarked
  <1>6. Rest' /\ TimerCovers'
    BY <1>1 DEF PoolInv, Rest, TimerCovers
  <1>7. (phase = "down")' = TRUE /\ call' = call
    BY <1>1
  <1>. QED
    BY <1>4, <1>5, <1>6, <1>7 DEF PoolInv

\* A closed App is no project's.
LEMMA FinishCloseKeeps ==
  ASSUME PoolInv, NEW a \in Apps, FinishClose(a)
  PROVE  PoolInv'
  <1>1. /\ WellTyped(pool, app, call) /\ Complete(pool, app)
        /\ Counted(pool, call, phase = "down") /\ Held(pool, call, phase = "down")
    BY DEF PoolInv, Fits
  <1>2. /\ app[a] = "closing" /\ app' = [app EXCEPT ![a] = "none"]
        /\ UNCHANGED <<pool, recent, call, cap, timer, due, phase>>
    BY DEF FinishClose
  <1>3. /\ app' \in [Apps -> AppStates]
        /\ \A b \in Apps : app'[b] = "open" <=> app[b] = "open"
    BY <1>1, <1>2 DEF WellTyped, AppStates
  <1>4. WellTyped(pool', app', call') /\ Complete(pool', app')
    BY <1>1, <1>2, <1>3 DEF WellTyped, Complete
  <1>5. Counted(pool', call', (phase = "down")') /\ Held(pool', call', (phase = "down")')
    BY <1>1, <1>2 DEF Counted, Held
  <1>6. Marked(pool') /\ Rest' /\ TimerCovers'
    BY <1>2 DEF PoolInv, Rest, TimerCovers
  <1>. QED
    BY <1>4, <1>5, <1>6 DEF PoolInv, Fits

\* The pool, the Apps and the calls are left alone (FireIdleTimer,
\* StopIdleTimer, a stutter).
LEMMA QuietKeeps ==
  ASSUME PoolInv, UNCHANGED <<pool, app, call>>, (phase = "down")' = (phase = "down"),
         Rest', TimerCovers'
  PROVE  PoolInv'
  BY DEF PoolInv

LEMMA InitInv ==
  ASSUME Init
  PROVE  PoolInv
  <1>1. \A p \in Projects : UsersIn(call, p) = {}
    BY DEF Init, UsersIn, Resting
  <1>2. Cardinality({}) = 0
    BY FS_EmptySet
  <1>3. /\ pool \in [Projects -> Entries]
        /\ pool[Primary].app = PrimaryApp
        /\ \A p \in Projects \ {Primary} : pool[p].app = NoApp
        /\ \A p \in Projects : pool[p].inUse = 0 /\ pool[p].marked = FALSE
    BY PoolAssumption DEF Init, Vacant, Entries
  <1>4. WellTyped(pool, app, call)
    BY <1>3, PoolAssumption DEF Init, WellTyped, AppStates, Calls, Resting
  <1>5. Complete(pool, app)
    BY <1>3, PoolAssumption DEF Init, Complete
  <1>6. Counted(pool, call, phase = "down")
    <2>1. \A p \in Projects : Cardinality(UsersIn(call, p)) = 0
      BY <1>1, <1>2
    <2>. QED
      BY <1>3, <2>1 DEF Counted
  <1>7. Held(pool, call, phase = "down")
    BY DEF Init, Held, Resting
  <1>8. Idle(pool) = {}
    BY <1>3 DEF Idle, Pooled
  <1>9. Marked(pool) /\ Rest /\ TimerCovers
    BY <1>3, <1>8 DEF Init, Marked, Rest, TimerCovers
  <1>. QED
    BY <1>4, <1>5, <1>6, <1>7, <1>9 DEF PoolInv, Fits

LEMMA StepKeeps ==
  ASSUME PoolInv, [Next]_vars
  PROVE  PoolInv'
  <1>1. /\ WellTyped(pool, app, call) /\ Complete(pool, app)
        /\ Rest /\ TimerCovers
    BY DEF PoolInv, Fits
  <1>2. ASSUME NEW c \in Callers, CallerStep(c) PROVE PoolInv'
    <2>1. ASSUME NEW p \in Projects, AcquirePooled(c, p) PROVE PoolInv'
      <3>1. app \in [Apps -> AppStates] /\ call[c].at # "using" /\ Join(c, p, app)
        BY <1>1, <2>1 DEF WellTyped, AcquirePooled
      <3>. QED
        BY <3>1, JoinKeeps
    <2>2. ASSUME NEW p \in Projects, StartLoad(c, p) PROVE PoolInv'
      <3>1. Loading(p) \in Calls /\ Loading(p).at # "using"
        BY DEF Loading, Calls
      <3>2. call[c].at # "using" /\ call' = [call EXCEPT ![c] = Loading(p)]
            /\ UNCHANGED <<pool, recent, app, cap, timer, due, phase>>
        BY <2>2 DEF StartLoad
      <3>. QED
        BY <3>1, <3>2, CallOnlyKeeps
    <2>3. ASSUME LoadFails(c) PROVE PoolInv'
      <3>1. Resting \in Calls /\ Resting.at # "using"
        BY PoolAssumption DEF Resting, Calls
      <3>2. call[c].at # "using" /\ call' = [call EXCEPT ![c] = Resting]
            /\ UNCHANGED <<pool, recent, app, cap, timer, due, phase>>
        BY <2>3 DEF LoadFails
      <3>. QED
        BY <3>1, <3>2, CallOnlyKeeps
    <2>4. ASSUME NEW a \in Apps, JoinAfterLoad(c, a) PROVE PoolInv'
      <3>. DEFINE st == [app EXCEPT ![a] = "closing"]
      <3>1. call[c].at # "using" /\ app[a] = "none" /\ Join(c, call[c].project, st)
        BY <2>4 DEF JoinAfterLoad
      <3>2. st \in [Apps -> AppStates] /\ call[c].project \in Projects
        BY <1>1 DEF WellTyped, AppStates, Calls
      <3>3. \A b \in Apps : st[b] = "open" <=> app[b] = "open"
        BY <1>1, <3>1 DEF WellTyped
      <3>. HIDE DEF st
      <3>. QED
        BY <3>1, <3>2, <3>3, JoinKeeps
    <2>. QED
      BY <1>2, <2>1, <2>2, <2>3, <2>4, AdmitKeeps, ReleaseKeeps, ReleaseVanishedKeeps DEF CallerStep
  <1>3. ASSUME NEW p \in Projects, InvalidateIdle(p) PROVE PoolInv'
    <2>1. /\ {p} \in SUBSET Idle(pool) /\ Settle(pool, app, {p})
          /\ due' \subseteq due \ {p} /\ cap' \in Caps /\ UNCHANGED <<recent, call, phase>>
      BY <1>1, <1>3 DEF InvalidateIdle, Rest
    <2>. QED
      BY <2>1, DroppingKeeps
  <1>4. ASSUME NEW n \in Caps, SetMaxActive(n) PROVE PoolInv'
    <2>. DEFINE gone == Evictions(pool, recent, n)
    <2>1. gone \in SUBSET Idle(pool)
      BY EvictionsIdle
    <2>2. /\ Settle(pool, app, gone)
          /\ due' \subseteq due \ gone /\ cap' \in Caps /\ UNCHANGED <<recent, call, phase>>
      BY <1>4 DEF SetMaxActive
    <2>. HIDE DEF gone
    <2>. QED
      BY <2>1, <2>2, DroppingKeeps
  <1>5. ASSUME CloseIdle PROVE PoolInv'
    <2>1. /\ due \in SUBSET Idle(pool) /\ Settle(pool, app, due)
          /\ due' \subseteq due \ due /\ cap' \in Caps /\ UNCHANGED <<recent, call, phase>>
      BY <1>1, <1>5 DEF CloseIdle, Rest
    <2>. QED
      BY <2>1, DroppingKeeps
  <1>6. ASSUME FireIdleTimer PROVE PoolInv'
    <2>1. /\ UNCHANGED <<pool, app, call, phase, recent, cap>> /\ timer' = FALSE
      BY <1>6 DEF FireIdleTimer
    <2>3. due' \subseteq Idle(pool) /\ due' # {}
      BY <1>6 DEF FireIdleTimer
    <2>2. Rest' /\ TimerCovers'
      BY <1>1, <2>1, <2>3 DEF Rest, TimerCovers
    <2>. QED
      BY <2>1, <2>2, QuietKeeps
  <1>7. ASSUME StopIdleTimer PROVE PoolInv'
    <2>1. Rest' /\ TimerCovers'
      BY <1>1, <1>7 DEF StopIdleTimer, Rest, TimerCovers
    <2>. QED
      BY <1>7, <2>1, QuietKeeps DEF StopIdleTimer
  <1>8. ASSUME UNCHANGED vars PROVE PoolInv'
    <2>1. Rest' /\ TimerCovers'
      BY <1>1, <1>8 DEF vars, Rest, TimerCovers
    <2>. QED
      BY <1>8, <2>1, QuietKeeps DEF vars
  <1>. QED
    BY <1>2, <1>3, <1>4, <1>5, <1>6, <1>7, <1>8, InvalidateBusyKeeps, CloseKeeps, FinishCloseKeeps DEF Next

\* The pool, the Apps and the callers fit in every reachable state
\* (manager.go:218-555).
THEOREM PoolInvariance == Spec => []PoolInv
  <1>1. Init => PoolInv
    BY InitInv
  <1>2. PoolInv /\ [Next]_vars => PoolInv'
    BY StepKeeps
  <1>. QED
    BY <1>1, <1>2, PTL DEF Spec

-----------------------------------------------------------------------------
(* The properties. *)

\* Every variable has its type, and no count exceeds the number of callers
\* (ProjectRuntime, ProjectRuntimeManager).
THEOREM PoolTypes == Spec => []PoolTypeOK
  <1>1. PoolInv => PoolTypeOK
    <2>. SUFFICES ASSUME PoolInv PROVE PoolTypeOK
      OBVIOUS
    <2>1. /\ WellTyped(pool, app, call) /\ Counted(pool, call, phase = "down") /\ Rest
      BY DEF PoolInv, Fits
    <2>2. ASSUME NEW p \in Projects PROVE pool[p] \in Runtimes
      <3>1. pool[p] \in Entries
        BY <2>1 DEF WellTyped
      <3>2. pool[p].inUse \in Nat /\ pool[p].inUse <= Cardinality(Callers)
        BY <2>1, <3>1, UsersFinite DEF Counted, Entries
      <3>. QED
        BY <3>1, <3>2, UsersFinite DEF Entries, Runtimes
    <2>3. pool \in [Projects -> Runtimes]
      BY <2>1, <2>2 DEF WellTyped
    <2>4. due \subseteq Projects
      BY <2>1 DEF Rest, Idle, Pooled
    <2>. QED
      BY <2>1, <2>3, <2>4 DEF PoolTypeOK, WellTyped, Rest, AppStates
  <1>. QED
    BY <1>1, PoolInvariance, PTL

\* The App a caller holds stays open and pooled until the caller gives it
\* back or the manager is closed (manager.go:70-72).
THEOREM HeldIsOpen == Spec => []HeldStaysOpen
  <1>1. PoolInv => HeldStaysOpen
    BY DEF PoolInv, Fits, WellTyped, Held, Complete, Calls, HeldStaysOpen
  <1>. QED
    BY <1>1, PoolInvariance, PTL

\* The open Apps are the pooled ones, each of one project (manager.go:234-267).
THEOREM AppsAccounted == Spec => []Accounted
  <1>1. PoolInv => Accounted
    BY DEF PoolInv, Fits, Complete, Accounted
  <1>. QED
    BY <1>1, PoolInvariance, PTL

\* An invalidated runtime goes with its last user (manager.go:74-77).
THEOREM StaleGoes == Spec => []StaleOnlyWhileUsed
  <1>1. PoolInv => StaleOnlyWhileUsed
    BY DEF PoolInv, Marked, StaleOnlyWhileUsed
  <1>. QED
    BY <1>1, PoolInvariance, PTL

\* An idle runtime never lacks a timer or a sweep to come (manager.go:488-493).
THEOREM TimerNeverMissing == Spec => []TimerCovers
  <1>1. PoolInv => TimerCovers
    BY DEF PoolInv
  <1>. QED
    BY <1>1, PoolInvariance, PTL

-----------------------------------------------------------------------------
(* The cap. *)

InCap(pl, n) == Cardinality(Pooled(pl)) > n => Idle(pl) = {}

LEMMA PooledFinite ==
  ASSUME NEW pl
  PROVE  IsFiniteSet(Pooled(pl)) /\ Cardinality(Pooled(pl)) \in Nat
  <1>1. Pooled(pl) \subseteq Projects
    BY DEF Pooled
  <1>. QED
    BY <1>1, PoolAssumption, FS_Subset, FS_CardinalityType

LEMMA WithoutSets ==
  ASSUME NEW pl, NEW gone
  PROVE  /\ Pooled(Without(pl, gone)) = Pooled(pl) \ gone
         /\ Idle(Without(pl, gone)) = Idle(pl) \ gone
  <1>1. Pooled(Without(pl, gone)) = Pooled(pl) \ gone
    BY DEF Pooled, Without, Vacant
  <1>2. \A p \in Pooled(pl) \ gone : Without(pl, gone)[p] = pl[p]
    BY DEF Pooled, Without
  <1>. QED
    BY <1>1, <1>2 DEF Idle

\* A pool with fewer runtimes, no other of them idle, is in its cap as before.
LEMMA Shrinking ==
  ASSUME NEW pl1, NEW pl2, NEW n \in Nat, InCap(pl1, n),
         Pooled(pl2) \subseteq Pooled(pl1), Idle(pl2) \subseteq Idle(pl1)
  PROVE  InCap(pl2, n)
  <1>1. Cardinality(Pooled(pl2)) <= Cardinality(Pooled(pl1))
    BY PooledFinite, FS_Subset
  <1>. QED
    BY <1>1, PooledFinite DEF InCap

\* Some project of a set has been used least recently.
LEMMA LeastRecent ==
  ASSUME NEW S \in SUBSET Projects, S # {}, NEW rank \in [Projects -> Nat]
  PROVE  \E p \in S : \A q \in S : rank[p] <= rank[q]
  <1>. DEFINE T == {rank[p] : p \in S}
  <1>1. T \subseteq Nat /\ T # {}
    OBVIOUS
  <1>2. PICK k \in T : \A j \in T : ~(<<j, k>> \in OpToRel(<, Nat))
    <2>. HIDE DEF T
    <2>. QED
      BY <1>1, NatLessThanWellFounded, WFMin
  <1>3. PICK p \in S : k = rank[p]
    OBVIOUS
  <1>4. ASSUME NEW q \in S PROVE rank[p] <= rank[q]
    <2>1. rank[q] \in T /\ rank[q] \in Nat /\ rank[p] \in Nat
      OBVIOUS
    <2>2. ~(rank[q] < k)
      BY <1>2, <1>3, <2>1 DEF OpToRel
    <2>. QED
      BY <1>3, <2>1, <2>2
  <1>. QED
    BY <1>4

\* selectEvictionsLocked chooses enough: either every idle runtime goes, or
\* the pool is left with n at most.
LEMMA EvictionsEnough ==
  ASSUME NEW pl, NEW rank \in [Projects -> Nat], NEW n \in Nat
  PROVE  InCap(Without(pl, Evictions(pl, rank, n)), n)
  <1>. DEFINE V == Evictions(pl, rank, n)
              Before(p) == {q \in Idle(pl) : rank[q] < rank[p]}
  <1>1. /\ Pooled(Without(pl, V)) = Pooled(pl) \ V /\ Idle(Without(pl, V)) = Idle(pl) \ V
        /\ V \subseteq Idle(pl) /\ Idle(pl) \subseteq Pooled(pl) /\ Pooled(pl) \subseteq Projects
    BY WithoutSets, EvictionsIdle DEF Idle, Pooled
  <1>2. CASE Idle(pl) \ V = {}
    BY <1>1, <1>2 DEF InCap
  <1>3. CASE Idle(pl) \ V # {}
    <2>1. PICK p \in Idle(pl) \ V : \A q \in Idle(pl) \ V : rank[p] <= rank[q]
      <3>. HIDE DEF V
      <3>1. Idle(pl) \ V \in SUBSET Projects
        BY <1>1
      <3>. QED
        BY <1>3, <3>1, LeastRecent
    <2>2. Before(p) \subseteq V
      <3>. SUFFICES ASSUME NEW q \in Idle(pl), rank[q] < rank[p], q \notin V PROVE FALSE
        OBVIOUS
      <3>1. rank[p] <= rank[q] /\ rank[p] \in Nat /\ rank[q] \in Nat
        BY <1>1, <2>1
      <3>. QED
        BY <3>1
    <2>3. ~(Cardinality(Before(p)) < Cardinality(Pooled(pl)) - n)
      BY <2>1 DEF Evictions
    <2>. HIDE DEF V, Before
    <2>4. IsFiniteSet(V) /\ IsFiniteSet(Pooled(pl)) /\ Cardinality(Pooled(pl)) \in Nat
      BY <1>1, PooledFinite, FS_Subset
    <2>5. /\ Cardinality(Before(p)) \in Nat /\ Cardinality(V) \in Nat
          /\ Cardinality(Before(p)) <= Cardinality(V)
      BY <2>2, <2>4, FS_Subset, FS_CardinalityType
    <2>6. Cardinality(Pooled(pl) \ V) = Cardinality(Pooled(pl)) - Cardinality(V)
      <3>1. Pooled(pl) \cap V = V
        BY <1>1
      <3>. QED
        BY <2>4, <3>1, FS_Difference
    <2>7. ~(Cardinality(Pooled(pl) \ V) > n)
      BY <2>3, <2>4, <2>5, <2>6
    <2>8. InCap(Without(pl, V), n)
      BY <1>1, <2>7 DEF InCap
    <2>. QED
      BY <2>8 DEF V
  <1>. QED
    BY <1>2, <1>3

\* Every step brings the pool back into its cap, or leaves it there.
LEMMA CapStep ==
  ASSUME PoolInv, PoolInv', InCap(pool, cap), [Next]_vars
  PROVE  InCap(pool', cap')
  <1>1. /\ cap \in Nat /\ cap' \in Nat /\ recent \in [Projects -> Nat] /\ recent' \in [Projects -> Nat]
        /\ \A p \in Projects : pool[p].inUse \in Nat
        /\ \A c \in Callers : call[c].project \in Projects
        /\ pool \in [Projects -> Entries]
    <2>1. Ranks \subseteq Nat
      BY DEF Ranks
    <2>. QED
      BY <2>1, PoolAssumption DEF PoolInv, Fits, WellTyped, Rest, Entries, Calls
  <1>2. ASSUME UNCHANGED cap, Pooled(pool') \subseteq Pooled(pool), Idle(pool') \subseteq Idle(pool)
        PROVE  InCap(pool', cap')
    BY <1>1, <1>2, Shrinking
  <1>3. ASSUME NEW gone, pool' = Without(pool, gone), UNCHANGED cap
        PROVE  InCap(pool', cap')
    BY <1>2, <1>3, WithoutSets
  <1>4. ASSUME NEW p \in Projects, NEW r, r.app = pool[p].app, r.inUse = 0 => pool[p].inUse = 0,
               pool' = Without([pool EXCEPT ![p] = r], {}), UNCHANGED cap
        PROVE  InCap(pool', cap')
    <2>. DEFINE pl == [pool EXCEPT ![p] = r]
    <2>1. /\ \A q \in Projects : pl[q].app = pool[q].app
          /\ \A q \in Projects : pl[q].inUse = 0 => pool[q].inUse = 0
      BY <1>1, <1>4
    <2>. HIDE DEF pl
    <2>2. Pooled(pl) = Pooled(pool) /\ Idle(pl) \subseteq Idle(pool)
      BY <2>1 DEF Idle, Pooled
    <2>3. Pooled(Without(pl, {})) = Pooled(pl) /\ Idle(Without(pl, {})) = Idle(pl)
      <3>1. /\ Pooled(Without(pl, {})) = Pooled(pl) \ {}
            /\ Idle(Without(pl, {})) = Idle(pl) \ {}
        BY WithoutSets
      <3>. QED
        BY <3>1
    <2>4. pool' = Without(pl, {})
      BY <1>4 DEF pl
    <2>. QED
      BY <1>2, <1>4, <2>2, <2>3, <2>4
  <1>5. ASSUME NEW c \in Callers, NEW p \in Projects, NEW st, Join(c, p, st) PROVE InCap(pool', cap')
    <2>1. pool' = Without([pool EXCEPT ![p] = [pool[p] EXCEPT !.inUse = @ + 1]], {}) /\ UNCHANGED cap
      BY <1>5 DEF Join, Settle
    <2>2. pool[p] \in Entries
      BY <1>1
    <2>3. /\ [pool[p] EXCEPT !.inUse = @ + 1].app = pool[p].app
          /\ [pool[p] EXCEPT !.inUse = @ + 1].inUse # 0
      BY <2>2 DEF Entries
    <2>. QED
      BY <1>4, <2>1, <2>3
  <1>6. ASSUME NEW c \in Callers, NEW a \in Apps, Admit(c, a) PROVE InCap(pool', cap')
    <2>. DEFINE p == call[c].project
                grown == [pool EXCEPT ![p] = Loaded(a)]
    <2>1. /\ pool' = Without(grown, Evictions(grown, Touch(p), cap)) /\ UNCHANGED cap
          /\ recent' = Touch(p)
      BY <1>6 DEF Admit, Settle
    <2>. HIDE DEF grown, p
    <2>. QED
      BY <1>1, <2>1, EvictionsEnough
  <1>7. ASSUME NEW c \in Callers, Release(c) PROVE InCap(pool', cap')
    <2>. DEFINE p == call[c].project
                left == Fewer(p)
                r == [pool[p] EXCEPT !.inUse = IF @ > 0 THEN @ - 1 ELSE @]
    <2>1. /\ pool' = Without(left, Dropped(p)) /\ UNCHANGED cap /\ recent' = Touch(p)
          /\ p \in Projects /\ left = [pool EXCEPT ![p] = r] /\ pool[p] \in Entries
      BY <1>1, <1>7 DEF Release, Settle, Fewer
    <2>2. left[p] = r /\ r.app = pool[p].app
      BY <1>1, <2>1 DEF Entries
    <2>3. CASE left[p].inUse > 0
      <3>1. Dropped(p) = {}
        BY <2>3 DEF Dropped
      <3>2. r.inUse # 0
        BY <2>2, <2>3
      <3>. HIDE DEF r, p, left
      <3>. QED
        BY <1>4, <2>1, <2>2, <3>1, <3>2
    <2>4. CASE ~(left[p].inUse > 0)
      <3>. DEFINE stale == IF left[p].marked /\ p # Primary THEN {p} ELSE {}
                  more == Evictions(Without(left, stale), Touch(p), cap)
      <3>1. Dropped(p) = stale \cup more
        BY <2>4 DEF Dropped
      <3>. HIDE DEF stale, more, left, p
      <3>2. Without(left, stale \cup more) = Without(Without(left, stale), more)
        BY DEF Without
      <3>3. InCap(Without(Without(left, stale), more), cap)
        BY <1>1, <2>1, EvictionsEnough DEF more
      <3>. QED
        BY <2>1, <3>1, <3>2, <3>3
    <2>. QED
      BY <2>3, <2>4
  <1>8. ASSUME NEW n \in Caps, SetMaxActive(n) PROVE InCap(pool', cap')
    <2>1. n \in Nat /\ cap' = n /\ pool' = Without(pool, Evictions(pool, recent, n))
      BY <1>8, PoolAssumption DEF SetMaxActive, Settle
    <2>. QED
      BY <1>1, <2>1, EvictionsEnough
  <1>9. ASSUME NEW p \in Projects, InvalidateBusy(p) PROVE InCap(pool', cap')
    <2>1. /\ UNCHANGED cap
          /\ \A q \in Projects : pool'[q].app = pool[q].app /\ pool'[q].inUse = pool[q].inUse
      BY <1>1, <1>9 DEF InvalidateBusy, Entries
    <2>. QED
      BY <1>2, <2>1 DEF Idle, Pooled
  <1>10. ASSUME \/ \E p \in Projects : InvalidateIdle(p)
                \/ CloseIdle
                \/ Close
         PROVE  InCap(pool', cap')
    <2>1. UNCHANGED cap /\ \E gone : pool' = Without(pool, gone)
      BY <1>10 DEF InvalidateIdle, CloseIdle, Close, Settle
    <2>. QED
      BY <1>3, <2>1
  <1>11. ASSUME UNCHANGED <<pool, cap>> PROVE InCap(pool', cap')
    BY <1>11
  <1>12. ASSUME NEW c \in Callers, CallerStep(c) PROVE InCap(pool', cap')
    <2>1. CASE \E p \in Projects : AcquirePooled(c, p)
      BY <1>5, <2>1 DEF AcquirePooled
    <2>2. CASE \E a \in Apps : JoinAfterLoad(c, a)
      BY <1>1, <1>5, <2>2 DEF JoinAfterLoad
    <2>3. CASE (\E p \in Projects : StartLoad(c, p)) \/ LoadFails(c) \/ ReleaseVanished(c)
      BY <1>11, <2>3 DEF StartLoad, LoadFails, ReleaseVanished
    <2>. QED
      BY <1>6, <1>7, <1>12, <2>1, <2>2, <2>3 DEF CallerStep
  <1>13. ASSUME FireIdleTimer \/ StopIdleTimer \/ (\E a \in Apps : FinishClose(a)) \/ UNCHANGED vars
         PROVE  InCap(pool', cap')
    BY <1>11, <1>13 DEF FireIdleTimer, StopIdleTimer, FinishClose, vars
  <1>. QED
    BY <1>8, <1>9, <1>10, <1>12, <1>13 DEF Next

\* The pool is over its cap only while every runtime but the primary is in
\* use (manager.go:28-33, 360-366).
THEOREM CapKept == Spec => []OverCapOnlyWhileBusy
  <1>1. Init => InCap(pool, cap)
    BY DEF Init, InCap, Idle, Pooled, Vacant
  <1>2. PoolInv /\ PoolInv' /\ InCap(pool, cap) /\ [Next]_vars => InCap(pool, cap)'
    BY CapStep
  <1>3. InCap(pool, cap) => OverCapOnlyWhileBusy
    BY DEF InCap, OverCapOnlyWhileBusy
  <1>. QED
    BY <1>1, <1>2, <1>3, PoolInvariance, PTL DEF Spec

-----------------------------------------------------------------------------
(* The pool implements AppHandles. *)

Serves(pl) == [p \in Projects |-> pl[p].app]

\* What the calls say of who holds what.
LEMMA HandleIs ==
  /\ \A c \in Callers : call[c].at = "using" => <<c, call[c].project, call[c].app>> \in Handles
  /\ \A u \in Handles : \E c \in Callers : /\ call[c].at = "using"
                                         /\ u = <<c, call[c].project, call[c].app>>
  BY DEF Handles

\* The end of Acquire gives c its handle.
LEMMA HandleAdded ==
  ASSUME NEW c \in Callers, call \in [Callers -> Calls], call[c].at # "using",
         NEW p \in Projects, NEW a, call' = [call EXCEPT ![c] = Using(p, a)]
  PROVE  Handles' = Handles \cup {<<c, p, a>>} /\ Holding!Free(c)
  <1>1. \A d \in Callers \ {c} : call'[d] = call[d]
    OBVIOUS
  <1>2. call'[c].at = "using" /\ call'[c].project = p /\ call'[c].app = a
    BY DEF Using
  <1>3. Handles' = {<<d, call'[d].project, call'[d].app>> : d \in {d \in Callers : call'[d].at = "using"}}
    BY DEF Handles
  <1>4. {d \in Callers : call'[d].at = "using"} = {d \in Callers : call[d].at = "using"} \cup {c}
    BY <1>1, <1>2
  <1>5. Handles' = Handles \cup {<<c, p, a>>}
    BY <1>1, <1>2, <1>3, <1>4 DEF Handles
  <1>6. Holding!Free(c)
    BY HandleIs DEF Holding!Free
  <1>. QED
    BY <1>5, <1>6

\* A release takes it back.
LEMMA HandleRemoved ==
  ASSUME NEW c \in Callers, call \in [Callers -> Calls], call[c].at = "using",
         call' = [call EXCEPT ![c] = Resting]
  PROVE  \E u \in Handles : Handles' = Handles \ {u}
  <1>. DEFINE u == <<c, call[c].project, call[c].app>>
  <1>1. \A d \in Callers \ {c} : call'[d] = call[d]
    OBVIOUS
  <1>2. call'[c].at # "using"
    BY DEF Resting
  <1>3. Handles' = {<<d, call'[d].project, call'[d].app>> : d \in {d \in Callers : call'[d].at = "using"}}
    BY DEF Handles
  <1>4. {d \in Callers : call'[d].at = "using"} = {d \in Callers : call[d].at = "using"} \ {c}
    BY <1>1, <1>2
  <1>5. u \in Handles
    BY HandleIs
  <1>6. Handles' = Handles \ {u}
    <2>1. ASSUME NEW h \in Handles' PROVE h \in Handles \ {u}
      <3>1. PICK d \in Callers \ {c} : call[d].at = "using" /\ h = <<d, call[d].project, call[d].app>>
        BY <1>1, <1>3, <1>4, <2>1
      <3>. QED
        BY <3>1, HandleIs
    <2>2. ASSUME NEW h \in Handles \ {u} PROVE h \in Handles'
      <3>1. PICK d \in Callers : call[d].at = "using" /\ h = <<d, call[d].project, call[d].app>>
        BY <2>2, HandleIs
      <3>2. d # c
        BY <2>2, <3>1
      <3>. QED
        BY <1>1, <1>3, <1>4, <3>1, <3>2
    <2>. QED
      BY <2>1, <2>2
  <1>. QED
    BY <1>5, <1>6

\* A call that held nothing and holds nothing.
LEMMA HandlesSame ==
  ASSUME NEW c \in Callers, call \in [Callers -> Calls], call[c].at # "using",
         NEW s, s.at # "using", call' = [call EXCEPT ![c] = s]
  PROVE  Handles' = Handles
  <1>1. \A d \in Callers \ {c} : call'[d] = call[d]
    OBVIOUS
  <1>2. {d \in Callers : call'[d].at = "using"} = {d \in Callers : call[d].at = "using"}
    BY <1>1
  <1>. QED
    BY <1>1, <1>2 DEF Handles

\* Holding!Retire, over the pool's own variables.
Retires(sv, st) ==
  \E gone \in SUBSET {p \in Projects \ {Primary} : sv[p] # NoApp} :
    /\ phase' = "down" \/ \A p \in gone, u \in Handles' : u[3] # sv[p]
    /\ Serves(pool)' = [p \in Projects |-> IF p \in gone THEN NoApp ELSE sv[p]]
    /\ app' = [a \in Apps |-> IF \E p \in gone : sv[p] = a THEN "closing" ELSE st[a]]

\* Runtimes that leave the pool are nobody's: a handle on a closing App would
\* contradict the invariant after the step.
LEMMA RemovalRetires ==
  ASSUME NEW pl, NEW st, NEW gone \in SUBSET (Pooled(pl) \ {Primary}),
         pool' = Without(pl, gone), app' = Closing(pl, st, gone), PoolInv'
  PROVE  Retires(Serves(pl), st)
  <1>1. /\ WellTyped(pool', app', call') /\ Complete(pool', app')
        /\ Held(pool', call', (phase = "down")')
    BY DEF PoolInv, Fits
  <1>2. ASSUME phase' # "down", NEW p \in gone, NEW c \in Callers, call'[c].at = "using"
        PROVE  call'[c].app # pl[p].app
    <2>1. /\ call'[c].app \in Apps /\ call'[c].project \in Projects
          /\ pool'[call'[c].project].app = call'[c].app
      BY <1>1, <1>2 DEF Held, WellTyped, Calls
    <2>2. app'[call'[c].app] = "open"
      BY <1>1, <2>1 DEF Complete
    <2>3. pl[p].app = call'[c].app => app'[call'[c].app] = "closing"
      BY <2>1 DEF Closing
    <2>. QED
      BY <2>2, <2>3
  <1>3. phase' = "down" \/ \A p \in gone, u \in Handles' : u[3] # Serves(pl)[p]
    <2>1. SUFFICES ASSUME phase' # "down", NEW p \in gone, NEW u \in Handles'
                   PROVE  u[3] # Serves(pl)[p]
      OBVIOUS
    <2>2. PICK c \in Callers : call'[c].at = "using" /\ u = <<c, call'[c].project, call'[c].app>>
      BY DEF Handles
    <2>3. Serves(pl)[p] = pl[p].app
      BY DEF Serves, Pooled
    <2>. QED
      BY <1>2, <2>1, <2>2, <2>3
  <1>4. gone \in SUBSET {p \in Projects \ {Primary} : Serves(pl)[p] # NoApp}
    BY DEF Serves, Pooled
  <1>5. Serves(pool)' = [p \in Projects |-> IF p \in gone THEN NoApp ELSE Serves(pl)[p]]
    BY DEF Serves, Without, Vacant
  <1>6. app' = [a \in Apps |-> IF \E p \in gone : Serves(pl)[p] = a THEN "closing" ELSE st[a]]
    <2>1. \A p \in gone : Serves(pl)[p] = pl[p].app
      BY DEF Serves, Pooled
    <2>. QED
      BY <2>1 DEF Closing
  <1>. HIDE DEF Serves
  <1>. QED
    BY <1>3, <1>4, <1>5, <1>6 DEF Retires

\* Acquire finds the project's runtime.
LEMMA JoinJoins ==
  ASSUME PoolInv, NEW c \in Callers, NEW p \in Projects, call[c].at # "using",
         NEW st, Join(c, p, st), st \in [Apps -> AppStates],
         st = app \/ \E a \in Apps : app[a] = "none" /\ st = [app EXCEPT ![a] = "closing"]
  PROVE  Holding!Next
  <1>1. WellTyped(pool, app, call)
    BY DEF PoolInv, Fits
  <1>2. Handles' = Handles \cup {<<c, p, pool[p].app>>} /\ Holding!Free(c)
    BY <1>1, HandleAdded DEF WellTyped, Join
  <1>3. Serves(pool)' = Serves(pool)
    <2>1. pool' = Without([pool EXCEPT ![p].inUse = @ + 1], {})
      BY DEF Join, Settle
    <2>2. \A q \in Projects : pool'[q].app = pool[q].app
      BY <1>1, <2>1 DEF Without, WellTyped, Entries
    <2>. QED
      BY <2>2 DEF Serves
  <1>4. app' = st
    BY DEF Join, Settle
  <1>5. Holding!Join(c, p)
    BY <1>2, <1>3, <1>4 DEF Holding!Join, Serves, Join
  <1>. QED
    BY <1>5 DEF Holding!Next

\* Acquire admits the runtime it loaded, and retires what is over the cap.
LEMMA AdmitOpens ==
  ASSUME PoolInv, PoolInv', NEW c \in Callers, NEW a \in Apps, Admit(c, a)
  PROVE  Holding!Next
  <1>. DEFINE p == call[c].project
              grown == [pool EXCEPT ![p] = Loaded(a)]
              st == [app EXCEPT ![a] = "open"]
              gone == Evictions(grown, Touch(p), cap)
  <1>1. WellTyped(pool, app, call)
    BY DEF PoolInv, Fits
  <1>2. /\ call[c].at = "loading"
        /\ pool[p].app = NoApp
        /\ app[a] = "none"
        /\ Settle(grown, st, gone)
        /\ call' = [call EXCEPT ![c] = Using(p, a)]
        /\ phase' = phase
    BY DEF Admit
  <1>3. p \in Projects
    BY <1>1 DEF WellTyped, Calls
  <1>4. Handles' = Handles \cup {<<c, p, a>>} /\ Holding!Free(c)
    BY <1>1, <1>2, <1>3, HandleAdded DEF WellTyped
  <1>5. Retires(Serves(grown), st)
    <2>1. gone \in SUBSET (Pooled(grown) \ {Primary})
      BY EvictionsIdle DEF Idle
    <2>2. pool' = Without(grown, gone) /\ app' = Closing(grown, st, gone)
      BY <1>2 DEF Settle, Closing
    <2>. HIDE DEF p, grown, st, gone
    <2>. QED
      BY <2>1, <2>2, RemovalRetires
  <1>6. Serves(grown) = [Serves(pool) EXCEPT ![p] = a]
    BY <1>1, <1>3 DEF Serves, Loaded, WellTyped
  <1>7. Serves(pool)[p] = NoApp
    BY <1>2, <1>3 DEF Serves
  <1>. HIDE DEF p, grown
  <1>8. ASSUME NEW q \in Projects, q = p PROVE Holding!Open(c, q, a)
    <2>1. Retires([Serves(pool) EXCEPT ![q] = a], [app EXCEPT ![a] = "open"])
      BY <1>5, <1>6, <1>8
    <2>. QED
      BY <1>2, <1>4, <1>7, <1>8, <2>1 DEF Serves, Retires, Holding!Retire, Holding!Open
  <1>. QED
    BY <1>3, <1>8 DEF Holding!Next

\* A release gives the handle back; what it drops nobody else has.
LEMMA ReleaseReleases ==
  ASSUME PoolInv, PoolInv', NEW c \in Callers, Release(c) \/ ReleaseVanished(c)
  PROVE  Holding!Next
  <1>. DEFINE p == call[c].project
              left == Fewer(p)
  <1>1. WellTyped(pool, app, call)
    BY DEF PoolInv, Fits
  <1>2. PICK u \in Handles : Handles' = Handles \ {u}
    BY <1>1, HandleRemoved DEF WellTyped, Release, ReleaseVanished
  <1>3. phase' = phase
    BY DEF Release, ReleaseVanished
  <1>4. Retires(Serves(pool), app)
    <2>1. CASE Release(c)
      <3>1. Settle(left, app, Dropped(p)) /\ p \in Projects
        BY <1>1, <2>1 DEF Release, WellTyped, Calls
      <3>2. pool' = Without(left, Dropped(p)) /\ app' = Closing(left, app, Dropped(p))
        BY <3>1 DEF Settle, Closing
      <3>3. \A q \in Projects : left[q].app = pool[q].app
        BY <1>1, <3>1 DEF Fewer, WellTyped, Entries
      <3>4. Serves(left) = Serves(pool)
        BY <3>3 DEF Serves
      <3>5. Dropped(p) \in SUBSET (Pooled(left) \ {Primary})
        <4>. DEFINE stale == IF left[p].marked /\ p # Primary THEN {p} ELSE {}
        <4>1. stale \subseteq Pooled(left) \ {Primary}
          BY <2>1, <3>1, <3>3 DEF Release, Pooled
        <4>2. Evictions(Without(left, stale), Touch(p), cap) \subseteq Pooled(left) \ {Primary}
          BY EvictionsIdle DEF Idle, Pooled, Without, Vacant
        <4>. QED
          BY <4>1, <4>2 DEF Dropped
      <3>. HIDE DEF p, left
      <3>. QED
        BY <3>2, <3>4, <3>5, RemovalRetires
    <2>2. CASE ReleaseVanished(c)
      <3>1. {} \in SUBSET (Pooled(pool) \ {Primary})
        OBVIOUS
      <3>2. pool' = Without(pool, {}) /\ app' = Closing(pool, app, {})
        BY <1>1, <2>2 DEF ReleaseVanished, Without, Closing, WellTyped
      <3>. QED
        BY <3>1, <3>2, RemovalRetires
    <2>. QED
      BY <2>1, <2>2
  <1>5. Holding!Release(u)
    BY <1>2, <1>3, <1>4 DEF Serves, Retires, Holding!Retire, Holding!Release
  <1>. QED
    BY <1>2, <1>5 DEF Holding!Next

\* Runtimes are dropped while no call changes, before or at shutdown.
LEMMA DroppingDrops ==
  ASSUME PoolInv', NEW gone \in SUBSET (Pooled(pool) \ {Primary}),
         pool' = Without(pool, gone), app' = Closing(pool, app, gone), call' = call,
         phase' = phase \/ phase' = "down"
  PROVE  Holding!Next
  <1>1. Retires(Serves(pool), app)
    BY RemovalRetires
  <1>2. Handles' = Handles
    BY DEF Handles
  <1>3. Holding!Drop \/ Holding!Shutdown
    BY <1>1, <1>2 DEF Serves, Retires, Holding!Retire, Holding!Drop, Holding!Shutdown
  <1>. QED
    BY <1>3 DEF Holding!Next

\* Neither pool nor Apps nor handles change.
LEMMA QuietHolds ==
  ASSUME app' = app, (phase = "down")' = (phase = "down"), Handles' = Handles,
         \A p \in Projects : pool'[p].app = pool[p].app
  PROVE  UNCHANGED Holding!vars
  <1>1. [p \in Projects |-> pool'[p].app] = [p \in Projects |-> pool[p].app]
    OBVIOUS
  <1>. QED
    BY <1>1 DEF Holding!vars

\* Every step of the pool is one of the table of handles, or none.
LEMMA StepsHold ==
  ASSUME PoolInv, PoolInv', [Next]_vars
  PROVE  [Holding!Next]_(Holding!vars)
  <1>1. WellTyped(pool, app, call) /\ Rest
    BY DEF PoolInv, Fits
  <1>2. ASSUME NEW c \in Callers, CallerStep(c) PROVE [Holding!Next]_(Holding!vars)
    <2>1. ASSUME NEW p \in Projects, AcquirePooled(c, p) PROVE Holding!Next
      BY <1>1, <2>1, JoinJoins DEF WellTyped, AcquirePooled
    <2>2. ASSUME (\E p \in Projects : StartLoad(c, p)) \/ LoadFails(c) PROVE UNCHANGED Holding!vars
      <3>1. Handles' = Handles
        BY <1>1, <2>2, HandlesSame DEF WellTyped, StartLoad, LoadFails, Loading, Resting
      <3>. QED
        BY <2>2, <3>1, QuietHolds DEF StartLoad, LoadFails
    <2>3. ASSUME NEW a \in Apps, JoinAfterLoad(c, a) PROVE Holding!Next
      <3>. DEFINE st == [app EXCEPT ![a] = "closing"]
      <3>1. call[c].at # "using" /\ app[a] = "none" /\ Join(c, call[c].project, st)
        BY <2>3 DEF JoinAfterLoad
      <3>2. st \in [Apps -> AppStates] /\ call[c].project \in Projects
        BY <1>1 DEF WellTyped, AppStates, Calls
      <3>. QED
        BY <3>1, <3>2, JoinJoins
    <2>. QED
      BY <1>2, <2>1, <2>2, <2>3, AdmitOpens, ReleaseReleases DEF CallerStep
  <1>3. ASSUME NEW gone \in SUBSET Idle(pool), Settle(pool, app, gone), call' = call, phase' = phase
        PROVE  Holding!Next
    <2>1. gone \in SUBSET (Pooled(pool) \ {Primary})
      BY DEF Idle
    <2>2. pool' = Without(pool, gone) /\ app' = Closing(pool, app, gone)
      BY <1>3 DEF Settle, Closing
    <2>. QED
      BY <1>3, <2>1, <2>2, DroppingDrops
  <1>4. ASSUME NEW p \in Projects, InvalidateIdle(p) PROVE Holding!Next
    BY <1>3, <1>4 DEF InvalidateIdle
  <1>5. ASSUME NEW n \in Caps, SetMaxActive(n) PROVE Holding!Next
    BY <1>3, <1>5, EvictionsIdle DEF SetMaxActive
  <1>6. CASE CloseIdle
    BY <1>1, <1>3, <1>6 DEF CloseIdle, Rest
  <1>7. CASE Close
    <2>1. /\ pool' = Without(pool, Pooled(pool) \ {Primary})
          /\ app' = Closing(pool, app, Pooled(pool) \ {Primary})
          /\ call' = call /\ phase' = "down"
      BY <1>7 DEF Close, Closing
    <2>. QED
      BY <2>1, DroppingDrops
  <1>8. ASSUME NEW p \in Projects, InvalidateBusy(p) PROVE UNCHANGED Holding!vars
    <2>1. \A q \in Projects : pool'[q].app = pool[q].app
      BY <1>1, <1>8 DEF InvalidateBusy, WellTyped, Entries
    <2>. QED
      BY <1>8, <2>1, QuietHolds DEF InvalidateBusy, Handles
  <1>9. ASSUME FireIdleTimer \/ StopIdleTimer \/ UNCHANGED vars PROVE UNCHANGED Holding!vars
    BY <1>9, QuietHolds DEF FireIdleTimer, StopIdleTimer, vars, Handles
  <1>10. ASSUME NEW a \in Apps, FinishClose(a) PROVE Holding!Next
    <2>1. Handles' = Handles
      BY <1>10 DEF FinishClose, Handles
    <2>2. Holding!FinishClose(a)
      BY <1>10, <2>1 DEF FinishClose, Holding!FinishClose
    <2>. QED
      BY <2>2 DEF Holding!Next
  <1>. QED
    BY <1>2, <1>4, <1>5, <1>6, <1>7, <1>8, <1>9, <1>10 DEF Next

\* What callers hold is what AppHandles promises, whatever the pool does to
\* stay within its cap (manager.go:70-77, 218-555).
THEOREM HandlesHonoured == Spec => ImplementsHandles
  <1>1. Init => Holding!Init
    <2>1. Init => \A c \in Callers : call[c].at # "using"
      BY SMT DEF Init, Resting
    <2>2. (\A c \in Callers : call[c].at # "using") => Handles = {}
      BY DEF Handles
    <2>3. Init => [p \in Projects |-> pool[p].app] = [p \in Projects |-> IF p = Primary THEN PrimaryApp ELSE NoApp]
      BY SMT DEF Init, Vacant
    <2>4. Init => app = [a \in Apps |-> IF a = PrimaryApp THEN "open" ELSE "none"] /\ phase # "down"
      BY SMT DEF Init
    <2>. QED
      BY <2>1, <2>2, <2>3, <2>4 DEF Holding!Init
  <1>. QED
    BY <1>1, StepsHold, PoolInvariance, PTL DEF Spec, ImplementsHandles, Holding!Spec
=============================================================================
