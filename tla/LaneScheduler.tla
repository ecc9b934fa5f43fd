---------------------------- MODULE LaneScheduler ----------------------------
(***************************************************************************)
(* The lanes of a delivery (internal/delivery): their state as reduceLane  *)
(* replays it, and the operations of Store that append lane events.  An    *)
(* operation is one transaction; what it decides from is either read in    *)
(* that transaction or pinned by the revision its caller expects.          *)
(*                                                                         *)
(* A caller sees a lane through GetLane and through what its own last      *)
(* operation returned; both may be stale when it acts.  The lane's number  *)
(* of events, its revision, also names what an event created: a lease      *)
(* token and a role-stage record are the revision at which they were made, *)
(* unique within the lane and in order of creation.                        *)
(***************************************************************************)
EXTENDS TaskGraph

CONSTANTS
  Lanes,          \* lane ids
  Callers,        \* clients of Store
  MaxProjects,    \* defaultMaxConcurrentProjects
  MaxRepairs,     \* MaxRepairCycles
  Required,       \* the required stages of the workflow definition
  MaxRevision,    \* bound on the events of one lane
  NoLane,         \* a caller that has looked at nothing
  NoTask,         \* a lane without parent_task_id
  NoProject       \* the project of a lane that was not created

\* RoleStage, in order: Semar, Gareng, Petruk, Bagong.
Stages == 1 .. 4
Semar == 1

ASSUME LaneAssumption ==
  /\ IsFiniteSet(Lanes)
  /\ \A l \in Lanes : Home[l] \in Orchestrations
  /\ MaxProjects \in Nat
  /\ MaxRepairs \in Nat
  /\ MaxRevision \in Nat \ {0}
  /\ Required \subseteq Stages
  /\ NoLane \notin Lanes
  /\ NoTask \notin Tasks
  /\ NoProject \notin Projects

VARIABLES
  lane,           \* DeliveryLane, per lane id
  view,           \* what each caller last saw
  held            \* the lease token each caller acts under

laneVars == <<lane, view, held>>
vars == <<graphVars, laneVars>>

LaneStatuses == {"absent", "waiting", "blocked", "runnable", "leased", "running", "review",
                 "accepted", "failed"}
Mutating == {"leased", "running"}
Idle == {"waiting", "blocked", "runnable"}
Concluded == {"accepted", "failed"}
Revisions == 0 .. MaxRevision

Lane == [status : LaneStatuses,
         project : Projects \cup {NoProject},
         task : Tasks \cup {NoTask},
         revision : Revisions,
         token : Revisions,                 \* lease_token, 0 when nil
         late : BOOLEAN,                    \* lease_expires_at <= now
         records : [Stages -> Revisions],   \* record id per stage, 0 when nil
         repairs : Nat,         \* repair_cycle_count
         escalated : BOOLEAN,
         blockedBy : SUBSET (EdgeIds \X Tasks)]   \* a blocking edge and its to-task

View == [id : Lanes \cup {NoLane}, revision : Revisions, status : LaneStatuses,
         repairs : Nat]

TypeOK ==
  /\ GraphTypeOK
  /\ lane \in [Lanes -> Lane]
  /\ view \in [Callers -> View]
  /\ held \in [Callers -> [id : Lanes \cup {NoLane}, token : Revisions]]

NewLane(status, project, task) ==
  [status |-> status, project |-> project, task |-> task, revision |-> 0, token |-> 0,
   late |-> FALSE, records |-> [s \in Stages |-> 0], repairs |-> 0, escalated |-> FALSE,
   blockedBy |-> {}]

Init ==
  /\ GraphInit
  /\ lane = [l \in Lanes |-> NewLane("absent", NoProject, NoTask)]
  /\ view = [c \in Callers |-> [id |-> NoLane, revision |-> 0, status |-> "absent", repairs |-> 0]]
  /\ held = [c \in Callers |-> [id |-> NoLane, token |-> 0]]

-----------------------------------------------------------------------------
(* reduceLane: what each event does to the lane.  The revision of every    *)
(* event is added by Event.                                                *)

\* Variant: an event the revision does not count.
EventUncounted(r) == r

Event(r) == [r EXCEPT !.revision = @ + 1]

LaneBlocked(r, blockers) == Event([r EXCEPT !.status = "blocked", !.blockedBy = blockers])
LaneUnblocked(r) == Event([r EXCEPT !.status = "runnable", !.blockedBy = {}])
LaneStatusChanged(r, status) == Event([r EXCEPT !.status = status])

\* Variant: the token names an event that has not happened.
LeaseGrantedAhead(r) == Event([r EXCEPT !.status = "leased", !.token = r.revision + 2, !.late = FALSE])

LeaseGranted(r) == Event([r EXCEPT !.status = "leased", !.token = r.revision + 1, !.late = FALSE])
LeaseHeartbeat(r) == Event([r EXCEPT !.status = "running", !.late = FALSE])

\* Variant: a completed lease is released like any other.
LeaseCompletedReleased(r) == Event([r EXCEPT !.status = "review", !.token = 0])

\* The lane keeps the token of its completed lease.
LeaseCompleted(r) == Event([r EXCEPT !.status = "review"])
LeaseReturned(r) == Event([r EXCEPT !.status = "runnable", !.token = 0, !.late = FALSE])
RepairCycleStarted(r) == Event([r EXCEPT !.status = "runnable", !.repairs = @ + 1])
LaneEscalated(r) == Event([r EXCEPT !.escalated = TRUE])

\* Variant: a resubmitted stage leaves the later ones standing.
StageSubmittedAlone(r, stage) == Event([r EXCEPT !.records[stage] = r.revision + 1])

\* A submitted stage clears every later one.
StageSubmitted(r, stage) ==
  Event([r EXCEPT !.records = [s \in Stages |-> CASE s < stage -> r.records[s]
                                                  [] s = stage -> r.revision + 1
                                                  [] OTHER -> 0]])

-----------------------------------------------------------------------------
(* Callers. *)

Seen(l, r) == [id |-> l, revision |-> r.revision, status |-> r.status, repairs |-> r.repairs]

\* Variant: the expected revision is not compared.
CurrentUnchecked(c) == view[c].id # NoLane

\* The lane is still at the revision c expects.
Current(c) ==
  /\ view[c].id # NoLane
  /\ lane[view[c].id].revision = view[c].revision

\* The operation of c appends one event, leaving the lane it looks at in state
\* r, and returns the lane.
Append(c, r) ==
  /\ r.revision <= MaxRevision
  /\ lane' = [lane EXCEPT ![view[c].id] = r]
  /\ view' = [view EXCEPT ![c] = Seen(view[c].id, r)]
  /\ UNCHANGED graphVars

\* GetLane.  The lane it returns carries the token of its lease, which the
\* caller may go on to use (CompleteLaneWork) or not.
GetLane(c, l) ==
  /\ lane[l].status # "absent"
  /\ view' = [view EXCEPT ![c] = Seen(l, lane[l])]
  /\ \/ UNCHANGED held
     \/ lane[l].token # 0 /\ held' = [held EXCEPT ![c] = [id |-> l, token |-> lane[l].token]]
  /\ UNCHANGED <<graphVars, lane>>

\* Variant: any caller may act on a leased lane.
HoldsAnyToken(c) ==
  /\ Current(c)
  /\ lane[view[c].id].status \in Mutating

\* The check Heartbeat, CompleteLease, RejectLease and RecordRoleStage share:
\* revision, status, token.
HoldsLease(c) ==
  /\ Current(c)
  /\ lane[view[c].id].status \in Mutating
  /\ held[c] = [id |-> view[c].id, token |-> lane[view[c].id].token]

-----------------------------------------------------------------------------
(* store.go *)

\* CreateLane: a lane without a task may have any project, a lane with one
\* has its project if the task is routed.
CreateLane(l, p, t) ==
  /\ lane[l].status = "absent"
  /\ Home[l] \in open
  /\ t # NoTask => Home[t] = Home[l] /\ Exists(t) /\ (Routed(t) => routed[t] = p)
  /\ lane' = [lane EXCEPT ![l] = Event(NewLane("waiting", p, t))]
  /\ UNCHANGED <<graphVars, view, held>>

\* UpdateLaneStatus checks nothing but the revision.  CompleteLaneWork, its
\* only caller, passes accepted or failed.
UpdateLaneStatus(c, status) ==
  /\ Current(c)
  /\ Append(c, LaneStatusChanged(lane[view[c].id], status))
  /\ UNCHANGED held

\* RecordVerificationDimension, RecordCICheck, RecordReviewConclusion: an
\* event that only moves the revision.
Annotate(c) ==
  /\ Current(c)
  /\ lane[view[c].id].status \notin Concluded
  /\ Append(c, Event(lane[view[c].id]))
  /\ UNCHANGED held

-----------------------------------------------------------------------------
(* scheduler.go *)

\* Two lists of blockers are the same when they are equally long and name no
\* task the recorded one lacks.
SameBlockers(recorded, blockers) ==
  /\ Cardinality(recorded) = Cardinality(blockers)
  /\ \A b \in blockers : \E r \in recorded : r[2] = b[2]

\* laneByTask: one lane for each task that has some, whichever the map kept.
LanePicks(o) ==
  LET LanesOf(t) == {l \in Lanes : lane[l].status # "absent" /\ lane[l].task = t /\ Home[l] = o}
  IN  {pick \in [Tasks -> Lanes \cup {NoLane}] :
         \A t \in Tasks : IF LanesOf(t) = {} THEN pick[t] = NoLane ELSE pick[t] \in LanesOf(t)}

\* Variant: predecessors that merely failed count as resolved.
ResolvedByConcluded(pick) ==
  {t \in Tasks : pick[t] # NoLane /\ lane[pick[t]].status \in Concluded}

\* The tasks whose lane is accepted.
Resolved(pick) == {t \in Tasks : pick[t] # NoLane /\ lane[pick[t]].status = "accepted"}

\* Variant: only a lane that was blocked is opened, one that waits is not.
SyncedBlockedOnly(r, t, resolved) ==
  LET blockers == {<<e, edge[e].to>> : e \in Blockers(t, resolved)}
  IN  IF r.status \notin Idle \/ t \in resolved
        THEN r
        ELSE CASE blockers = {} /\ r.status = "blocked" -> LaneUnblocked(r)
               [] blockers # {} /\ ~SameBlockers(r.blockedBy, blockers) -> LaneBlocked(r, blockers)
               [] OTHER -> r

\* What SyncFrontier makes of the lane of task t.
Synced(r, t, resolved) ==
  LET blockers == {<<e, edge[e].to>> : e \in Blockers(t, resolved)}
  IN  IF r.status \notin Idle \/ t \in resolved
        THEN r
        ELSE CASE blockers = {} /\ r.status # "runnable" -> LaneUnblocked(r)
               [] blockers # {} /\ ~SameBlockers(r.blockedBy, blockers) -> LaneBlocked(r, blockers)
               [] OTHER -> r

SyncFrontier(o) ==
  \E pick \in LanePicks(o) :
    /\ lane' = [l \in Lanes |->
                  IF \E t \in Tasks : pick[t] = l
                    THEN Synced(lane[l], lane[l].task, Resolved(pick))
                    ELSE lane[l]]
    /\ lane' # lane
    /\ \A l \in Lanes : lane'[l].revision <= MaxRevision
    /\ UNCHANGED <<graphVars, view, held>>

\* activeProjectIDs, over every orchestration.
ActiveProjects == {lane[l].project : l \in {k \in Lanes : lane[k].status \in Mutating}}

\* The global cap refuses p.
ProjectCapReached(p) == p \notin ActiveProjects /\ Cardinality(ActiveProjects) >= MaxProjects

\* Variant: a lane that is merely leased does not count.
ProjectBusyRunning(l) ==
  \E k \in Lanes \ {l} : /\ Home[k] = Home[l]
                         /\ lane[k].project = lane[l].project
                         /\ lane[k].status = "running"

\* Another lane of l's project is leased or running in l's orchestration.
ProjectBusy(l) ==
  \E k \in Lanes \ {l} : /\ Home[k] = Home[l]
                         /\ lane[k].project = lane[l].project
                         /\ lane[k].status \in Mutating

GrantLease(c) ==
  LET l == view[c].id
  IN  /\ Current(c)
      /\ lane[l].status = "runnable"
      /\ ~ProjectBusy(l)
      /\ ~ProjectCapReached(lane[l].project)
      /\ Append(c, LeaseGranted(lane[l]))
      /\ held' = [held EXCEPT ![c] = [id |-> l, token |-> lane[l].revision + 1]]

Heartbeat(c) ==
  /\ HoldsLease(c)
  /\ Append(c, LeaseHeartbeat(lane[view[c].id]))
  /\ UNCHANGED held

\* Variant: the gate is satisfied by the first required stage.
StagesStarted(r) ==
  r.records[Semar] # 0 /\ Required # {} => \E s \in Required : r.records[s] # 0

\* The gate of CompleteLease: a lane that has a Semar record needs one of the
\* last required stage, where there is one.
StagesComplete(r) ==
  r.records[Semar] # 0 /\ Required # {} =>
    \E s \in Required : r.records[s] # 0 /\ \A t \in Required : t <= s

CompleteLease(c) ==
  /\ HoldsLease(c)
  /\ StagesComplete(lane[view[c].id])
  /\ Append(c, LeaseCompleted(lane[view[c].id]))
  /\ UNCHANGED held

RejectLease(c) ==
  /\ HoldsLease(c)
  /\ Append(c, LeaseReturned(lane[view[c].id]))
  /\ UNCHANGED held

\* ExpireLeases: every lease of the orchestration that has run out.
ExpireLeases(o) ==
  LET due == {l \in Lanes : Home[l] = o /\ lane[l].status \in Mutating /\ lane[l].late}
  IN  /\ due # {}
      /\ \A l \in due : lane[l].revision < MaxRevision
      /\ lane' = [l \in Lanes |-> IF l \in due THEN LeaseReturned(lane[l]) ELSE lane[l]]
      /\ UNCHANGED <<graphVars, view, held>>

\* lease_expires_at passes.
LeaseRunsOut(l) ==
  /\ lane[l].status \in Mutating
  /\ ~lane[l].late
  /\ lane' = [lane EXCEPT ![l].late = TRUE]
  /\ UNCHANGED <<graphVars, view, held>>

-----------------------------------------------------------------------------
(* rolestage.go and repair.go *)

\* The nearest required stage before this one is recorded; there must be one.
PrecedingRecorded(r, stage) ==
  \E s \in Required : s < stage /\ r.records[s] # 0 /\ \A t \in Required : t < stage => t <= s

RecordRoleStage(c, stage) ==
  /\ HoldsLease(c)
  /\ stage # Semar => PrecedingRecorded(lane[view[c].id], stage)
  /\ Append(c, StageSubmitted(lane[view[c].id], stage))
  /\ UNCHANGED held

\* StartRepairCycle decides from the lane it reads first, at the revision the
\* transaction then finds again.
StartRepairCycle(c) ==
  /\ Current(c)
  /\ view[c].status \in {"review", "running"}
  /\ view[c].repairs < MaxRepairs
  /\ Append(c, RepairCycleStarted(lane[view[c].id]))
  /\ UNCHANGED held

\* StartRepairCycle with the budget used up.
Escalate(c) ==
  /\ Current(c)
  /\ view[c].status \in {"review", "running"}
  /\ view[c].repairs >= MaxRepairs
  /\ Append(c, LaneEscalated(lane[view[c].id]))
  /\ UNCHANGED held

-----------------------------------------------------------------------------
CallerStep(c) ==
  \/ \E l \in Lanes : GetLane(c, l)
  \/ GrantLease(c) \/ Heartbeat(c) \/ CompleteLease(c) \/ RejectLease(c)
  \/ \E stage \in Stages : RecordRoleStage(c, stage)
  \/ \E status \in Concluded : UpdateLaneStatus(c, status)
  \/ Annotate(c) \/ StartRepairCycle(c) \/ Escalate(c)

LaneNext ==
  \/ \E l \in Lanes, p \in Projects, t \in Tasks \cup {NoTask} : CreateLane(l, p, t)
  \/ \E o \in Orchestrations : SyncFrontier(o) \/ ExpireLeases(o)
  \/ \E l \in Lanes : LeaseRunsOut(l)
  \/ \E c \in Callers : CallerStep(c)

Next == (GraphNext /\ UNCHANGED laneVars) \/ LaneNext

Spec == Init /\ [][Next]_vars

-----------------------------------------------------------------------------
(* Properties. *)

\* At most one lane of a project is leased or running within an orchestration
\* ("one mutating lane per project", scheduler.go), however leases are granted,
\* rejected, expired, repaired and granted again.
OneMutatingLane ==
  \A k, l \in Lanes :
    /\ lane[k].status \in Mutating /\ lane[l].status \in Mutating
    /\ Home[k] = Home[l] /\ lane[k].project = lane[l].project
    => k = l

\* Over all orchestrations no more projects have work in flight than the cap
\* allows.
GlobalCap == Cardinality(ActiveProjects) <= MaxProjects

\* A caller that finds the revision it expects knows the lane: what it read
\* before its transaction is what the transaction finds, although neither
\* status nor repair count is read again (StartRepairCycle).
RevisionPinsState ==
  \A c \in Callers : Current(c) =>
    /\ view[c].status = lane[view[c].id].status
    /\ view[c].repairs = lane[view[c].id].repairs

\* A lane starts no more repair cycles than its budget, and is escalated only
\* once the budget is used up.
RepairBudget ==
  \A l \in Lanes :
    /\ lane[l].repairs <= MaxRepairs
    /\ lane[l].escalated => lane[l].repairs = MaxRepairs

\* A role-stage record is newer than the records of the stages before it, over
\* any number of leases and resubmissions: no review stands that was made of
\* an earlier version of what it reviewed (rolestage.go, "recording a stage
\* invalidates every later stage").
StagesInOrder ==
  \A l \in Lanes : \A s, t \in Stages :
    s < t /\ lane[l].records[s] # 0 /\ lane[l].records[t] # 0
      => lane[l].records[s] < lane[l].records[t]

\* A lane in review that ever engaged the stages has a record of every
\* required one, although CompleteLease looks at the last alone.
EngagedReviewIsComplete ==
  \A l \in Lanes :
    lane[l].status = "review" /\ lane[l].records[Semar] # 0
      => \A s \in Required : lane[l].records[s] # 0

\* Only a caller that acts under the current lease moves a leased lane to
\* review; one that still acts under a superseded or expired lease cannot,
\* even with a fresh view of the lane.
LeaseFenced ==
  [][\A l \in Lanes :
       lane[l].status \in Mutating /\ lane'[l].status = "review" =>
         \E c \in Callers : /\ held[c] = [id |-> l, token |-> lane[l].token]
                            /\ view'[c].id = l
                            /\ view'[c].revision = lane'[l].revision]_vars

\* A lane that waited or was blocked becomes runnable only when each task it
\* depends on has an accepted lane.
OpenedAfterPredecessors ==
  [][\A l \in Lanes :
       lane[l].status \in {"waiting", "blocked"} /\ lane'[l].status = "runnable" =>
         \A e \in Active : edge[e].from = lane[l].task /\ edge[e].blocking =>
           \E k \in Lanes : lane[k].task = edge[e].to /\ lane[k].status = "accepted"]_vars

\* Another SyncFrontier of o, with the same lanes picked, would change nothing.
Settled(pick) ==
  \A t \in Tasks : pick[t] # NoLane => Synced(lane[pick[t]], t, Resolved(pick)) = lane[pick[t]]

\* The lanes of an orchestration never all wait for each other: once the
\* frontier is synced, and every task has a lane, some task that is not accepted
\* has a lane that neither waits nor is blocked, whatever edges were added and
\* removed and whatever blockers the lanes have recorded (scheduler.go:63-80,
\* 139-170).
NoStandstill ==
  \A o \in Orchestrations : \A pick \in LanePicks(o) :
    LET Left == {t \in Tasks : Home[t] = o /\ Exists(t) /\ t \notin Resolved(pick)}
    IN  /\ Settled(pick)
        /\ \A t \in Left : pick[t] # NoLane
        /\ Left # {}
        => \E t \in Left : lane[pick[t]].status \notin {"waiting", "blocked"}

\* The leases of the lanes that are leased or running for project p of
\* orchestration o.
LeasesOf(o, p) ==
  {[lane |-> l, token |-> lane[l].token] :
     l \in {k \in Lanes : Home[k] = o /\ lane[k].project = p /\ lane[k].status \in Mutating}}

Slots == INSTANCE ProjectSlots WITH
  lease <- [s \in Orchestrations \X Projects |-> LeasesOf(s[1], s[2])],
  clock <- [l \in Lanes |-> lane[l].revision]

\* The scheduler is a table of project slots: one lane at a time works for a
\* project, the cap is kept, a slot is free before another lane has it, and
\* every lease has a token that was never used before, over all interleavings
\* of grants, renewals, completions, rejections, expiries and repairs
\* (scheduler.go: GrantLease, CompleteLease, RejectLease, ExpireLeases).
ImplementsSlots == Slots!Spec
=============================================================================
