------------------------------ MODULE LaneProofs ------------------------------
(***************************************************************************)
(* What holds of the lanes for any number of lanes, callers, tasks and     *)
(* projects, any limits and any required stages.                           *)
(***************************************************************************)
EXTENDS LaneScheduler, TaskGraphProofs

\* A recorded stage has every required stage before it recorded too.
RecordsGrowInOrder(r) ==
  \A s, t \in Stages : s < t /\ s \in Required /\ r.records[t] # 0 => r.records[s] # 0

\* Records are named by past revisions, later stages by later ones.
RecordsAreOrdered(r) ==
  /\ \A s \in Stages : r.records[s] <= r.revision
  /\ \A s, t \in Stages :
       s < t /\ r.records[s] # 0 /\ r.records[t] # 0 => r.records[s] < r.records[t]

BudgetKept(r) ==
  /\ r.repairs <= MaxRepairs
  /\ r.escalated => r.repairs = MaxRepairs

ReviewComplete(r) ==
  r.status = "review" /\ r.records[Semar] # 0 => \A s \in Required : r.records[s] # 0

\* What holds of each lane by itself.
LaneInv(r) ==
  /\ r \in Lane
  /\ r.status = "absent" => r.revision = 0
  /\ BudgetKept(r)
  /\ RecordsAreOrdered(r)
  /\ RecordsGrowInOrder(r)
  /\ ReviewComplete(r)

\* What a caller saw of a lane is its past, and its present if no event came
\* in between.
ViewInv(c) ==
  LET l == view[c].id
  IN  l # NoLane =>
        /\ lane[l].status # "absent"
        /\ view[c].revision <= lane[l].revision
        /\ view[c].revision = lane[l].revision =>
             view[c].status = lane[l].status /\ view[c].repairs = lane[l].repairs

\* The inductive invariant.
SchedulerInv ==
  /\ TypeOK
  /\ \A l \in Lanes : LaneInv(lane[l])
  /\ \A c \in Callers : ViewInv(c)
  /\ OneMutatingLane
  /\ GlobalCap

-----------------------------------------------------------------------------
(* One lane. *)

\* An event that touches neither records nor repairs keeps the lane's
\* invariant, unless it moves the lane to review.
LEMMA PlainEvent ==
  ASSUME NEW r, LaneInv(r), NEW q \in Lane,
         q.revision = r.revision + 1, q.records = r.records,
         q.repairs = r.repairs, q.escalated = r.escalated,
         q.status # "absent", q.status = "review" => r.status = "review"
  PROVE  LaneInv(q)
<1>1. r \in Lane
  BY DEF LaneInv
<1>2. /\ r.revision \in Nat /\ q.revision \in Nat
      /\ \A s \in Stages : r.records[s] \in Nat
  BY <1>1, LaneAssumption DEF Lane, Revisions
<1>3. RecordsAreOrdered(q)
  BY <1>2 DEF LaneInv, RecordsAreOrdered
<1>4. BudgetKept(q) /\ RecordsGrowInOrder(q) /\ ReviewComplete(q)
  BY DEF LaneInv, BudgetKept, RecordsGrowInOrder, ReviewComplete
<1>5. QED
  BY <1>3, <1>4 DEF LaneInv

\* The events that only move the status, the lease or the revision.
LEMMA StatusEvents ==
  ASSUME NEW r, LaneInv(r), r.revision < MaxRevision, r.status # "absent"
  PROVE  /\ LaneInv(Event(r))
         /\ \A s \in LaneStatuses \ {"absent", "review"} : LaneInv(LaneStatusChanged(r, s))
         /\ LaneInv(LeaseGranted(r))
         /\ LaneInv(LeaseHeartbeat(r))
         /\ LaneInv(LeaseReturned(r))
         /\ LaneInv(LaneUnblocked(r))
         /\ \A b \in SUBSET (EdgeIds \X Tasks) : LaneInv(LaneBlocked(r, b))
<1>1. r \in Lane /\ r.revision + 1 \in Revisions /\ 0 \in Revisions
  BY LaneAssumption DEF LaneInv, Lane, Revisions
<1>2. LaneInv(Event(r))
  <2> DEFINE q == Event(r)
  <2>1. q \in Lane
    BY <1>1 DEF Event, Lane, LaneStatuses
  <2>2. /\ q.revision = r.revision + 1 /\ q.records = r.records
        /\ q.repairs = r.repairs /\ q.escalated = r.escalated
        /\ q.status # "absent" /\ (q.status = "review" => r.status = "review")
    BY <1>1 DEF Event, Lane
  <2>3. QED
    BY <2>1, <2>2, PlainEvent
<1>3. ASSUME NEW s \in LaneStatuses \ {"absent", "review"} PROVE LaneInv(LaneStatusChanged(r, s))
  <2> DEFINE q == LaneStatusChanged(r, s)
  <2>1. q \in Lane
    BY <1>1, <1>3 DEF LaneStatusChanged, Event, Lane
  <2>2. /\ q.revision = r.revision + 1 /\ q.records = r.records
        /\ q.repairs = r.repairs /\ q.escalated = r.escalated
        /\ q.status \notin {"absent", "review"}
    BY <1>1, <1>3 DEF LaneStatusChanged, Event, Lane
  <2>3. QED
    BY <2>1, <2>2, PlainEvent
<1>4. LaneInv(LeaseGranted(r))
  <2> DEFINE q == LeaseGranted(r)
  <2>1. q \in Lane
    BY <1>1 DEF LeaseGranted, Event, Lane, LaneStatuses
  <2>2. /\ q.revision = r.revision + 1 /\ q.records = r.records
        /\ q.repairs = r.repairs /\ q.escalated = r.escalated
        /\ q.status \notin {"absent", "review"}
    BY <1>1 DEF LeaseGranted, Event, Lane
  <2>3. QED
    BY <2>1, <2>2, PlainEvent
<1>5. LaneInv(LeaseHeartbeat(r))
  <2> DEFINE q == LeaseHeartbeat(r)
  <2>1. q \in Lane
    BY <1>1 DEF LeaseHeartbeat, Event, Lane, LaneStatuses
  <2>2. /\ q.revision = r.revision + 1 /\ q.records = r.records
        /\ q.repairs = r.repairs /\ q.escalated = r.escalated
        /\ q.status # "absent" /\ (q.status = "review" => r.status = "review")
    BY <1>1 DEF LeaseHeartbeat, Event, Lane
  <2>3. QED
    BY <2>1, <2>2, PlainEvent
<1>6. LaneInv(LeaseReturned(r))
  <2> DEFINE q == LeaseReturned(r)
  <2>1. q \in Lane
    BY <1>1 DEF LeaseReturned, Event, Lane, LaneStatuses
  <2>2. /\ q.revision = r.revision + 1 /\ q.records = r.records
        /\ q.repairs = r.repairs /\ q.escalated = r.escalated
        /\ q.status \notin {"absent", "review"}
    BY <1>1 DEF LeaseReturned, Event, Lane
  <2>3. QED
    BY <2>1, <2>2, PlainEvent
<1>7. LaneInv(LaneUnblocked(r))
  <2> DEFINE q == LaneUnblocked(r)
  <2>1. q \in Lane
    BY <1>1 DEF LaneUnblocked, Event, Lane, LaneStatuses
  <2>2. /\ q.revision = r.revision + 1 /\ q.records = r.records
        /\ q.repairs = r.repairs /\ q.escalated = r.escalated
        /\ q.status # "absent" /\ (q.status = "review" => r.status = "review")
    BY <1>1 DEF LaneUnblocked, Event, Lane
  <2>3. QED
    BY <2>1, <2>2, PlainEvent
<1>8. ASSUME NEW b \in SUBSET (EdgeIds \X Tasks) PROVE LaneInv(LaneBlocked(r, b))
  <2> DEFINE q == LaneBlocked(r, b)
  <2>1. q \in Lane
    BY <1>1, <1>8 DEF LaneBlocked, Event, Lane, LaneStatuses
  <2>2. /\ q.revision = r.revision + 1 /\ q.records = r.records
        /\ q.repairs = r.repairs /\ q.escalated = r.escalated
        /\ q.status # "absent" /\ (q.status = "review" => r.status = "review")
    BY <1>1 DEF LaneBlocked, Event, Lane
  <2>3. QED
    BY <2>1, <2>2, PlainEvent
<1>9. QED
  BY <1>2, <1>3, <1>4, <1>5, <1>6, <1>7, <1>8

\* A lane that was just created.
LEMMA CreatedLane ==
  ASSUME NEW p \in Projects, NEW t \in Tasks \cup {NoTask}
  PROVE  LaneInv(Event(NewLane("waiting", p, t)))
<1> DEFINE q == Event(NewLane("waiting", p, t))
<1>1. 0 \in Revisions /\ 1 \in Revisions /\ MaxRepairs \in Nat
  BY LaneAssumption DEF Revisions
<1>2. q \in Lane
  <2>1. NewLane("waiting", p, t) \in Lane
    BY <1>1 DEF NewLane, Lane, LaneStatuses
  <2>2. NewLane("waiting", p, t).revision + 1 \in Revisions
    BY <1>1 DEF NewLane
  <2>3. QED
    BY <2>1, <2>2 DEF Event, Lane
<1>3. /\ q.status = "waiting" /\ q.revision = 1 /\ q.repairs = 0 /\ q.escalated = FALSE
      /\ \A s \in Stages : q.records[s] = 0
  BY DEF Event, NewLane
<1>4. QED
  BY <1>1, <1>2, <1>3
     DEF LaneInv, BudgetKept, RecordsAreOrdered, RecordsGrowInOrder, ReviewComplete

\* CompleteLease: the last required record implies all the others.
LEMMA CompletedLane ==
  ASSUME NEW r, LaneInv(r), r.revision < MaxRevision, r.status # "absent", StagesComplete(r)
  PROVE  LaneInv(LeaseCompleted(r))
<1> DEFINE q == LeaseCompleted(r)
<1>1. r \in Lane /\ r.revision \in Nat /\ r.revision + 1 \in Revisions
  BY LaneAssumption DEF LaneInv, Lane, Revisions
<1>2. q \in Lane
  BY <1>1 DEF LeaseCompleted, Event, Lane, LaneStatuses
<1>3. /\ q.status = "review" /\ q.revision = r.revision + 1 /\ q.records = r.records
      /\ q.repairs = r.repairs /\ q.escalated = r.escalated
  BY <1>1 DEF LeaseCompleted, Event, Lane
<1>4. \A s \in Stages : r.records[s] \in Nat
  BY <1>1, LaneAssumption DEF Lane, Revisions
<1>5. ReviewComplete(q)
  <2>1. SUFFICES ASSUME r.records[Semar] # 0, NEW s \in Required PROVE r.records[s] # 0
    BY <1>3 DEF ReviewComplete
  <2>2. PICK last \in Required : r.records[last] # 0 /\ \A t \in Required : t <= last
    BY <2>1 DEF StagesComplete
  <2>3. s \in Stages /\ last \in Stages /\ s <= last
    BY <2>2, LaneAssumption
  <2>4. s = last \/ s < last
    BY <2>3 DEF Stages
  <2>5. QED
    BY <2>2, <2>3, <2>4 DEF LaneInv, RecordsGrowInOrder
<1>6. BudgetKept(q) /\ RecordsAreOrdered(q) /\ RecordsGrowInOrder(q)
  BY <1>1, <1>3, <1>4 DEF LaneInv, BudgetKept, RecordsAreOrdered, RecordsGrowInOrder
<1>7. QED
  BY <1>2, <1>3, <1>5, <1>6 DEF LaneInv

\* RecordRoleStage: what remains are the stages before the submitted one.
LEMMA SubmittedStage ==
  ASSUME NEW r, LaneInv(r), r.revision < MaxRevision, r.status \in Mutating,
         NEW stage \in Stages, stage # Semar => PrecedingRecorded(r, stage)
  PROVE  LaneInv(StageSubmitted(r, stage))
<1> DEFINE q == StageSubmitted(r, stage)
<1>1. r \in Lane /\ r.revision \in Nat /\ r.revision + 1 \in Revisions /\ 0 \in Revisions
  BY LaneAssumption DEF LaneInv, Lane, Revisions
<1>2. q \in Lane
  BY <1>1 DEF StageSubmitted, Event, Lane
<1>3. /\ q.status = r.status /\ q.revision = r.revision + 1
      /\ q.repairs = r.repairs /\ q.escalated = r.escalated
      /\ q.records = [s \in Stages |-> CASE s < stage -> r.records[s]
                                         [] s = stage -> r.revision + 1
                                         [] OTHER -> 0]
  BY <1>1 DEF StageSubmitted, Event, Lane
<1>4. \A s \in Stages : r.records[s] \in Nat /\ r.records[s] <= r.revision
  BY <1>1, LaneAssumption DEF Lane, Revisions, LaneInv, RecordsAreOrdered
<1>5. \A s \in Stages : /\ s < stage => q.records[s] = r.records[s]
                        /\ s = stage => q.records[s] = r.revision + 1
                        /\ s > stage => q.records[s] = 0
  BY <1>3 DEF Stages
<1>6. RecordsAreOrdered(q)
  <2>1. \A s \in Stages : q.records[s] <= q.revision
    BY <1>1, <1>3, <1>4, <1>5 DEF Stages
  <2>2. ASSUME NEW s \in Stages, NEW t \in Stages, s < t, q.records[s] # 0, q.records[t] # 0
        PROVE  q.records[s] < q.records[t]
    <3>1. CASE t < stage
      BY <1>5, <2>2, <3>1 DEF LaneInv, RecordsAreOrdered, Stages
    <3>2. CASE t = stage
      BY <1>1, <1>4, <1>5, <2>2, <3>2 DEF Stages
    <3>3. CASE t > stage
      BY <1>5, <2>2, <3>3
    <3>4. QED
      BY <3>1, <3>2, <3>3 DEF Stages
  <2>3. QED
    BY <2>1, <2>2 DEF RecordsAreOrdered
<1>7. RecordsGrowInOrder(q)
  <2>1. SUFFICES ASSUME NEW s \in Stages, NEW t \in Stages, s < t, s \in Required,
                        q.records[t] # 0
                 PROVE  q.records[s] # 0
    BY DEF RecordsGrowInOrder
  <2>2. t <= stage /\ s < stage
    BY <1>5, <2>1 DEF Stages
  <2>3. CASE t < stage
    BY <1>5, <2>1, <2>2, <2>3 DEF LaneInv, RecordsGrowInOrder
  <2>4. CASE t = stage
    <3>1. stage # Semar
      BY <2>1, <2>4 DEF Stages, Semar
    <3>2. PICK p \in Required : p < stage /\ r.records[p] # 0 /\ \A u \in Required : u < stage => u <= p
      BY <3>1 DEF PrecedingRecorded
    <3>3. p \in Stages /\ (s = p \/ s < p)
      BY <2>1, <2>2, <3>2, LaneAssumption DEF Stages
    <3>4. r.records[s] # 0
      BY <2>1, <3>2, <3>3 DEF LaneInv, RecordsGrowInOrder
    <3>5. QED
      BY <1>5, <2>1, <2>2, <3>4
  <2>5. QED
    BY <2>2, <2>3, <2>4 DEF Stages
<1>8. BudgetKept(q) /\ ReviewComplete(q) /\ q.status # "absent"
  BY <1>3 DEF LaneInv, BudgetKept, ReviewComplete, Mutating
<1>9. QED
  BY <1>2, <1>6, <1>7, <1>8 DEF LaneInv

\* StartRepairCycle within the budget, and the escalation of a lane beyond it.
LEMMA RepairedLane ==
  ASSUME NEW r, LaneInv(r), r.revision < MaxRevision, r.status # "absent"
  PROVE  /\ r.repairs < MaxRepairs => LaneInv(RepairCycleStarted(r))
         /\ r.repairs >= MaxRepairs => LaneInv(LaneEscalated(r))
<1>1. /\ r \in Lane /\ r.revision \in Nat /\ r.revision + 1 \in Revisions
      /\ r.repairs \in Nat /\ MaxRepairs \in Nat
      /\ \A s \in Stages : r.records[s] \in Nat
  BY LaneAssumption DEF LaneInv, Lane, Revisions
<1>2. ASSUME r.repairs < MaxRepairs PROVE LaneInv(RepairCycleStarted(r))
  <2> DEFINE q == RepairCycleStarted(r)
  <2>1. q \in Lane
    <3>1. [r EXCEPT !.status = "runnable", !.repairs = @ + 1] \in Lane
      <4>1. r.repairs + 1 \in Nat
        BY <1>1
      <4>2. \A n \in Nat : [r EXCEPT !.status = "runnable", !.repairs = n] \in Lane
        BY <1>1 DEF Lane, LaneStatuses
      <4>3. QED
        BY <4>1, <4>2, Zenon
    <3>2. [r EXCEPT !.status = "runnable", !.repairs = @ + 1].revision + 1 \in Revisions
      BY <1>1 DEF Lane
    <3>3. QED
      BY <3>1, <3>2 DEF RepairCycleStarted, Event, Lane
  <2>2. /\ q.status = "runnable" /\ q.revision = r.revision + 1 /\ q.records = r.records
        /\ q.repairs = r.repairs + 1 /\ q.escalated = r.escalated
    BY <1>1 DEF RepairCycleStarted, Event, Lane
  <2>3. BudgetKept(q)
    BY <1>1, <1>2, <2>2 DEF LaneInv, BudgetKept
  <2>4. QED
    BY <1>1, <2>1, <2>2, <2>3
       DEF LaneInv, RecordsAreOrdered, RecordsGrowInOrder, ReviewComplete
<1>3. ASSUME r.repairs >= MaxRepairs PROVE LaneInv(LaneEscalated(r))
  <2> DEFINE q == LaneEscalated(r)
  <2>1. q \in Lane
    BY <1>1 DEF LaneEscalated, Event, Lane
  <2>2. /\ q.status = r.status /\ q.revision = r.revision + 1 /\ q.records = r.records
        /\ q.repairs = r.repairs
    BY <1>1 DEF LaneEscalated, Event, Lane
  <2>3. BudgetKept(q)
    BY <1>1, <1>3, <2>2 DEF LaneInv, BudgetKept
  <2>4. QED
    BY <1>1, <2>1, <2>2, <2>3
       DEF LaneInv, RecordsAreOrdered, RecordsGrowInOrder, ReviewComplete
<1>4. QED
  BY <1>2, <1>3

-----------------------------------------------------------------------------
(* Steps of the callers. *)

BaseInv == TypeOK /\ (\A l \in Lanes : LaneInv(lane[l])) /\ (\A c \in Callers : ViewInv(c))

\* The lane a caller with the expected revision acts on is as it saw it.
LEMMA CurrentLane ==
  ASSUME BaseInv, NEW c \in Callers, Current(c)
  PROVE  /\ view[c].id \in Lanes
         /\ LaneInv(lane[view[c].id])
         /\ lane[view[c].id].status # "absent"
         /\ view[c].status = lane[view[c].id].status
         /\ view[c].repairs = lane[view[c].id].repairs
BY DEF BaseInv, TypeOK, View, ViewInv, Current

\* Every event adds one to the revision and keeps the project.
LEMMA EventShape ==
  ASSUME NEW r \in Lane, NEW stage \in Stages, NEW s \in LaneStatuses
  PROVE  \A q \in {Event(r), LaneStatusChanged(r, s), LeaseGranted(r), LeaseHeartbeat(r),
                   LeaseCompleted(r), LeaseReturned(r), RepairCycleStarted(r),
                   LaneEscalated(r), StageSubmitted(r, stage)} :
           q.revision = r.revision + 1 /\ q.project = r.project
<1> USE DEF Event, Lane
<1>1. \A q \in {Event(r), LaneStatusChanged(r, s), LeaseGranted(r)} :
        q.revision = r.revision + 1 /\ q.project = r.project
  BY DEF LaneStatusChanged, LeaseGranted
<1>2. \A q \in {LeaseHeartbeat(r), LeaseCompleted(r), LeaseReturned(r)} :
        q.revision = r.revision + 1 /\ q.project = r.project
  BY DEF LeaseHeartbeat, LeaseCompleted, LeaseReturned
<1>3. \A q \in {RepairCycleStarted(r), LaneEscalated(r), StageSubmitted(r, stage)} :
        q.revision = r.revision + 1 /\ q.project = r.project
  BY DEF RepairCycleStarted, LaneEscalated, StageSubmitted
<1>4. QED
  BY <1>1, <1>2, <1>3

\* What the events make of the status.
LEMMA EventStatus ==
  ASSUME NEW r \in Lane, NEW stage \in Stages, NEW s \in LaneStatuses
  PROVE  /\ Event(r).status = r.status
         /\ LaneStatusChanged(r, s).status = s
         /\ LeaseGranted(r).status = "leased"
         /\ LeaseHeartbeat(r).status = "running"
         /\ LeaseCompleted(r).status = "review"
         /\ LeaseReturned(r).status = "runnable"
         /\ RepairCycleStarted(r).status = "runnable"
         /\ LaneEscalated(r).status = r.status
         /\ StageSubmitted(r, stage).status = r.status
BY DEF Event, Lane, LaneStatusChanged, LeaseGranted, LeaseHeartbeat, LeaseCompleted,
       LeaseReturned, RepairCycleStarted, LaneEscalated, StageSubmitted

\* An operation that appends one event to a lane keeps the invariant of every
\* lane and of every view: the others' views of that lane are now older.
LEMMA AppendStep ==
  ASSUME BaseInv, NEW c \in Callers, Current(c), NEW q,
         LaneInv(q), q.status # "absent", q.revision = lane[view[c].id].revision + 1,
         Append(c, q), held' \in [Callers -> [id : Lanes \cup {NoLane}, token : Revisions]]
  PROVE  BaseInv'
<1> DEFINE l == view[c].id
<1>1. l \in Lanes /\ LaneInv(lane[l])
  BY CurrentLane
<1>2. q \in Lane /\ q.revision \in Revisions /\ q.repairs \in Nat /\ q.status \in LaneStatuses
  BY DEF LaneInv, Lane
<1>3. \A k \in Lanes : lane'[k] = IF k = l THEN q ELSE lane[k]
  BY <1>1 DEF Append, BaseInv, TypeOK
<1>4. \A d \in Callers : view'[d] = IF d = c THEN Seen(l, q) ELSE view[d]
  BY DEF Append, BaseInv, TypeOK
<1>5. Seen(l, q) \in View
  BY <1>1, <1>2 DEF Seen, View
<1>6. TypeOK'
  <2>1. lane' \in [Lanes -> Lane]
    BY <1>1, <1>2 DEF Append, BaseInv, TypeOK
  <2>2. view' \in [Callers -> View]
    BY <1>5 DEF Append, BaseInv, TypeOK
  <2>3. GraphTypeOK'
    BY DEF Append, BaseInv, TypeOK, graphVars, GraphTypeOK
  <2>4. QED
    BY <2>1, <2>2, <2>3 DEF TypeOK
<1>7. \A k \in Lanes : LaneInv(lane'[k])
  BY <1>3 DEF BaseInv
<1>8. ASSUME NEW d \in Callers PROVE ViewInv(d)'
  <2>1. CASE d = c
    <3>1. view'[d] = Seen(l, q) /\ lane'[l] = q
      BY <1>1, <1>3, <1>4, <2>1
    <3>2. /\ Seen(l, q).id = l /\ Seen(l, q).revision = q.revision
          /\ Seen(l, q).status = q.status /\ Seen(l, q).repairs = q.repairs
      BY DEF Seen
    <3>3. q.revision <= q.revision
      BY <1>2 DEF Revisions
    <3>4. QED
      BY <3>1, <3>2, <3>3 DEF ViewInv
  <2>2. CASE d # c
    <3>1. view'[d] = view[d] /\ ViewInv(d)
      BY <1>4, <2>2 DEF BaseInv
    <3>2. CASE view[d].id = l
      <4>1. view[d].revision <= lane[l].revision
        BY <1>1, <3>1, <3>2, LaneAssumption DEF ViewInv
      <4>2. view[d].revision \in Nat /\ lane[l].revision \in Nat
        BY <1>1 DEF BaseInv, TypeOK, View, Lane, Revisions
      <4>3. view[d].revision < q.revision
        BY <4>1, <4>2
      <4>4. QED
        BY <1>1, <1>3, <3>1, <3>2, <4>2, <4>3 DEF ViewInv
    <3>3. CASE view[d].id # l
      <4>1. view[d].id \in Lanes \cup {NoLane}
        BY DEF BaseInv, TypeOK, View
      <4>2. QED
        BY <1>3, <3>1, <3>3, <4>1 DEF ViewInv
    <3>4. QED
      BY <3>2, <3>3
  <2>3. QED
    BY <2>1, <2>2
<1>9. QED
  BY <1>6, <1>7, <1>8 DEF BaseInv

\* The revision of the lane a caller acts on leaves room for the event.
LEMMA RoomForEvent ==
  ASSUME BaseInv, NEW c \in Callers, Current(c), NEW q,
         q.revision = lane[view[c].id].revision + 1, Append(c, q)
  PROVE  lane[view[c].id].revision < MaxRevision
<1>1. lane[view[c].id].revision \in Nat /\ MaxRevision \in Nat
  BY CurrentLane, LaneAssumption DEF LaneInv, Lane, Revisions
<1>2. QED
  BY <1>1 DEF Append

\* Every operation of a caller keeps the invariant of the lanes and the views.
LEMMA CallerKeepsBase ==
  ASSUME BaseInv, NEW c \in Callers, CallerStep(c)
  PROVE  BaseInv'
<1> DEFINE l == view[c].id
           r == lane[l]
<1>1. ASSUME NEW k \in Lanes, GetLane(c, k) PROVE BaseInv'
  <2>1. lane[k] \in Lane /\ Seen(k, lane[k]) \in View
    BY DEF BaseInv, TypeOK, Seen, View, Lane
  <2>2. TypeOK'
    <3>1. [id |-> k, token |-> lane[k].token] \in [id : Lanes \cup {NoLane}, token : Revisions]
      BY <2>1 DEF Lane
    <3>2. held' \in [Callers -> [id : Lanes \cup {NoLane}, token : Revisions]]
      BY <1>1, <3>1 DEF GetLane, BaseInv, TypeOK
    <3>3. QED
      BY <1>1, <2>1, <3>2 DEF GetLane, BaseInv, TypeOK, graphVars, GraphTypeOK
  <2>3. \A m \in Lanes : LaneInv(lane'[m])
    BY <1>1 DEF GetLane, BaseInv
  <2>4. ASSUME NEW d \in Callers PROVE ViewInv(d)'
    <3>1. CASE d = c
      <4>1. view'[d] = Seen(k, lane[k]) /\ lane' = lane
        BY <1>1, <3>1 DEF GetLane, BaseInv, TypeOK
      <4>2. lane[k].revision <= lane[k].revision
        BY <2>1, LaneAssumption DEF Lane, Revisions
      <4>3. QED
        BY <1>1, <4>1, <4>2 DEF GetLane, ViewInv, Seen
    <3>2. CASE d # c
      <4>1. view'[d] = view[d] /\ lane' = lane
        BY <1>1, <3>2 DEF GetLane, BaseInv, TypeOK
      <4>2. QED
        BY <4>1 DEF BaseInv, ViewInv
    <3>3. QED
      BY <3>1, <3>2
  <2>5. QED
    BY <2>2, <2>3, <2>4 DEF BaseInv
<1>2. ASSUME Current(c), UNCHANGED held,
             NEW q, Append(c, q), q.revision = r.revision + 1, LaneInv(q), q.status # "absent"
      PROVE  BaseInv'
  BY <1>2, AppendStep DEF BaseInv, TypeOK
<1>3. ASSUME Current(c) PROVE r \in Lane /\ r.status \in LaneStatuses
  BY <1>3, CurrentLane DEF LaneInv, Lane
<1>4. CASE GrantLease(c)
  <2>1. Current(c) /\ Append(c, LeaseGranted(r))
    BY <1>4 DEF GrantLease
  <2>2. LeaseGranted(r).revision = r.revision + 1 /\ LeaseGranted(r).status = "leased"
    BY <1>3, <2>1, EventShape, EventStatus DEF Stages
  <2>3. LaneInv(LeaseGranted(r)) /\ r.revision < MaxRevision
    BY <2>1, <2>2, RoomForEvent, CurrentLane, StatusEvents
  <2>4. r.revision + 1 \in Revisions /\ l \in Lanes
    BY <1>3, <2>1, <2>3, CurrentLane, LaneAssumption DEF Lane, Revisions
  <2>5. held' \in [Callers -> [id : Lanes \cup {NoLane}, token : Revisions]]
    BY <1>4, <2>4 DEF GrantLease, BaseInv, TypeOK
  <2>6. QED
    BY <2>1, <2>2, <2>3, <2>5, AppendStep
<1>5. CASE Heartbeat(c)
  <2>1. Current(c) /\ Append(c, LeaseHeartbeat(r)) /\ UNCHANGED held
    BY <1>5 DEF Heartbeat, HoldsLease
  <2>2. LeaseHeartbeat(r).revision = r.revision + 1 /\ LeaseHeartbeat(r).status = "running"
    BY <1>3, <2>1, EventShape, EventStatus DEF Stages
  <2>3. LaneInv(LeaseHeartbeat(r))
    BY <2>1, <2>2, RoomForEvent, CurrentLane, StatusEvents
  <2>4. QED
    BY <1>2, <2>1, <2>2, <2>3
<1>6. CASE CompleteLease(c)
  <2>1. Current(c) /\ Append(c, LeaseCompleted(r)) /\ UNCHANGED held /\ StagesComplete(r)
    BY <1>6 DEF CompleteLease, HoldsLease
  <2>2. LeaseCompleted(r).revision = r.revision + 1 /\ LeaseCompleted(r).status = "review"
    BY <1>3, <2>1, EventShape, EventStatus DEF Stages
  <2>3. LaneInv(LeaseCompleted(r))
    BY <2>1, <2>2, RoomForEvent, CurrentLane, CompletedLane
  <2>4. QED
    BY <1>2, <2>1, <2>2, <2>3
<1>7. CASE RejectLease(c)
  <2>1. Current(c) /\ Append(c, LeaseReturned(r)) /\ UNCHANGED held
    BY <1>7 DEF RejectLease, HoldsLease
  <2>2. LeaseReturned(r).revision = r.revision + 1 /\ LeaseReturned(r).status = "runnable"
    BY <1>3, <2>1, EventShape, EventStatus DEF Stages
  <2>3. LaneInv(LeaseReturned(r))
    BY <2>1, <2>2, RoomForEvent, CurrentLane, StatusEvents
  <2>4. QED
    BY <1>2, <2>1, <2>2, <2>3
<1>8. ASSUME NEW stage \in Stages, RecordRoleStage(c, stage) PROVE BaseInv'
  <2>1. /\ Current(c) /\ Append(c, StageSubmitted(r, stage)) /\ UNCHANGED held
        /\ r.status \in Mutating
        /\ stage # Semar => PrecedingRecorded(r, stage)
    BY <1>8 DEF RecordRoleStage, HoldsLease
  <2>2. StageSubmitted(r, stage).revision = r.revision + 1 /\ StageSubmitted(r, stage).status = r.status
    BY <1>3, <2>1, EventShape, EventStatus
  <2>3. LaneInv(StageSubmitted(r, stage)) /\ r.status # "absent"
    BY <2>1, <2>2, RoomForEvent, CurrentLane, SubmittedStage
  <2>4. QED
    BY <1>2, <2>1, <2>2, <2>3
<1>9. ASSUME NEW s \in Concluded, UpdateLaneStatus(c, s) PROVE BaseInv'
  <2>1. Current(c) /\ Append(c, LaneStatusChanged(r, s)) /\ UNCHANGED held
    BY <1>9 DEF UpdateLaneStatus
  <2>2. s \in LaneStatuses \ {"absent", "review"}
    BY DEF Concluded, LaneStatuses
  <2>3. LaneStatusChanged(r, s).revision = r.revision + 1 /\ LaneStatusChanged(r, s).status = s
    BY <1>3, <2>1, <2>2, EventShape, EventStatus DEF Stages
  <2>4. LaneInv(LaneStatusChanged(r, s))
    BY <2>1, <2>2, <2>3, RoomForEvent, CurrentLane, StatusEvents
  <2>5. QED
    BY <1>2, <2>1, <2>2, <2>3, <2>4
<1>10. CASE Annotate(c)
  <2>1. Current(c) /\ Append(c, Event(r)) /\ UNCHANGED held
    BY <1>10 DEF Annotate
  <2>2. Event(r).revision = r.revision + 1 /\ Event(r).status = r.status
    BY <1>3, <2>1, EventShape, EventStatus DEF Stages
  <2>3. LaneInv(Event(r)) /\ r.status # "absent"
    BY <2>1, <2>2, RoomForEvent, CurrentLane, StatusEvents
  <2>4. QED
    BY <1>2, <2>1, <2>2, <2>3
<1>11. CASE StartRepairCycle(c)
  <2>1. Current(c) /\ Append(c, RepairCycleStarted(r)) /\ UNCHANGED held /\ r.repairs < MaxRepairs
    BY <1>11, CurrentLane DEF StartRepairCycle
  <2>2. RepairCycleStarted(r).revision = r.revision + 1 /\ RepairCycleStarted(r).status = "runnable"
    BY <1>3, <2>1, EventShape, EventStatus DEF Stages
  <2>3. LaneInv(RepairCycleStarted(r))
    BY <2>1, <2>2, RoomForEvent, CurrentLane, RepairedLane
  <2>4. QED
    BY <1>2, <2>1, <2>2, <2>3
<1>12. CASE Escalate(c)
  <2>1. Current(c) /\ Append(c, LaneEscalated(r)) /\ UNCHANGED held /\ r.repairs >= MaxRepairs
    BY <1>12, CurrentLane DEF Escalate
  <2>2. LaneEscalated(r).revision = r.revision + 1 /\ LaneEscalated(r).status = r.status
    BY <1>3, <2>1, EventShape, EventStatus DEF Stages
  <2>3. LaneInv(LaneEscalated(r)) /\ r.status # "absent"
    BY <2>1, <2>2, RoomForEvent, CurrentLane, RepairedLane
  <2>4. QED
    BY <1>2, <2>1, <2>2, <2>3
<1>13. QED
  BY <1>1, <1>4, <1>5, <1>6, <1>7, <1>8, <1>9, <1>10, <1>11, <1>12 DEF CallerStep

-----------------------------------------------------------------------------
(* The other steps. *)

\* A step that leaves the views alone keeps them true, if each lane stays as
\* it is for them or gets an event.
LEMMA ViewsGrowOld ==
  ASSUME BaseInv, GraphTypeOK', lane' \in [Lanes -> Lane], UNCHANGED <<view, held>>,
         \A l \in Lanes :
           /\ LaneInv(lane'[l])
           /\ \/ /\ lane'[l].revision = lane[l].revision
                 /\ lane'[l].status = lane[l].status
                 /\ lane'[l].repairs = lane[l].repairs
              \/ lane'[l].revision = lane[l].revision + 1 /\ lane'[l].status # "absent"
  PROVE  BaseInv'
<1>1. TypeOK'
  BY DEF BaseInv, TypeOK
<1>2. ASSUME NEW c \in Callers PROVE ViewInv(c)'
  <2>1. view'[c] = view[c] /\ ViewInv(c) /\ view[c].id \in Lanes \cup {NoLane}
    BY DEF BaseInv, TypeOK, View
  <2>2. SUFFICES ASSUME view[c].id \in Lanes PROVE ViewInv(c)'
    BY <2>1 DEF ViewInv
  <2>3. /\ view[c].revision \in Nat /\ lane[view[c].id].revision \in Nat
        /\ view[c].revision <= lane[view[c].id].revision
    BY <2>1, <2>2, LaneAssumption DEF BaseInv, TypeOK, View, Lane, Revisions, ViewInv
  <2>4. QED
    BY <2>1, <2>2, <2>3 DEF ViewInv
<1>3. QED
  BY <1>1, <1>2 DEF BaseInv

\* A lane is created once: before, nobody has seen it.
LEMMA CreateKeepsBase ==
  ASSUME BaseInv, NEW l \in Lanes, NEW p \in Projects, NEW t \in Tasks \cup {NoTask},
         CreateLane(l, p, t)
  PROVE  BaseInv'
<1> DEFINE q == Event(NewLane("waiting", p, t))
<1>1. LaneInv(q) /\ q \in Lane
  BY CreatedLane DEF LaneInv
<1>2. q.revision = 1 /\ q.status = "waiting"
  BY DEF Event, NewLane
<1>3. \A k \in Lanes : lane'[k] = IF k = l THEN q ELSE lane[k]
  BY DEF CreateLane, BaseInv, TypeOK
<1>4. lane[l].revision = 0
  BY DEF CreateLane, BaseInv, LaneInv
<1>5. lane' \in [Lanes -> Lane] /\ GraphTypeOK'
  BY <1>1 DEF CreateLane, BaseInv, TypeOK, graphVars, GraphTypeOK
<1>6. ASSUME NEW k \in Lanes
      PROVE  /\ LaneInv(lane'[k])
             /\ \/ /\ lane'[k].revision = lane[k].revision
                   /\ lane'[k].status = lane[k].status
                   /\ lane'[k].repairs = lane[k].repairs
                \/ lane'[k].revision = lane[k].revision + 1 /\ lane'[k].status # "absent"
  BY <1>1, <1>2, <1>3, <1>4 DEF BaseInv
<1>7. QED
  BY <1>5, <1>6, ViewsGrowOld DEF CreateLane

\* SyncFrontier gives a lane no event, or opens or blocks it.
LEMMA SyncedLane ==
  ASSUME BaseInv, NEW l \in Lanes, NEW t \in Tasks, NEW resolved,
         lane[l].status # "absent", Synced(lane[l], t, resolved).revision <= MaxRevision
  PROVE  LET q == Synced(lane[l], t, resolved)
         IN  \/ q = lane[l]
             \/ /\ LaneInv(q)
                /\ q.revision = lane[l].revision + 1
                /\ lane[l].status \in Idle
                /\ q.status \in {"runnable", "blocked"}
                /\ q.status = "runnable" => Blockers(t, resolved) = {}
<1> DEFINE r == lane[l]
           blockers == {<<e, edge[e].to>> : e \in Blockers(t, resolved)}
<1>1. r \in Lane /\ LaneInv(r) /\ r.revision \in Nat /\ MaxRevision \in Nat
  BY LaneAssumption DEF BaseInv, LaneInv, Lane, Revisions
<1>2. blockers \in SUBSET (EdgeIds \X Tasks)
  BY ActiveEdge DEF BaseInv, TypeOK, Blockers, Active
<1>3. LaneUnblocked(r).revision = r.revision + 1 /\ LaneUnblocked(r).status = "runnable"
  BY <1>1 DEF LaneUnblocked, Event, Lane
<1>4. LaneBlocked(r, blockers).revision = r.revision + 1 /\ LaneBlocked(r, blockers).status = "blocked"
  BY <1>1 DEF LaneBlocked, Event, Lane
<1>5. CASE r.status \notin Idle \/ t \in resolved
  BY <1>5 DEF Synced
<1>6. CASE ~(r.status \notin Idle \/ t \in resolved) /\ blockers = {} /\ r.status # "runnable"
  <2>1. Synced(r, t, resolved) = LaneUnblocked(r) /\ Blockers(t, resolved) = {}
    BY <1>6 DEF Synced
  <2>2. r.revision < MaxRevision
    BY <1>1, <1>3, <2>1
  <2>3. QED
    BY <1>1, <1>3, <1>6, <2>1, <2>2, StatusEvents
<1>7. CASE /\ ~(r.status \notin Idle \/ t \in resolved)
           /\ blockers # {} /\ ~SameBlockers(r.blockedBy, blockers)
  <2>1. Synced(r, t, resolved) = LaneBlocked(r, blockers)
    BY <1>7 DEF Synced
  <2>2. r.revision < MaxRevision
    BY <1>1, <1>4, <2>1
  <2>3. QED
    BY <1>1, <1>2, <1>4, <1>7, <2>1, <2>2, StatusEvents
<1>8. CASE /\ ~(r.status \notin Idle \/ t \in resolved)
           /\ ~(blockers = {} /\ r.status # "runnable")
           /\ ~(blockers # {} /\ ~SameBlockers(r.blockedBy, blockers))
  BY <1>8 DEF Synced
<1>9. QED
  BY <1>5, <1>6, <1>7, <1>8

\* What SyncFrontier does to each lane.
LEMMA SyncShape ==
  ASSUME BaseInv, NEW o \in Orchestrations, SyncFrontier(o), NEW l \in Lanes
  PROVE  \/ lane'[l] = lane[l]
         \/ /\ LaneInv(lane'[l])
            /\ lane'[l].revision = lane[l].revision + 1
            /\ lane'[l].status \in {"runnable", "blocked"}
            /\ lane'[l].status = "runnable" =>
                 \E pick \in LanePicks(o) : Blockers(lane[l].task, Resolved(pick)) = {}
<1>1. PICK pick \in LanePicks(o) :
        /\ lane' = [k \in Lanes |-> IF \E t \in Tasks : pick[t] = k
                                      THEN Synced(lane[k], lane[k].task, Resolved(pick))
                                      ELSE lane[k]]
        /\ \A k \in Lanes : lane'[k].revision <= MaxRevision
  BY DEF SyncFrontier
<1>2. CASE \E t \in Tasks : pick[t] = l
  <2>1. PICK t \in Tasks : pick[t] = l
    BY <1>2
  <2>2. lane[l].status # "absent" /\ lane[l].task = t
    BY <2>1, LaneAssumption DEF LanePicks
  <2>3. lane'[l] = Synced(lane[l], lane[l].task, Resolved(pick))
    BY <1>1, <1>2
  <2>4. Synced(lane[l], t, Resolved(pick)).revision <= MaxRevision
    BY <1>1, <2>2, <2>3
  <2>5. \/ lane'[l] = lane[l]
        \/ /\ LaneInv(lane'[l])
           /\ lane'[l].revision = lane[l].revision + 1
           /\ lane'[l].status \in {"runnable", "blocked"}
           /\ lane'[l].status = "runnable" => Blockers(t, Resolved(pick)) = {}
    BY <2>2, <2>3, <2>4, SyncedLane
  <2>6. QED
    BY <2>2, <2>5
<1>3. CASE ~\E t \in Tasks : pick[t] = l
  BY <1>1, <1>3
<1>4. QED
  BY <1>2, <1>3

\* SyncFrontier keeps the invariant of the lanes and the views.
LEMMA SyncKeepsBase ==
  ASSUME BaseInv, NEW o \in Orchestrations, SyncFrontier(o)
  PROVE  BaseInv'
<1>1. GraphTypeOK' /\ UNCHANGED <<view, held>>
  BY DEF SyncFrontier, BaseInv, TypeOK, graphVars, GraphTypeOK
<1>2. ASSUME NEW l \in Lanes PROVE LaneInv(lane'[l]) /\ lane'[l] \in Lane
  BY <1>2, SyncShape DEF BaseInv, LaneInv
<1>3. lane' \in [Lanes -> Lane]
  BY <1>2 DEF SyncFrontier
<1>4. QED
  BY <1>1, <1>2, <1>3, SyncShape, ViewsGrowOld

\* ExpireLeases returns each lane whose lease ran out.
LEMMA ExpireShape ==
  ASSUME BaseInv, NEW o \in Orchestrations, ExpireLeases(o), NEW l \in Lanes
  PROVE  \/ lane'[l] = lane[l]
         \/ /\ LaneInv(lane'[l])
            /\ lane'[l].revision = lane[l].revision + 1
            /\ lane'[l].status = "runnable"
            /\ lane[l].status \in Mutating
<1>1. CASE lane'[l] = lane[l]
  BY <1>1
<1>2. CASE lane'[l] # lane[l]
  <2>1. /\ lane'[l] = LeaseReturned(lane[l])
        /\ lane[l].status \in Mutating /\ lane[l].revision < MaxRevision
    BY <1>2 DEF ExpireLeases
  <2>2. lane[l] \in Lane /\ LaneInv(lane[l]) /\ lane[l].status # "absent"
    BY <2>1 DEF BaseInv, LaneInv, Mutating
  <2>3. LeaseReturned(lane[l]).revision = lane[l].revision + 1 /\ LeaseReturned(lane[l]).status = "runnable"
    BY <2>2 DEF LeaseReturned, Event, Lane
  <2>4. QED
    BY <2>1, <2>2, <2>3, StatusEvents
<1>3. QED
  BY <1>1, <1>2

\* ExpireLeases keeps the invariant of the lanes and the views.
LEMMA ExpireKeepsBase ==
  ASSUME BaseInv, NEW o \in Orchestrations, ExpireLeases(o)
  PROVE  BaseInv'
<1>1. GraphTypeOK' /\ UNCHANGED <<view, held>>
  BY DEF ExpireLeases, BaseInv, TypeOK, graphVars, GraphTypeOK
<1>2. ASSUME NEW l \in Lanes PROVE LaneInv(lane'[l]) /\ lane'[l] \in Lane
  BY <1>2, ExpireShape DEF BaseInv, LaneInv
<1>3. lane' \in [Lanes -> Lane]
  BY <1>2 DEF ExpireLeases
<1>4. QED
  BY <1>1, <1>2, <1>3, ExpireShape, ViewsGrowOld

\* The end of a lease changes nothing but the lateness of its lane.
LEMMA RunsOutShape ==
  ASSUME BaseInv, NEW l \in Lanes, LeaseRunsOut(l), NEW k \in Lanes
  PROVE  /\ LaneInv(lane'[k])
         /\ lane'[k].revision = lane[k].revision
         /\ lane'[k].status = lane[k].status
         /\ lane'[k].project = lane[k].project
         /\ lane'[k].repairs = lane[k].repairs
<1> DEFINE r == lane[k]
           q == [r EXCEPT !.late = TRUE]
<1>1. lane'[k] = r \/ lane'[k] = q
  BY DEF LeaseRunsOut, BaseInv, TypeOK
<1>2. r \in Lane /\ LaneInv(r)
  BY DEF BaseInv, LaneInv
<1>3. /\ q \in Lane
      /\ q.revision = r.revision /\ q.status = r.status /\ q.project = r.project
      /\ q.repairs = r.repairs /\ q.records = r.records /\ q.escalated = r.escalated
  BY <1>2 DEF Lane
<1>4. LaneInv(q)
  BY <1>2, <1>3
     DEF LaneInv, BudgetKept, RecordsAreOrdered, RecordsGrowInOrder, ReviewComplete
<1>5. QED
  BY <1>1, <1>2, <1>3, <1>4

\* So it keeps the invariant of the lanes and the views.
LEMMA RunsOutKeepsBase ==
  ASSUME BaseInv, NEW l \in Lanes, LeaseRunsOut(l)
  PROVE  BaseInv'
<1>1. GraphTypeOK' /\ UNCHANGED <<view, held>>
  BY DEF LeaseRunsOut, BaseInv, TypeOK, graphVars, GraphTypeOK
<1>2. \A k \in Lanes : lane'[k] \in Lane
  BY RunsOutShape DEF LaneInv
<1>3. lane' \in [Lanes -> Lane]
  BY <1>2 DEF LeaseRunsOut, BaseInv, TypeOK
<1>4. QED
  BY <1>1, <1>3, RunsOutShape, ViewsGrowOld

-----------------------------------------------------------------------------
(* Concurrency. *)

\* There are finitely many active projects.
LEMMA ActiveFinite == IsFiniteSet(ActiveProjects) /\ Cardinality(ActiveProjects) \in Nat
<1> DEFINE Working == {k \in Lanes : lane[k].status \in Mutating}
           projectOf == [k \in Working |-> lane[k].project]
<1>1. IsFiniteSet(Working)
  BY FS_Subset, LaneAssumption
<1>2. projectOf \in Surjection(Working, ActiveProjects)
  BY DEF Surjection, ActiveProjects
<1>3. IsFiniteSet(ActiveProjects)
  <2> HIDE DEF Working, projectOf
  <2>1. QED
    BY <1>1, <1>2, FS_Surjection
<1>4. QED
  BY <1>3, FS_CardinalityType

\* A step that lets no lane begin to work keeps both limits.
LEMMA NoNewWork ==
  ASSUME OneMutatingLane, GlobalCap,
         \A l \in Lanes : lane'[l].status \in Mutating =>
           lane[l].status \in Mutating /\ lane'[l].project = lane[l].project
  PROVE  OneMutatingLane' /\ GlobalCap'
<1>1. OneMutatingLane'
  BY DEF OneMutatingLane
<1>2. ActiveProjects' \subseteq ActiveProjects
  BY DEF ActiveProjects
<1>3. /\ Cardinality(ActiveProjects') <= Cardinality(ActiveProjects)
      /\ Cardinality(ActiveProjects') \in Nat
  BY <1>2, ActiveFinite, FS_Subset, FS_CardinalityType
<1>4. QED
  BY <1>1, <1>3, ActiveFinite, LaneAssumption DEF GlobalCap

\* GrantLease looks before it grants.
LEMMA GrantKeepsLimits ==
  ASSUME BaseInv, OneMutatingLane, GlobalCap, NEW c \in Callers, GrantLease(c)
  PROVE  OneMutatingLane' /\ GlobalCap'
<1> DEFINE l == view[c].id
           p == lane[l].project
<1>1. /\ Current(c) /\ l \in Lanes /\ lane[l] \in Lane
      /\ ~ProjectBusy(l) /\ ~ProjectCapReached(p)
  BY CurrentLane DEF GrantLease, LaneInv
<1>2. LeaseGranted(lane[l]).project = p /\ LeaseGranted(lane[l]).status = "leased"
  BY <1>1 DEF LeaseGranted, Event, Lane
<1>3. \A k \in Lanes : lane'[k] = IF k = l THEN LeaseGranted(lane[l]) ELSE lane[k]
  BY <1>1 DEF GrantLease, Append, BaseInv, TypeOK
<1>4. OneMutatingLane'
  BY <1>1, <1>2, <1>3 DEF OneMutatingLane, ProjectBusy
<1>5. ActiveProjects' \subseteq ActiveProjects \cup {p}
  BY <1>2, <1>3 DEF ActiveProjects
<1>6. Cardinality(ActiveProjects \cup {p}) <= MaxProjects
  <2>1. CASE p \in ActiveProjects
    <3>1. ActiveProjects \cup {p} = ActiveProjects
      BY <2>1
    <3>2. QED
      BY <3>1 DEF GlobalCap
  <2>2. CASE p \notin ActiveProjects
    <3>1. Cardinality(ActiveProjects) < MaxProjects
      BY <1>1, <2>2, ActiveFinite, LaneAssumption DEF ProjectCapReached
    <3>2. Cardinality(ActiveProjects \cup {p}) = Cardinality(ActiveProjects) + 1
      BY <2>2, ActiveFinite, FS_AddElement
    <3>3. QED
      BY <3>1, <3>2, ActiveFinite, LaneAssumption
  <2>3. QED
    BY <2>1, <2>2
<1>7. /\ IsFiniteSet(ActiveProjects \cup {p})
      /\ Cardinality(ActiveProjects \cup {p}) \in Nat
  BY ActiveFinite, FS_AddElement, FS_CardinalityType
<1>8. /\ Cardinality(ActiveProjects') <= Cardinality(ActiveProjects \cup {p})
      /\ Cardinality(ActiveProjects') \in Nat
  BY <1>5, <1>7, FS_Subset, FS_CardinalityType
<1>9. QED
  BY <1>4, <1>6, <1>7, <1>8, LaneAssumption DEF GlobalCap

\* The lane a caller acts on changes status only the way its event says, and
\* nothing else changes at all.
LEMMA CallerShape ==
  ASSUME BaseInv, NEW c \in Callers, CallerStep(c)
  PROVE  /\ UNCHANGED graphVars
         /\ \A l \in Lanes : lane'[l] = lane[l] \/ (Current(c) /\ l = view[c].id)
         /\ lane' = lane \/
            LET l == view[c].id
            IN  /\ l \in Lanes
                /\ lane'[l].project = lane[l].project
                /\ \/ GrantLease(c) /\ lane'[l].status = "leased"
                   \/ lane[l].status \in Mutating /\ lane'[l].status = "running"
                   \/ CompleteLease(c)
                   \/ lane[l].status \in Mutating /\ lane'[l].status = "runnable"
                   \/ lane[l].status \in {"review", "running"} /\ lane'[l].status = "runnable"
                   \/ lane'[l].status \in Concluded
                   \/ lane'[l].status = lane[l].status
<1> DEFINE l == view[c].id
           r == lane[l]
<1>1. ASSUME NEW k \in Lanes, GetLane(c, k) PROVE lane' = lane /\ UNCHANGED graphVars
  BY <1>1 DEF GetLane
<1>2. ASSUME Current(c), NEW q, Append(c, q)
      PROVE  /\ UNCHANGED graphVars
             /\ l \in Lanes /\ r \in Lane /\ lane'[l] = q
             /\ \A k \in Lanes : lane'[k] = lane[k] \/ (Current(c) /\ k = view[c].id)
  BY <1>2, CurrentLane DEF Append, BaseInv, TypeOK, LaneInv
<1>3. ASSUME Current(c) PROVE r \in Lane /\ r.status = view[c].status
  BY <1>3, CurrentLane DEF LaneInv
<1>4. CASE GrantLease(c)
  <2>1. Current(c) /\ Append(c, LeaseGranted(r))
    BY <1>4 DEF GrantLease
  <2>2. LeaseGranted(r).project = r.project /\ LeaseGranted(r).status = "leased"
    BY <1>3, <2>1 DEF LeaseGranted, Event, Lane
  <2>3. QED
    BY <1>2, <1>4, <2>1, <2>2
<1>5. CASE Heartbeat(c)
  <2>1. Current(c) /\ Append(c, LeaseHeartbeat(r)) /\ r.status \in Mutating
    BY <1>5 DEF Heartbeat, HoldsLease
  <2>2. LeaseHeartbeat(r).project = r.project /\ LeaseHeartbeat(r).status = "running"
    BY <1>3, <2>1 DEF LeaseHeartbeat, Event, Lane
  <2>3. QED
    BY <1>2, <2>1, <2>2
<1>6. CASE CompleteLease(c)
  <2>1. Current(c) /\ Append(c, LeaseCompleted(r))
    BY <1>6 DEF CompleteLease, HoldsLease
  <2>2. LeaseCompleted(r).project = r.project
    BY <1>3, <2>1 DEF LeaseCompleted, Event, Lane
  <2>3. QED
    BY <1>2, <1>6, <2>1, <2>2
<1>7. CASE RejectLease(c)
  <2>1. Current(c) /\ Append(c, LeaseReturned(r)) /\ r.status \in Mutating
    BY <1>7 DEF RejectLease, HoldsLease
  <2>2. LeaseReturned(r).project = r.project /\ LeaseReturned(r).status = "runnable"
    BY <1>3, <2>1 DEF LeaseReturned, Event, Lane
  <2>3. QED
    BY <1>2, <2>1, <2>2
<1>8. ASSUME NEW stage \in Stages, RecordRoleStage(c, stage)
      PROVE  /\ Current(c) /\ Append(c, StageSubmitted(r, stage))
             /\ StageSubmitted(r, stage).project = r.project
             /\ StageSubmitted(r, stage).status = r.status
  BY <1>3, <1>8, EventShape, EventStatus DEF RecordRoleStage, HoldsLease, LaneStatuses
<1>9. ASSUME NEW s \in Concluded, UpdateLaneStatus(c, s)
      PROVE  /\ Current(c) /\ Append(c, LaneStatusChanged(r, s))
             /\ LaneStatusChanged(r, s).project = r.project
             /\ LaneStatusChanged(r, s).status \in Concluded
  BY <1>3, <1>9 DEF UpdateLaneStatus, LaneStatusChanged, Event, Lane
<1>10. CASE Annotate(c)
  <2>1. Current(c) /\ Append(c, Event(r))
    BY <1>10 DEF Annotate
  <2>2. Event(r).project = r.project /\ Event(r).status = r.status
    BY <1>3, <2>1 DEF Event, Lane
  <2>3. QED
    BY <1>2, <2>1, <2>2
<1>11. CASE StartRepairCycle(c)
  <2>1. Current(c) /\ Append(c, RepairCycleStarted(r)) /\ r.status \in {"review", "running"}
    BY <1>3, <1>11 DEF StartRepairCycle
  <2>2. RepairCycleStarted(r).project = r.project /\ RepairCycleStarted(r).status = "runnable"
    BY <1>3, <2>1 DEF RepairCycleStarted, Event, Lane
  <2>3. QED
    BY <1>2, <2>1, <2>2
<1>12. CASE Escalate(c)
  <2>1. Current(c) /\ Append(c, LaneEscalated(r))
    BY <1>12 DEF Escalate
  <2>2. LaneEscalated(r).project = r.project /\ LaneEscalated(r).status = r.status
    BY <1>3, <2>1 DEF LaneEscalated, Event, Lane
  <2>3. QED
    BY <1>2, <2>1, <2>2
<1>13. CASE \E stage \in Stages : RecordRoleStage(c, stage)
  BY <1>2, <1>8, <1>13
<1>14. CASE \E s \in Concluded : UpdateLaneStatus(c, s)
  BY <1>2, <1>9, <1>14
<1>15. CASE \E k \in Lanes : GetLane(c, k)
  BY <1>1, <1>15
<1>16. QED
  BY <1>4, <1>5, <1>6, <1>7, <1>10, <1>11, <1>12, <1>13, <1>14, <1>15 DEF CallerStep

-----------------------------------------------------------------------------
(* All steps. *)

\* The initial states satisfy the invariant.
LEMMA InitInv == Init => SchedulerInv
<1> SUFFICES ASSUME Init PROVE SchedulerInv
  OBVIOUS
<1>1. 0 \in Revisions /\ MaxRepairs \in Nat /\ MaxProjects \in Nat
  BY LaneAssumption DEF Revisions
<1>2. \A l \in Lanes : lane[l] = NewLane("absent", NoProject, NoTask)
  BY DEF Init
<1>3. NewLane("absent", NoProject, NoTask) \in Lane
  BY <1>1 DEF NewLane, Lane, LaneStatuses
<1>4. LaneInv(NewLane("absent", NoProject, NoTask))
  BY <1>1, <1>3
     DEF NewLane, LaneInv, BudgetKept, RecordsAreOrdered, RecordsGrowInOrder, ReviewComplete
<1>5. lane \in [Lanes -> Lane] /\ GraphTypeOK
  BY <1>3, GraphInitInv DEF Init, GraphInv
<1>6. TypeOK
  BY <1>1, <1>5 DEF Init, TypeOK, View, LaneStatuses
<1>7. \A c \in Callers : ViewInv(c)
  BY DEF Init, ViewInv
<1>8. \A l \in Lanes : lane[l].status \notin Mutating
  BY <1>2 DEF NewLane, Mutating
<1>9. OneMutatingLane
  BY <1>8 DEF OneMutatingLane
<1>10. GlobalCap
  <2>1. ActiveProjects = {}
    BY <1>8 DEF ActiveProjects
  <2>2. QED
    BY <1>1, <2>1, FS_EmptySet DEF GlobalCap
<1>11. QED
  BY <1>2, <1>4, <1>6, <1>7, <1>9, <1>10 DEF SchedulerInv

\* Every step keeps the invariant.
LEMMA StepInv == SchedulerInv /\ [Next]_vars => SchedulerInv'
<1> SUFFICES ASSUME SchedulerInv, [Next]_vars PROVE SchedulerInv'
  OBVIOUS
<1>1. BaseInv /\ OneMutatingLane /\ GlobalCap
  BY DEF SchedulerInv, BaseInv
<1>2. ASSUME BaseInv', OneMutatingLane', GlobalCap' PROVE SchedulerInv'
  BY <1>2 DEF SchedulerInv, BaseInv
<1>3. CASE UNCHANGED vars
  <2>1. BaseInv'
    BY <1>1, <1>3 DEF vars, laneVars, graphVars, BaseInv, TypeOK, GraphTypeOK, ViewInv
  <2>2. OneMutatingLane' /\ GlobalCap'
    BY <1>1, <1>3, NoNewWork DEF vars, laneVars
  <2>3. QED
    BY <1>2, <2>1, <2>2
<1>4. CASE GraphNext /\ UNCHANGED laneVars
  <2>1. GraphTypeOK'
    BY <1>1, <1>4, GraphTypeStep DEF BaseInv, TypeOK
  <2>2. BaseInv'
    BY <1>1, <1>4, <2>1 DEF laneVars, BaseInv, TypeOK, ViewInv
  <2>3. OneMutatingLane' /\ GlobalCap'
    BY <1>1, <1>4, NoNewWork DEF laneVars
  <2>4. QED
    BY <1>2, <2>2, <2>3
<1>5. ASSUME NEW l \in Lanes, NEW p \in Projects, NEW t \in Tasks \cup {NoTask}, CreateLane(l, p, t)
      PROVE  SchedulerInv'
  <2>1. \A k \in Lanes : lane'[k] = IF k = l THEN Event(NewLane("waiting", p, t)) ELSE lane[k]
    BY <1>1, <1>5 DEF CreateLane, BaseInv, TypeOK
  <2>2. Event(NewLane("waiting", p, t)).status \notin Mutating
    BY DEF Event, NewLane, Mutating
  <2>3. OneMutatingLane' /\ GlobalCap'
    BY <1>1, <2>1, <2>2, NoNewWork
  <2>4. QED
    BY <1>1, <1>2, <1>5, <2>3, CreateKeepsBase
<1>6. ASSUME NEW o \in Orchestrations, SyncFrontier(o) PROVE SchedulerInv'
  <2>1. \A l \in Lanes : lane'[l] = lane[l] \/ lane'[l].status \notin Mutating
    BY <1>1, <1>6, SyncShape DEF Mutating
  <2>2. OneMutatingLane' /\ GlobalCap'
    BY <1>1, <2>1, NoNewWork
  <2>3. QED
    BY <1>1, <1>2, <1>6, <2>2, SyncKeepsBase
<1>7. ASSUME NEW o \in Orchestrations, ExpireLeases(o) PROVE SchedulerInv'
  <2>1. \A l \in Lanes : lane'[l] = lane[l] \/ lane'[l].status \notin Mutating
    BY <1>1, <1>7, ExpireShape DEF Mutating
  <2>2. OneMutatingLane' /\ GlobalCap'
    BY <1>1, <2>1, NoNewWork
  <2>3. QED
    BY <1>1, <1>2, <1>7, <2>2, ExpireKeepsBase
<1>8. ASSUME NEW l \in Lanes, LeaseRunsOut(l) PROVE SchedulerInv'
  <2>1. OneMutatingLane' /\ GlobalCap'
    BY <1>1, <1>8, RunsOutShape, NoNewWork
  <2>2. QED
    BY <1>1, <1>2, <1>8, <2>1, RunsOutKeepsBase
<1>9. ASSUME NEW c \in Callers, CallerStep(c) PROVE SchedulerInv'
  <2>1. CASE GrantLease(c)
    BY <1>1, <1>2, <1>9, <2>1, CallerKeepsBase, GrantKeepsLimits
  <2>2. CASE ~GrantLease(c)
    <3>1. ASSUME NEW l \in Lanes, lane'[l].status \in Mutating
          PROVE  lane[l].status \in Mutating /\ lane'[l].project = lane[l].project
      <4>1. CASE lane'[l] = lane[l]
        BY <3>1, <4>1
      <4>2. CASE lane'[l] # lane[l]
        <5>1. Current(c) /\ l = view[c].id /\ lane' # lane
          BY <1>1, <1>9, <4>2, CallerShape
        <5>2. ~CompleteLease(c)
          <6>1. SUFFICES ASSUME CompleteLease(c) PROVE lane'[l].status \notin Mutating
            BY <3>1
          <6>2. lane[l] \in Lane
            BY <1>1 DEF BaseInv, TypeOK
          <6>3. lane'[l] = LeaseCompleted(lane[l])
            BY <1>1, <5>1, <6>1 DEF CompleteLease, Append, BaseInv, TypeOK
          <6>4. QED
            BY <6>2, <6>3 DEF LeaseCompleted, Event, Lane, Mutating
        <5>3. QED
          BY <1>1, <1>9, <2>2, <3>1, <5>1, <5>2, CallerShape DEF Mutating, Concluded
      <4>3. QED
        BY <4>1, <4>2
    <3>2. QED
      BY <1>1, <1>2, <1>9, <3>1, CallerKeepsBase, NoNewWork
  <2>3. QED
    BY <2>1, <2>2
<1>10. QED
  BY <1>3, <1>4, <1>5, <1>6, <1>7, <1>8, <1>9 DEF Next, LaneNext

-----------------------------------------------------------------------------
(* Theorems. *)

\* The invariant holds in every behaviour.
THEOREM SchedulerInvariance == Spec => []SchedulerInv
<1>1. QED
  BY InitInv, StepInv, PTL DEF Spec

\* The types of the variables, through every operation on lanes and tasks.
THEOREM TypeCorrect == Spec => []TypeOK
<1>1. SchedulerInv => TypeOK
  BY DEF SchedulerInv
<1>2. QED
  BY <1>1, SchedulerInvariance, PTL

\* GrantLease never lets two lanes of a project work at once.
THEOREM MutualExclusion == Spec => []OneMutatingLane
<1>1. SchedulerInv => OneMutatingLane
  BY DEF SchedulerInv
<1>2. QED
  BY <1>1, SchedulerInvariance, PTL

\* GrantLease never lets more projects work than the cap allows.
THEOREM CapRespected == Spec => []GlobalCap
<1>1. SchedulerInv => GlobalCap
  BY DEF SchedulerInv
<1>2. QED
  BY <1>1, SchedulerInvariance, PTL

\* The expected revision is enough for StartRepairCycle to trust what it read
\* before its transaction.
THEOREM RevisionSuffices == Spec => []RevisionPinsState
<1>1. SchedulerInv => RevisionPinsState
  BY CurrentLane DEF SchedulerInv, BaseInv, RevisionPinsState
<1>2. QED
  BY <1>1, SchedulerInvariance, PTL

\* StartRepairCycle keeps the repair budget.
THEOREM BudgetRespected == Spec => []RepairBudget
<1>1. SchedulerInv => RepairBudget
  BY DEF SchedulerInv, LaneInv, BudgetKept, RepairBudget
<1>2. QED
  BY <1>1, SchedulerInvariance, PTL

\* RecordRoleStage keeps the records of a lane in order.
THEOREM StagesOrdered == Spec => []StagesInOrder
<1>1. SchedulerInv => StagesInOrder
  BY DEF SchedulerInv, LaneInv, RecordsAreOrdered, StagesInOrder
<1>2. QED
  BY <1>1, SchedulerInvariance, PTL

\* CompleteLease's look at the last required stage is enough.
THEOREM ReviewsComplete == Spec => []EngagedReviewIsComplete
<1>1. SchedulerInv => EngagedReviewIsComplete
  BY DEF SchedulerInv, LaneInv, ReviewComplete, EngagedReviewIsComplete
<1>2. QED
  BY <1>1, SchedulerInvariance, PTL

-----------------------------------------------------------------------------
(* What steps do to the status of a lane. *)

\* Of the steps that are not a caller's, none moves a working lane to review.
LEMMA OnlyCallersReview ==
  ASSUME SchedulerInv, Next, NEW l \in Lanes,
         lane[l].status # "review", lane'[l].status = "review"
  PROVE  \E c \in Callers : CallerStep(c)
<1>1. BaseInv /\ lane'[l] # lane[l]
  BY DEF SchedulerInv, BaseInv
<1>2. ASSUME GraphNext /\ UNCHANGED laneVars PROVE FALSE
  BY <1>1, <1>2 DEF laneVars
<1>3. ASSUME NEW k \in Lanes, NEW p \in Projects, NEW t \in Tasks \cup {NoTask}, CreateLane(k, p, t)
      PROVE  FALSE
  <2>1. lane'[l] = Event(NewLane("waiting", p, t))
    BY <1>1, <1>3 DEF CreateLane, BaseInv, TypeOK
  <2>2. QED
    BY <2>1 DEF Event, NewLane
<1>4. ASSUME NEW o \in Orchestrations, SyncFrontier(o) PROVE FALSE
  BY <1>1, <1>4, SyncShape
<1>5. ASSUME NEW o \in Orchestrations, ExpireLeases(o) PROVE FALSE
  BY <1>1, <1>5, ExpireShape
<1>6. ASSUME NEW k \in Lanes, LeaseRunsOut(k) PROVE FALSE
  BY <1>1, <1>6, RunsOutShape
<1>7. QED
  BY <1>2, <1>3, <1>4, <1>5, <1>6 DEF Next, LaneNext

\* Of the steps that are not SyncFrontier, none opens a lane that waits.
LEMMA OnlySyncOpens ==
  ASSUME SchedulerInv, Next, NEW l \in Lanes,
         lane[l].status \in {"waiting", "blocked"}, lane'[l].status = "runnable"
  PROVE  \E o \in Orchestrations : SyncFrontier(o)
<1>1. BaseInv /\ lane'[l] # lane[l] /\ lane[l].status \notin Mutating
  BY DEF SchedulerInv, BaseInv, Mutating
<1>2. ASSUME GraphNext /\ UNCHANGED laneVars PROVE FALSE
  BY <1>1, <1>2 DEF laneVars
<1>3. ASSUME NEW k \in Lanes, NEW p \in Projects, NEW t \in Tasks \cup {NoTask}, CreateLane(k, p, t)
      PROVE  FALSE
  <2>1. lane'[l] = Event(NewLane("waiting", p, t))
    BY <1>1, <1>3 DEF CreateLane, BaseInv, TypeOK
  <2>2. QED
    BY <2>1 DEF Event, NewLane
<1>4. ASSUME NEW o \in Orchestrations, ExpireLeases(o) PROVE FALSE
  BY <1>1, <1>4, ExpireShape
<1>5. ASSUME NEW k \in Lanes, LeaseRunsOut(k) PROVE FALSE
  BY <1>1, <1>5, RunsOutShape
<1>6. ASSUME NEW c \in Callers, CallerStep(c) PROVE FALSE
  <2>1. Current(c) /\ l = view[c].id /\ lane' # lane
    BY <1>1, <1>6, CallerShape
  <2>2. ~CompleteLease(c)
    BY <1>1, <2>1 DEF CompleteLease, HoldsLease
  <2>3. QED
    BY <1>1, <1>6, <2>1, <2>2, CallerShape DEF Mutating, Concluded
<1>7. QED
  BY <1>2, <1>3, <1>4, <1>5, <1>6 DEF Next, LaneNext

\* CompleteLease, and nothing else, moves a leased lane to review, for the
\* caller that holds its current lease.
THEOREM CompletionFenced == Spec => LeaseFenced
<1>1. ASSUME SchedulerInv, [Next]_vars, NEW l \in Lanes,
             lane[l].status \in Mutating, lane'[l].status = "review"
      PROVE  \E c \in Callers : /\ held[c] = [id |-> l, token |-> lane[l].token]
                                /\ view'[c].id = l
                                /\ view'[c].revision = lane'[l].revision
  <2>1. lane'[l] # lane[l] /\ Next /\ lane[l].status # "review"
    BY <1>1 DEF Mutating, vars, laneVars
  <2>2. PICK c \in Callers : CallerStep(c)
    BY <1>1, <2>1, OnlyCallersReview
  <2>3. BaseInv
    BY <1>1 DEF SchedulerInv, BaseInv
  <2>4. Current(c) /\ l = view[c].id /\ lane' # lane
    BY <2>1, <2>2, <2>3, CallerShape
  <2>5. CompleteLease(c)
    BY <1>1, <2>2, <2>3, <2>4, CallerShape DEF Mutating, Concluded
  <2>6. /\ held[c] = [id |-> l, token |-> lane[l].token]
        /\ Append(c, LeaseCompleted(lane[l]))
    BY <2>4, <2>5 DEF CompleteLease, HoldsLease
  <2>7. lane'[l] = LeaseCompleted(lane[l]) /\ view'[c] = Seen(l, LeaseCompleted(lane[l]))
    BY <2>3, <2>4, <2>6 DEF Append, BaseInv, TypeOK
  <2>8. QED
    BY <2>6, <2>7 DEF Seen
<1>2. SchedulerInv /\ [Next]_vars =>
        [\A l \in Lanes :
           lane[l].status \in Mutating /\ lane'[l].status = "review" =>
             \E c \in Callers : /\ held[c] = [id |-> l, token |-> lane[l].token]
                                /\ view'[c].id = l
                                /\ view'[c].revision = lane'[l].revision]_vars
  BY <1>1
<1>3. QED
  BY <1>2, SchedulerInvariance, PTL DEF Spec, LeaseFenced

\* SyncFrontier opens a lane only behind accepted lanes.
THEOREM OpenedInOrder == Spec => OpenedAfterPredecessors
<1>1. ASSUME SchedulerInv, [Next]_vars, NEW l \in Lanes,
             lane[l].status \in {"waiting", "blocked"}, lane'[l].status = "runnable",
             NEW e \in Active, edge[e].from = lane[l].task, edge[e].blocking
      PROVE  \E k \in Lanes : lane[k].task = edge[e].to /\ lane[k].status = "accepted"
  <2>1. lane'[l] # lane[l] /\ Next /\ BaseInv
    BY <1>1 DEF vars, laneVars, SchedulerInv, BaseInv
  <2>2. PICK o \in Orchestrations : SyncFrontier(o)
    BY <1>1, <2>1, OnlySyncOpens
  <2>3. PICK pick \in LanePicks(o) : Blockers(lane[l].task, Resolved(pick)) = {}
    BY <1>1, <2>1, <2>2, SyncShape
  <2>4. edge[e].to \in Resolved(pick)
    BY <1>1, <2>3 DEF Blockers
  <2>5. /\ edge[e].to \in Tasks
        /\ pick[edge[e].to] # NoLane
        /\ lane[pick[edge[e].to]].status = "accepted"
    BY <2>4 DEF Resolved
  <2>6. pick[edge[e].to] \in Lanes /\ lane[pick[edge[e].to]].task = edge[e].to
    BY <2>5 DEF LanePicks
  <2>7. QED
    BY <2>5, <2>6
<1>2. SchedulerInv /\ [Next]_vars =>
        [\A l \in Lanes :
           lane[l].status \in {"waiting", "blocked"} /\ lane'[l].status = "runnable" =>
             \A e \in Active : edge[e].from = lane[l].task /\ edge[e].blocking =>
               \E k \in Lanes : lane[k].task = edge[e].to /\ lane[k].status = "accepted"]_vars
  BY <1>1
<1>3. QED
  BY <1>2, SchedulerInvariance, PTL DEF Spec, OpenedAfterPredecessors

\* The graph part of the scheduler is the graph: lanes leave it alone.
LEMMA GraphPart == Spec => GraphSpec
<1>1. Init => GraphInit
  BY DEF Init
<1>2. LaneNext => UNCHANGED graphVars
  BY DEF LaneNext, CreateLane, SyncFrontier, ExpireLeases, LeaseRunsOut, CallerStep, GetLane,
         GrantLease, Heartbeat, CompleteLease, RejectLease, RecordRoleStage, UpdateLaneStatus,
         Annotate, StartRepairCycle, Escalate, Append
<1>3. [Next]_vars => [GraphNext]_graphVars
  BY <1>2 DEF Next, vars
<1>4. QED
  BY <1>1, <1>3, PTL DEF Spec, GraphSpec

\* It has the invariant of the graph.
LEMMA GraphInvKept == Spec => []GraphInv
BY GraphPart, GraphInvariance, PTL

\* The lanes leave tasks and edges alone: what is proved of the graph holds of
\* the scheduler, and SyncFrontier never meets a cycle of dependencies.
THEOREM GraphUndisturbed == Spec => []Acyclic
<1>1. GraphInv => Acyclic
  BY DEF GraphInv
<1>2. QED
  BY <1>1, GraphInvKept, PTL

\* The scheduler edits an order of its tasks, and no lane operation does: it
\* is KeepsOrder, with everything else the scheduler does in between.
THEOREM SchedulerKeepsOrder == Spec => ImplementsOrder
BY GraphPart, KeepsOrder, PTL

-----------------------------------------------------------------------------
(* SyncFrontier leaves work to do. *)

\* A task of an orchestration whose dependencies inside it are resolved is on
\* the frontier: its edges lead nowhere else.
LEMMA HomeFrontier ==
  ASSUME GraphInv, NEW o \in Orchestrations, NEW resolved \in SUBSET Tasks,
         NEW u \in Tasks, Home[u] = o, Exists(u), u \notin resolved
  PROVE  \E t \in Tasks : /\ Home[t] = o /\ Exists(t) /\ t \notin resolved
                          /\ Blockers(t, resolved) = {}
<1> DEFINE others == {t \in Tasks : Home[t] # o}
<1>1. Frontier(resolved \cup others) # {}
  BY AcyclicNeverWedged DEF NeverWedged
<1>2. PICK t \in Tasks : /\ Exists(t) /\ t \notin resolved \cup others
                         /\ Blockers(t, resolved \cup others) = {}
  BY <1>1 DEF Frontier
<1>3. Home[t] = o
  BY <1>2
<1>4. Blockers(t, resolved) = {}
  <2>1. SUFFICES ASSUME NEW e \in Blockers(t, resolved) PROVE FALSE
    OBVIOUS
  <2>2. e \in Active /\ edge[e].from = t /\ edge[e].blocking /\ edge[e].to \notin resolved
    BY <2>1 DEF Blockers
  <2>3. Home[edge[e].to] = o
    BY <1>3, <2>2 DEF GraphInv, EndsExist
  <2>4. e \in Blockers(t, resolved \cup others)
    BY <2>2, <2>3 DEF Blockers
  <2>5. QED
    BY <1>2, <2>4
<1>5. QED
  BY <1>2, <1>3, <1>4

\* Once the frontier is synced, the lane of such a task does not wait.
LEMMA SyncedWorks ==
  ASSUME SchedulerInv, GraphInv PROVE NoStandstill
<1> SUFFICES ASSUME NEW o \in Orchestrations, NEW pick \in LanePicks(o), Settled(pick),
                    NEW u \in Tasks, Home[u] = o, Exists(u), u \notin Resolved(pick),
                    \A t \in Tasks : Home[t] = o /\ Exists(t) /\ t \notin Resolved(pick)
                                       => pick[t] # NoLane
             PROVE  \E t \in Tasks : /\ Home[t] = o /\ Exists(t) /\ t \notin Resolved(pick)
                                     /\ lane[pick[t]].status \notin {"waiting", "blocked"}
  BY DEF NoStandstill
<1>1. PICK t \in Tasks : /\ Home[t] = o /\ Exists(t) /\ t \notin Resolved(pick)
                         /\ Blockers(t, Resolved(pick)) = {}
  <2>1. Resolved(pick) \in SUBSET Tasks
    BY DEF Resolved
  <2>2. QED
    BY <2>1, HomeFrontier
<1> DEFINE r == lane[pick[t]]
<1>2. pick[t] \in Lanes /\ Synced(r, t, Resolved(pick)) = r
  BY <1>1 DEF LanePicks, Settled
<1>3. r \in Lane /\ r.revision \in Nat
  BY <1>2, LaneAssumption DEF SchedulerInv, TypeOK, Lane, Revisions
<1>4. ASSUME r.status \in {"waiting", "blocked"} PROVE FALSE
  <2>1. Synced(r, t, Resolved(pick)) = LaneUnblocked(r)
    BY <1>1, <1>4 DEF Synced, Idle
  <2>2. LaneUnblocked(r).revision = r.revision + 1
    BY <1>3 DEF LaneUnblocked, Event, Lane
  <2> HIDE DEF r
  <2>3. r.revision = r.revision + 1
    BY <1>2, <2>1, <2>2
  <2>4. QED
    BY <1>3, <2>3
<1>5. QED
  BY <1>1, <1>4

\* Synced twice is synced once.
LEMMA SyncedOnce ==
  ASSUME SchedulerInv, NEW l \in Lanes, NEW t \in Tasks, NEW resolved
  PROVE  LET q == Synced(lane[l], t, resolved)
         IN  /\ Synced(q, t, resolved) = q
             /\ q.task = lane[l].task
             /\ q.status = "absent" <=> lane[l].status = "absent"
             /\ q.status = "accepted" <=> lane[l].status = "accepted"
<1> DEFINE r == lane[l]
           blockers == {<<e, edge[e].to>> : e \in Blockers(t, resolved)}
<1>1. r \in Lane
  BY DEF SchedulerInv, TypeOK
<1>2. CASE Synced(r, t, resolved) = r
  BY <1>2
<1>3. CASE /\ Synced(r, t, resolved) = LaneUnblocked(r)
           /\ blockers = {} /\ r.status \in Idle /\ t \notin resolved
  <2> DEFINE q == LaneUnblocked(r)
  <2>1. q.status = "runnable" /\ q.task = r.task
    BY <1>1 DEF LaneUnblocked, Event, Lane
  <2>2. Synced(q, t, resolved) = q
    <3> HIDE DEF q
    <3>1. QED
      BY <1>3, <2>1 DEF Synced
  <2>3. QED
    BY <1>3, <2>1, <2>2 DEF Idle
<1>4. CASE /\ Synced(r, t, resolved) = LaneBlocked(r, blockers)
           /\ blockers # {} /\ r.status \in Idle /\ t \notin resolved
  <2> DEFINE q == LaneBlocked(r, blockers)
  <2>1. q.status = "blocked" /\ q.task = r.task /\ q.blockedBy = blockers
    BY <1>1 DEF LaneBlocked, Event, Lane
  <2>2. SameBlockers(blockers, blockers)
    BY DEF SameBlockers
  <2>3. Synced(q, t, resolved) = q
    <3> HIDE DEF q
    <3>1. QED
      BY <1>4, <2>1, <2>2 DEF Synced
  <2>4. QED
    BY <1>4, <2>1, <2>3 DEF Idle
<1>5. QED
  BY <1>2, <1>3, <1>4 DEF Synced

\* SyncFrontier leaves nothing for another one with the same choice of lanes,
\* which is where NoStandstill speaks.
LEMMA SyncSettles ==
  ASSUME SchedulerInv, NEW o \in Orchestrations, SyncFrontier(o)
  PROVE  \E pick \in LanePicks(o)' : Settled(pick)'
<1>1. PICK pick \in LanePicks(o) :
        lane' = [l \in Lanes |-> IF \E t \in Tasks : pick[t] = l
                                   THEN Synced(lane[l], lane[l].task, Resolved(pick))
                                   ELSE lane[l]]
  BY DEF SyncFrontier
<1>2. ASSUME NEW t \in Tasks, pick[t] # NoLane
      PROVE  /\ pick[t] \in Lanes /\ lane[pick[t]].task = t
             /\ lane'[pick[t]] = Synced(lane[pick[t]], t, Resolved(pick))
  <2>1. pick[t] \in Lanes /\ lane[pick[t]].task = t
    BY <1>2 DEF LanePicks
  <2>2. QED
    BY <1>1, <2>1
<1>3. ASSUME NEW l \in Lanes
      PROVE  /\ lane'[l].task = lane[l].task
             /\ lane'[l].status = "absent" <=> lane[l].status = "absent"
             /\ lane'[l].status = "accepted" <=> lane[l].status = "accepted"
  <2>1. CASE \E t \in Tasks : pick[t] = l
    <3>1. PICK t \in Tasks : pick[t] = l
      BY <2>1
    <3>2. lane'[l] = Synced(lane[l], t, Resolved(pick))
      BY <1>2, <3>1, LaneAssumption
    <3>3. QED
      BY <3>2, SyncedOnce
  <2>2. CASE ~\E t \in Tasks : pick[t] = l
    BY <1>1, <2>2
  <2>3. QED
    BY <2>1, <2>2
<1>4. pick \in LanePicks(o)'
  BY <1>3 DEF LanePicks
<1>5. Resolved(pick)' = Resolved(pick)
  BY <1>2, <1>3 DEF Resolved
<1>6. UNCHANGED edge
  BY DEF SyncFrontier, graphVars
<1>7. ASSUME NEW t \in Tasks, pick[t] # NoLane
      PROVE  Synced(lane[pick[t]], t, Resolved(pick))' = lane'[pick[t]]
  <2>1. Synced(lane'[pick[t]], t, Resolved(pick)) = lane'[pick[t]]
    BY <1>2, <1>7, SyncedOnce
  <2>2. Blockers(t, Resolved(pick))' = Blockers(t, Resolved(pick))
    BY <1>5, <1>6 DEF Blockers, Active
  <2>3. QED
    BY <1>5, <1>6, <2>1, <2>2 DEF Synced
<1>8. QED
  BY <1>4, <1>7 DEF Settled

\* The lanes of an orchestration never all wait for each other once its
\* frontier is synced.
THEOREM WorkRemains == Spec => []NoStandstill
<1>1. QED
  BY SyncedWorks, SchedulerInvariance, GraphInvKept, PTL

-----------------------------------------------------------------------------
(* The scheduler implements ProjectSlots. *)

\* A lane that works did so before, under the same lease.
Moved(q, r) ==
  /\ r.revision <= q.revision
  /\ q.status \in Mutating => /\ r.status \in Mutating
                              /\ q.token = r.token
                              /\ q.project = r.project

\* Only LeaseGranted makes a lane begin to work or gives it another token.
LEMMA EventsMove ==
  ASSUME NEW r \in Lane, NEW stage \in Stages, NEW s \in Concluded,
         NEW blockers \in SUBSET (EdgeIds \X Tasks)
  PROVE  /\ Moved(r, r)
         /\ Moved(Event(r), r)
         /\ Moved(LaneStatusChanged(r, s), r)
         /\ r.status \in Mutating => Moved(LeaseHeartbeat(r), r)
         /\ Moved(LeaseCompleted(r), r)
         /\ Moved(LeaseReturned(r), r)
         /\ Moved(RepairCycleStarted(r), r)
         /\ Moved(LaneEscalated(r), r)
         /\ Moved(StageSubmitted(r, stage), r)
         /\ Moved(LaneUnblocked(r), r)
         /\ Moved(LaneBlocked(r, blockers), r)
         /\ Moved([r EXCEPT !.late = TRUE], r)
<1>1. r.revision \in Nat /\ r.revision <= r.revision /\ r.revision <= r.revision + 1
  BY LaneAssumption DEF Lane, Revisions
<1> USE <1>1 DEF Event, Lane, Moved, Mutating, Concluded
<1>2. /\ Moved(r, r)
      /\ Moved(Event(r), r)
      /\ Moved([r EXCEPT !.late = TRUE], r)
  OBVIOUS
<1>3. /\ Moved(LaneStatusChanged(r, s), r)
      /\ r.status \in Mutating => Moved(LeaseHeartbeat(r), r)
      /\ Moved(LaneEscalated(r), r)
  BY DEF LaneStatusChanged, LeaseHeartbeat, LaneEscalated
<1>4. Moved(LeaseCompleted(r), r) /\ Moved(LeaseReturned(r), r)
  BY DEF LeaseCompleted, LeaseReturned
<1>5. Moved(RepairCycleStarted(r), r)
  BY DEF RepairCycleStarted
<1>6. Moved(StageSubmitted(r, stage), r)
  BY DEF StageSubmitted
<1>7. Moved(LaneUnblocked(r), r) /\ Moved(LaneBlocked(r, blockers), r)
  BY DEF LaneUnblocked, LaneBlocked
<1>8. QED
  BY <1>2, <1>3, <1>4, <1>5, <1>6, <1>7

\* A lane left alone is moved too.
LEMMA StillMoves == ASSUME NEW r \in Lane PROVE Moved(r, r)
BY LaneAssumption DEF Lane, Revisions, Moved

\* So every step but GrantLease and CreateLane moves all lanes.
LEMMA CallerMoves ==
  ASSUME BaseInv, NEW c \in Callers, CallerStep(c), ~GrantLease(c), NEW l \in Lanes
  PROVE  Moved(lane'[l], lane[l])
<1> DEFINE k == view[c].id
           r == lane[k]
<1>1. lane[l] \in Lane /\ Moved(lane[l], lane[l])
  <2>1. lane[l] \in Lane
    BY DEF BaseInv, TypeOK
  <2>2. QED
    BY <2>1, StillMoves
<1>2. CASE lane'[l] = lane[l]
  BY <1>1, <1>2
<1>3. CASE lane'[l] # lane[l]
  <2>1. Current(c) /\ l = k /\ r \in Lane
    BY <1>1, <1>3, CallerShape
  <2>2. ASSUME NEW q, Append(c, q), Moved(q, r) PROVE Moved(lane'[l], lane[l])
    BY <2>1, <2>2 DEF Append, BaseInv, TypeOK
  <2>3. ASSUME NEW stage \in Stages, NEW s \in Concluded
        PROVE  /\ Moved(Event(r), r)
               /\ Moved(LaneStatusChanged(r, s), r)
               /\ r.status \in Mutating => Moved(LeaseHeartbeat(r), r)
               /\ Moved(LeaseCompleted(r), r)
               /\ Moved(LeaseReturned(r), r)
               /\ Moved(RepairCycleStarted(r), r)
               /\ Moved(LaneEscalated(r), r)
               /\ Moved(StageSubmitted(r, stage), r)
    BY <2>1, <2>3, EventsMove
  <2>4. Semar \in Stages /\ "failed" \in Concluded
    BY DEF Semar, Stages, Concluded
  <2>5. ~\E j \in Lanes : GetLane(c, j)
    BY <1>3 DEF GetLane
  <2> HIDE DEF r, k
  <2>6. CASE Heartbeat(c) \/ CompleteLease(c) \/ RejectLease(c)
    <3>1. r.status \in Mutating
      BY <2>6 DEF Heartbeat, CompleteLease, RejectLease, HoldsLease, r, k
    <3>2. Append(c, LeaseHeartbeat(r)) \/ Append(c, LeaseCompleted(r)) \/ Append(c, LeaseReturned(r))
      BY <2>6 DEF Heartbeat, CompleteLease, RejectLease, r, k
    <3>3. QED
      BY <2>2, <2>3, <2>4, <3>1, <3>2
  <2>7. CASE \E stage \in Stages : RecordRoleStage(c, stage)
    BY <2>2, <2>3, <2>4, <2>7 DEF RecordRoleStage, r, k
  <2>8. CASE \E s \in Concluded : UpdateLaneStatus(c, s)
    BY <2>2, <2>3, <2>4, <2>8 DEF UpdateLaneStatus, r, k
  <2>9. CASE Annotate(c) \/ StartRepairCycle(c) \/ Escalate(c)
    BY <2>2, <2>3, <2>4, <2>9 DEF Annotate, StartRepairCycle, Escalate, r, k
  <2>10. QED
    BY <2>5, <2>6, <2>7, <2>8, <2>9 DEF CallerStep
<1>4. QED
  BY <1>2, <1>3

\* CreateLane, SyncFrontier, ExpireLeases and the end of a lease.
LEMMA OthersMove ==
  ASSUME SchedulerInv, NEW l \in Lanes,
         \/ \E o \in Orchestrations : SyncFrontier(o) \/ ExpireLeases(o)
         \/ \E k \in Lanes : LeaseRunsOut(k)
         \/ \E k \in Lanes, p \in Projects, t \in Tasks \cup {NoTask} : CreateLane(k, p, t)
  PROVE  Moved(lane'[l], lane[l])
<1> DEFINE r == lane[l]
<1>1. r \in Lane
  BY DEF SchedulerInv, TypeOK
<1>2. /\ Moved(r, r) /\ Moved(LeaseReturned(r), r) /\ Moved([r EXCEPT !.late = TRUE], r)
      /\ Moved(LaneUnblocked(r), r)
      /\ \A b \in SUBSET (EdgeIds \X Tasks) : Moved(LaneBlocked(r, b), r)
  <2> HIDE DEF r
  <2>1. 1 \in Stages /\ "failed" \in Concluded /\ {} \in SUBSET (EdgeIds \X Tasks)
    BY DEF Stages, Concluded
  <2>2. QED
    BY <1>1, <2>1, EventsMove
<1>3. ASSUME NEW o \in Orchestrations, SyncFrontier(o) PROVE Moved(lane'[l], r)
  <2>1. PICK pick \in LanePicks(o) :
          lane' = [k \in Lanes |-> IF \E t \in Tasks : pick[t] = k
                                     THEN Synced(lane[k], lane[k].task, Resolved(pick))
                                     ELSE lane[k]]
    BY <1>3 DEF SyncFrontier
  <2>2. lane'[l] = r \/ lane'[l] = Synced(r, r.task, Resolved(pick))
    BY <2>1
  <2>3. {<<e, edge[e].to>> : e \in Blockers(r.task, Resolved(pick))} \in SUBSET (EdgeIds \X Tasks)
    BY ActiveEdge DEF SchedulerInv, TypeOK, Blockers, Active
  <2> HIDE DEF r
  <2>4. QED
    BY <1>2, <2>2, <2>3 DEF Synced
<1>4. ASSUME NEW o \in Orchestrations, ExpireLeases(o) PROVE Moved(lane'[l], r)
  BY <1>2, <1>4 DEF ExpireLeases
<1>5. ASSUME NEW k \in Lanes, LeaseRunsOut(k) PROVE Moved(lane'[l], r)
  BY <1>2, <1>5 DEF LeaseRunsOut, SchedulerInv, TypeOK
<1>6. ASSUME NEW k \in Lanes, NEW p \in Projects, NEW t \in Tasks \cup {NoTask}, CreateLane(k, p, t)
      PROVE  Moved(lane'[l], r)
  <2>1. CASE l # k
    BY <1>2, <1>6, <2>1 DEF CreateLane, SchedulerInv, TypeOK
  <2>2. CASE l = k
    <3>1. lane'[l] = Event(NewLane("waiting", p, t)) /\ r.revision = 0
      BY <1>6, <2>2 DEF CreateLane, SchedulerInv, BaseInv, LaneInv, TypeOK
    <3>2. QED
      BY <3>1 DEF Event, NewLane, Moved, Mutating
  <2>3. QED
    BY <2>1, <2>2
<1>7. QED
  BY <1>3, <1>4, <1>5, <1>6

\* The abstract lease table, slot by slot.
Table == [s \in Orchestrations \X Projects |-> LeasesOf(s[1], s[2])]
Clock == [l \in Lanes |-> lane[l].revision]

\* Steps after which no lane has begun to work release some slots.
LEMMA MovesRelease ==
  ASSUME SchedulerInv, SchedulerInv', \A l \in Lanes : Moved(lane'[l], lane[l])
  PROVE  Slots!Next
<1>1. /\ Clock' \in [Lanes -> Nat]
      /\ \A l \in Lanes : Clock[l] <= Clock'[l]
  BY LaneAssumption DEF SchedulerInv, TypeOK, Lane, Revisions, Clock, Moved
<1>2. ASSUME NEW o \in Orchestrations, NEW p \in Projects, LeasesOf(o, p)' # {}
      PROVE  LeasesOf(o, p)' = LeasesOf(o, p)
  <2>1. PICK l \in Lanes : /\ Home[l] = o /\ lane'[l].project = p /\ lane'[l].status \in Mutating
    BY <1>2 DEF LeasesOf
  <2>2. /\ lane[l].project = p /\ lane[l].status \in Mutating /\ lane'[l].token = lane[l].token
    BY <2>1 DEF Moved
  <2>3. /\ LeasesOf(o, p) = {[lane |-> l, token |-> lane[l].token]}
        /\ LeasesOf(o, p)' = {[lane |-> l, token |-> lane'[l].token]}
    BY <2>1, <2>2 DEF LeasesOf, SchedulerInv, OneMutatingLane
  <2>4. QED
    BY <2>2, <2>3
<1> DEFINE S == {s \in Slots!Slots : LeasesOf(s[1], s[2])' = {}}
<1>3. Table' = [s \in Slots!Slots |-> IF s \in S THEN {} ELSE Table[s]]
  BY <1>2 DEF Table, Slots!Slots
<1>4. Slots!Release
  BY <1>3 DEF Slots!Release, Table
<1>5. QED
  BY <1>1, <1>4 DEF Slots!Next, Clock

\* ProjectSlots counts as this module does.
LEMMA SameSize == \A S : Slots!Cardinality(S) = Cardinality(S)
BY DEF Slots!Cardinality, Cardinality

\* GrantLease takes a free slot, if it is one of a project, with a new token.
LEMMA GrantGrants ==
  ASSUME SchedulerInv, SchedulerInv', NEW c \in Callers, GrantLease(c)
  PROVE  Slots!Next
<1>1. /\ view[c].id \in Lanes /\ lane[view[c].id] \in Lane
      /\ Home[view[c].id] \in Orchestrations
  BY LaneAssumption, CurrentLane DEF GrantLease, SchedulerInv, BaseInv, TypeOK
<1> SUFFICES ASSUME NEW l \in Lanes, l = view[c].id, lane[l] \in Lane,
                    NEW o \in Orchestrations, o = Home[l],
                    NEW p, p = lane[l].project
             PROVE  Slots!Next
  BY <1>1
<1>2. /\ lane' = [lane EXCEPT ![l] = LeaseGranted(lane[l])]
      /\ lane[l].status = "runnable" /\ ~ProjectBusy(l) /\ ~ProjectCapReached(p)
  BY DEF GrantLease, Append
<1>3. /\ lane'[l].status = "leased" /\ lane'[l].project = p
      /\ lane'[l].revision = lane[l].revision + 1 /\ lane'[l].token = lane'[l].revision
      /\ lane'[l].revision \in Nat /\ lane[l].revision \in Nat
  <2> DEFINE q == LeaseGranted(lane[l])
  <2>1. lane'[l] = q
    BY <1>2 DEF SchedulerInv, TypeOK
  <2>2. /\ q.status = "leased" /\ q.project = p
        /\ q.revision = lane[l].revision + 1 /\ q.token = q.revision
    BY DEF LeaseGranted, Event, Lane
  <2>3. lane[l].revision \in Nat
    BY LaneAssumption DEF Lane, Revisions
  <2>4. QED
    BY <2>1, <2>2, <2>3
<1>4. \A k \in Lanes : k # l => lane'[k] = lane[k]
  BY <1>2 DEF SchedulerInv, TypeOK
<1>5. /\ Clock' \in [Lanes -> Nat]
      /\ \A k \in Lanes : Clock[k] <= Clock'[k]
      /\ Clock[l] < Clock'[l] /\ Clock'[l] = lane'[l].revision
  <2>1. \A k \in Lanes : lane[k].revision \in Nat /\ lane'[k].revision \in Nat
    BY LaneAssumption DEF SchedulerInv, TypeOK, Lane, Revisions
  <2>2. \A k \in Lanes : Clock[k] = lane[k].revision /\ Clock'[k] = lane'[k].revision
    BY DEF Clock
  <2>3. Clock' \in [Lanes -> Nat]
    BY <2>1 DEF Clock
  <2>4. \A k \in Lanes : Clock[k] <= Clock'[k]
    BY <1>3, <1>4, <2>1, <2>2
  <2>5. QED
    BY <1>3, <2>2, <2>3, <2>4
<1>6. LeasesOf(o, p) = {} /\ LeasesOf(o, p)' = {[lane |-> l, token |-> lane'[l].token]}
  <2>1. \A k \in Lanes : Home[k] = o /\ lane[k].project = p => lane[k].status \notin Mutating
    BY <1>2 DEF ProjectBusy, Mutating
  <2>2. \A k \in Lanes : Home[k] = o /\ lane'[k].project = p /\ lane'[k].status \in Mutating
          => k = l
    BY <1>4, <2>1
  <2>3. QED
    BY <1>3, <2>1, <2>2 DEF LeasesOf, Mutating
<1>7. ASSUME NEW q \in Orchestrations, NEW r \in Projects, q # o \/ r # p
      PROVE  LeasesOf(q, r)' = LeasesOf(q, r)
  <2>1. \A k \in Lanes : Home[k] = q /\ lane[k].project = r => k # l
    BY <1>7
  <2>2. \A k \in Lanes : Home[k] = q /\ lane'[k].project = r => k # l
    BY <1>3, <1>7
  <2>3. QED
    BY <1>4, <2>1, <2>2 DEF LeasesOf
<1>8. CASE p \notin Projects
  <2>1. Table' = [s \in Slots!Slots |-> IF s \in {} THEN {} ELSE Table[s]]
    BY <1>7, <1>8 DEF Table, Slots!Slots
  <2>2. Slots!Release
    BY <2>1 DEF Slots!Release, Table
  <2>3. QED
    BY <1>5, <2>2 DEF Slots!Next, Clock
<1>9. CASE p \in Projects
  <2>1. p \in Slots!Busy \/ Cardinality(Slots!Busy) < MaxProjects
    <3>1. Slots!Busy \subseteq ActiveProjects
      BY DEF Slots!Busy, LeasesOf, ActiveProjects
    <3>2. /\ IsFiniteSet(Slots!Busy) /\ Cardinality(Slots!Busy) \in Nat
          /\ Cardinality(Slots!Busy) <= Cardinality(ActiveProjects)
          /\ Cardinality(ActiveProjects) \in Nat
      BY <3>1, ActiveFinite, FS_Subset, FS_CardinalityType
    <3>3. CASE p \in ActiveProjects
      <4>1. PICK k \in Lanes : lane[k].status \in Mutating /\ lane[k].project = p
        BY <3>3 DEF ActiveProjects
      <4>2. Home[k] \in Orchestrations /\ LeasesOf(Home[k], p) # {}
        BY <4>1, LaneAssumption DEF LeasesOf
      <4>3. QED
        BY <1>9, <4>2 DEF Slots!Busy
    <3>4. CASE p \notin ActiveProjects
      BY <1>2, <3>2, <3>4, LaneAssumption DEF ProjectCapReached
    <3>5. QED
      BY <3>3, <3>4
  <2>2. /\ Table[<<o, p>>] = {}
        /\ Table' = [Table EXCEPT ![<<o, p>>] = {[lane |-> l, token |-> Clock'[l]]}]
    <3>1. Table[<<o, p>>] = {} /\ Table'[<<o, p>>] = {[lane |-> l, token |-> Clock'[l]]}
      BY <1>3, <1>5, <1>6, <1>9 DEF Table
    <3>2. ASSUME NEW s \in Orchestrations \X Projects, s # <<o, p>> PROVE Table'[s] = Table[s]
      BY <1>7, <3>2 DEF Table
    <3>3. QED
      BY <3>1, <3>2 DEF Table
  <2>3. Slots!Grant(p, l)
    <3>1. Slots!Grant(p, l) =
            /\ Table[<<o, p>>] = {}
            /\ p \in Slots!Busy \/ Cardinality(Slots!Busy) < MaxProjects
            /\ Clock[l] < Clock'[l]
            /\ Table' = [Table EXCEPT ![<<o, p>>] = {[lane |-> l, token |-> Clock'[l]]}]
      BY SameSize DEF Slots!Grant, Table, Clock
    <3>2. QED
      BY <1>5, <2>1, <2>2, <3>1
  <2>4. QED
    BY <1>5, <1>9, <2>3 DEF Slots!Next, Clock
<1>10. QED
  BY <1>8, <1>9

\* Every step of the scheduler is one of the table, or none.
LEMMA StepsGrantOrRelease ==
  ASSUME SchedulerInv, SchedulerInv', [Next]_vars
  PROVE  [Slots!Next]_(Slots!vars)
<1>1. BaseInv
  BY DEF SchedulerInv, BaseInv
<1>2. CASE UNCHANGED lane
  BY <1>2 DEF Slots!vars, LeasesOf
<1>3. CASE \E c \in Callers : GrantLease(c)
  BY <1>3, GrantGrants
<1>4. CASE \E c \in Callers : CallerStep(c) /\ ~GrantLease(c)
  BY <1>1, <1>4, CallerMoves, MovesRelease
<1>5. CASE \/ \E o \in Orchestrations : SyncFrontier(o) \/ ExpireLeases(o)
           \/ \E k \in Lanes : LeaseRunsOut(k)
           \/ \E k \in Lanes, p \in Projects, t \in Tasks \cup {NoTask} : CreateLane(k, p, t)
  BY <1>5, OthersMove, MovesRelease
<1>6. QED
  BY <1>2, <1>3, <1>4, <1>5 DEF Next, LaneNext, vars, laneVars

\* The lanes, under every operation of the scheduler, are a table of project
\* slots: GrantLease takes a free one, and the rest can only free them.
THEOREM KeepsSlots == Spec => ImplementsSlots
<1>1. Init => Slots!Init
  <2>1. Init => \A l \in Lanes : lane[l].status = "absent" /\ lane[l].revision = 0
    BY SMT DEF Init, NewLane
  <2>2. SUFFICES ASSUME Init, \A l \in Lanes : lane[l].status = "absent" /\ lane[l].revision = 0
                 PROVE  Slots!Init
    BY <2>1
  <2>3. \A o \in Orchestrations, p \in Projects : LeasesOf(o, p) = {}
    BY <2>2 DEF LeasesOf, Mutating
  <2>4. QED
    BY <2>2, <2>3 DEF Slots!Init, Slots!Slots
<1>2. QED
  BY <1>1, StepsGrantOrRelease, SchedulerInvariance, PTL DEF Spec, ImplementsSlots, Slots!Spec
=============================================================================
