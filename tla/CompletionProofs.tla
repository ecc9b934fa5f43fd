--------------------------- MODULE CompletionProofs ---------------------------
(***************************************************************************)
(* What holds of CompleteLaneWork for any number of callers, keys, lanes   *)
(* and verifications: its steps are steps of the lane scheduler, and one   *)
(* request closes a lane.                                                  *)
(***************************************************************************)
EXTENDS LaneCompletion, LaneProofs

\* A lane whose lease was completed.
Closing == {"review"} \cup Concluded

\* What the writes of a key say of each other and of the lane.
KeyInv(k) ==
  LET r == lane[Asked[k].lane]
  IN  /\ Did(k, "complete") => /\ \A d \in Asked[k].dims : Did(k, d)
                               /\ r.status \in Closing
                               /\ r.token # 0
      /\ Did(k, "review") => Did(k, "complete") /\ conclusion[Asked[k].lane] = k
      /\ Did(k, "terminal") => Did(k, "review") /\ r.status = Asked[k].outcome

OneCompleter ==
  \A j, k \in Keys :
    Did(j, "complete") /\ Did(k, "complete") /\ Asked[j].lane = Asked[k].lane => j = k

\* A lane is in review or closed by a key that completed it.
ClosedByKey(l) ==
  /\ lane[l].status \in Closing =>
       \E k \in Keys : /\ Asked[k].lane = l
                       /\ Did(k, "complete")
                       /\ lane[l].status \in Concluded => Did(k, "terminal")
  /\ lane[l].status \in Mutating => lane[l].token # 0

\* A review conclusion was written by the request it is filed under.
ReviewedByKey(l) ==
  conclusion[l] # NoKey => Did(conclusion[l], "review") /\ Asked[conclusion[l]].lane = l

RecordInv ==
  /\ \A k \in Keys : KeyInv(k)
  /\ OneCompleter
  /\ \A l \in Lanes : ClosedByKey(l) /\ ReviewedByKey(l)

\* A call knows of the writes it has behind it.
ChainInv(c) ==
  step[c] # "idle" =>
    /\ key[c] \in Keys
    /\ view[c].id = Asked[key[c]].lane
    /\ todo[c] \subseteq Asked[key[c]].dims
    /\ \A d \in Asked[key[c]].dims \ todo[c] : Did(key[c], d)
    /\ step[c] \in {"completed", "review", "reviewed", "terminal"} => Did(key[c], "complete")
    /\ step[c] \in {"reviewed", "terminal"} => Did(key[c], "review")

\* The inductive invariant.
CompletionInv ==
  /\ SchedulerInv
  /\ CompletionTypeOK
  /\ RecordInv
  /\ \A c \in Callers : ChainInv(c)

-----------------------------------------------------------------------------
(* The steps of a call. *)

\* CompletionInv gives what the lemmas on the scheduler ask for.
LEMMA Parts ==
  ASSUME CompletionInv
  PROVE  /\ BaseInv /\ TypeOK /\ CompletionTypeOK /\ RecordInv
         /\ \A c \in Callers : ChainInv(c)
         /\ \A l \in Lanes : LaneInv(lane[l])
         /\ \A k \in Keys : /\ Asked[k].lane \in Lanes
                            /\ Asked[k].outcome \in Concluded
                            /\ Asked[k].dims \in SUBSET Dims
BY CompletionAssumption DEF CompletionInv, SchedulerInv, BaseInv, Request

\* A call leaves the other callers alone and takes back no write.
LEMMA CallFrame ==
  ASSUME TypeOK, CompletionTypeOK, NEW c \in Callers, Call(c)
  PROVE  /\ committed \subseteq committed'
         /\ \A d \in Callers \ {c} : /\ step'[d] = step[d] /\ key'[d] = key[d]
                                     /\ todo'[d] = todo[d] /\ view'[d] = view[d]
<1>1. \A q : Append(c, q) =>
        \A d \in Callers \ {c} : view'[d] = view[d]
  BY DEF Append, TypeOK
<1>2. \A l : GetLane(c, l) => \A d \in Callers \ {c} : view'[d] = view[d]
  BY DEF GetLane, TypeOK
<1>3. UNCHANGED vars => \A d \in Callers \ {c} : view'[d] = view[d]
  BY DEF vars, laneVars
<1>4. CASE \E k \in Keys, overridden \in BOOLEAN : StartWork(c, k, overridden)
  BY <1>2, <1>4 DEF StartWork, TakeToken, historyVars, CompletionTypeOK
<1>5. CASE Lease(c)
  BY <1>1, <1>3, <1>5 DEF Lease, GrantLease, Replayed, Written, CompletionTypeOK
<1>6. CASE Look(c)
  BY <1>2, <1>6 DEF Look, TakeToken, historyVars, CompletionTypeOK
<1>7. CASE Complete(c)
  BY <1>1, <1>3, <1>7 DEF Complete, CompleteLease, Replayed, Written, CompletionTypeOK
<1>8. CASE Review(c)
  BY <1>1, <1>3, <1>8 DEF Review, Annotate, Replayed, Written, CompletionTypeOK
<1>9. CASE Terminal(c)
  BY <1>1, <1>3, <1>9 DEF Terminal, UpdateLaneStatus, Replayed, Returned, CompletionTypeOK
<1>10. CASE GiveUp(c)
  BY <1>3, <1>10 DEF GiveUp, Returned, historyVars, CompletionTypeOK
<1>11. CASE \E d \in Dims : Verify(c, d)
  BY <1>1, <1>3, <1>11 DEF Verify, Annotate, Replayed, Written, CompletionTypeOK
<1>12. QED
  BY <1>4, <1>5, <1>6, <1>7, <1>8, <1>9, <1>10, <1>11 DEF Call

\* Each step of a call is an operation of the store or changes nothing there.
LEMMA CallIsSchedulerStep ==
  ASSUME CompletionInv, NEW c \in Callers, Call(c)
  PROVE  [Next]_vars
<1>1. CallerStep(c) => Next
  BY DEF Next, LaneNext
<1>2. \A l \in Lanes : GetLane(c, l) => CallerStep(c)
  BY DEF CallerStep
<1>3. GrantLease(c) \/ CompleteLease(c) \/ Annotate(c) => CallerStep(c)
  BY DEF CallerStep
<1>4. ASSUME NEW k \in Keys, NEW overridden \in BOOLEAN, StartWork(c, k, overridden)
      PROVE  [Next]_vars
  BY <1>1, <1>2, <1>4, Parts DEF StartWork, TakeToken
<1>5. CASE Lease(c)
  BY <1>1, <1>3, <1>5 DEF Lease, Replayed
<1>6. CASE Look(c)
  <2>1. view[c].id \in Lanes
    BY <1>6, Parts DEF Look, ChainInv
  <2>2. QED
    BY <1>1, <1>2, <1>6, <2>1 DEF Look, TakeToken
<1>7. CASE Complete(c)
  BY <1>1, <1>3, <1>7 DEF Complete, Replayed
<1>8. CASE Review(c)
  BY <1>1, <1>3, <1>8 DEF Review, Replayed
<1>9. CASE Terminal(c)
  <2>1. Asked[key[c]].outcome \in Concluded
    BY <1>9, Parts DEF Terminal, ChainInv
  <2>2. QED
    BY <1>1, <1>9, <2>1 DEF Terminal, Replayed, CallerStep
<1>10. CASE GiveUp(c)
  BY <1>10 DEF GiveUp
<1>11. CASE \E d \in Dims : Verify(c, d)
  BY <1>1, <1>3, <1>11 DEF Verify, Replayed
<1>12. QED
  BY <1>4, <1>5, <1>6, <1>7, <1>8, <1>9, <1>10, <1>11 DEF Call

LEMMA IsSchedulerStep ==
  ASSUME CompletionInv, [CompletionNext]_completionVars
  PROVE  [Next]_vars
<1>1. CASE UNCHANGED completionVars
  BY <1>1 DEF completionVars
<1>2. CASE Elsewhere
  <2>1. \A l \in Lanes, p \in Projects, t \in Tasks : CreateLane(l, p, t) => Next
    BY DEF Next, LaneNext
  <2>2. \A c \in Callers, l \in Lanes : GetLane(c, l) => Next
    BY DEF Next, LaneNext, CallerStep
  <2>3. QED
    BY <1>2, <2>1, <2>2 DEF Elsewhere, Next, LaneNext
<1>3. CASE \E c \in Callers : Call(c)
  BY <1>3, CallIsSchedulerStep
<1>4. QED
  BY <1>1, <1>2, <1>3 DEF CompletionNext

-----------------------------------------------------------------------------
(* Each call knows of the writes behind it. *)

\* What a call knows stays true while others act.
LEMMA ChainOfOther ==
  ASSUME CompletionInv, NEW c \in Callers, Call(c), NEW d \in Callers \ {c}
  PROVE  ChainInv(d)'
<1>1. /\ committed \subseteq committed'
      /\ step'[d] = step[d] /\ key'[d] = key[d] /\ todo'[d] = todo[d] /\ view'[d] = view[d]
  BY CallFrame, Parts
<1>2. QED
  BY <1>1, Parts DEF ChainInv, Did

\* What c knows of its own call after its step.
LEMMA ChainOfOwn ==
  ASSUME CompletionInv, NEW c \in Callers, Call(c)
  PROVE  ChainInv(c)'
<1>1. TypeOK /\ CompletionTypeOK /\ ChainInv(c) /\ committed \subseteq committed'
  BY CallFrame, Parts
<1>2. \A q : Append(c, q) => view'[c].id = view[c].id
  BY <1>1 DEF Append, TypeOK, Seen
<1>3. \A l : GetLane(c, l) => view'[c].id = l
  BY <1>1 DEF GetLane, TypeOK, Seen
<1>4. UNCHANGED vars => view'[c].id = view[c].id
  BY DEF vars, laneVars
<1>5. ASSUME NEW k \in Keys, NEW overridden \in BOOLEAN, StartWork(c, k, overridden)
      PROVE  ChainInv(c)'
  <2>1. /\ view'[c].id = Asked[k].lane
        /\ key'[c] = k /\ todo'[c] = Asked[k].dims /\ step'[c] \in {"lease", "verify"}
    BY <1>1, <1>3, <1>5 DEF StartWork, TakeToken, CompletionTypeOK
  <2>2. QED
    BY <2>1 DEF ChainInv
<1>6. CASE Lease(c)
  <2>1. /\ view'[c].id = view[c].id /\ key'[c] = key[c] /\ todo'[c] = todo[c]
        /\ step[c] = "lease" /\ step'[c] = "leased"
    BY <1>1, <1>2, <1>4, <1>6 DEF Lease, GrantLease, Replayed, Written, CompletionTypeOK
  <2>2. QED
    BY <1>1, <2>1 DEF ChainInv, Did
<1>7. CASE Look(c)
  <2>1. /\ view'[c].id = view[c].id /\ key'[c] = key[c] /\ todo'[c] = todo[c]
        /\ \/ step[c] = "leased" /\ step'[c] = "verify"
           \/ step[c] = "verified" /\ step'[c] = "verify"
           \/ step[c] = "completed" /\ step'[c] = "review"
           \/ step[c] = "reviewed" /\ step'[c] = "terminal"
    BY <1>1, <1>3, <1>7 DEF Look, TakeToken, CompletionTypeOK
  <2>2. QED
    BY <1>1, <2>1 DEF ChainInv, Did
<1>8. CASE Complete(c)
  <2>1. /\ view'[c].id = view[c].id /\ key'[c] = key[c] /\ todo'[c] = todo[c]
        /\ step[c] = "verify" /\ step'[c] = "completed"
        /\ <<key[c], "complete">> \in committed'
    BY <1>1, <1>2, <1>4, <1>8 DEF Complete, CompleteLease, Replayed, Written, CompletionTypeOK
  <2>2. QED
    BY <1>1, <2>1 DEF ChainInv, Did
<1>9. CASE Review(c)
  <2>1. /\ view'[c].id = view[c].id /\ key'[c] = key[c] /\ todo'[c] = todo[c]
        /\ step[c] = "review" /\ step'[c] = "reviewed"
        /\ <<key[c], "review">> \in committed'
    BY <1>1, <1>2, <1>4, <1>9 DEF Review, Annotate, Replayed, Written, CompletionTypeOK
  <2>2. QED
    BY <1>1, <2>1 DEF ChainInv, Did
<1>10. CASE Terminal(c) \/ GiveUp(c)
  <2>1. step'[c] = "idle"
    BY <1>1, <1>10 DEF Terminal, GiveUp, Returned, CompletionTypeOK
  <2>2. QED
    BY <2>1 DEF ChainInv
<1>11. ASSUME NEW d \in Dims, Verify(c, d) PROVE ChainInv(c)'
  <2>1. /\ view'[c].id = view[c].id /\ key'[c] = key[c] /\ todo'[c] = todo[c] \ {d}
        /\ step[c] = "verify" /\ step'[c] = "verified"
        /\ <<key[c], d>> \in committed'
    BY <1>1, <1>2, <1>4, <1>11 DEF Verify, Annotate, Replayed, Written, CompletionTypeOK
  <2>2. QED
    BY <1>1, <2>1 DEF ChainInv, Did
<1>12. QED
  BY <1>5, <1>6, <1>7, <1>8, <1>9, <1>10, <1>11 DEF Call

-----------------------------------------------------------------------------
(* What the writes say of each other. *)

\* Steps that complete, review and close nothing.
LEMMA RecordsUndisturbed ==
  ASSUME RecordInv, \A k \in Keys : Asked[k].lane \in Lanes,
         conclusion' = conclusion, committed \subseteq committed',
         \A k \in Keys, s \in {"complete", "review", "terminal"} :
           <<k, s>> \in committed' => <<k, s>> \in committed,
         \A l \in Lanes :
           \/ lane'[l].status = lane[l].status /\ lane'[l].token = lane[l].token
           \/ /\ lane[l].status \notin Closing /\ lane'[l].status \notin Closing
              /\ lane'[l].status \in Mutating => lane'[l].token # 0
  PROVE  RecordInv'
<1>1. ASSUME NEW k \in Keys PROVE KeyInv(k)'
  BY <1>1 DEF RecordInv, KeyInv, Did, Closing
<1>2. OneCompleter'
  BY DEF RecordInv, OneCompleter, Did
<1>3. ASSUME NEW l \in Lanes PROVE ClosedByKey(l)'
  BY <1>3 DEF RecordInv, ClosedByKey, Did, Closing
<1>4. ASSUME NEW l \in Lanes PROVE ReviewedByKey(l)'
  BY <1>4 DEF RecordInv, ReviewedByKey, Did
<1>5. QED
  BY <1>1, <1>2, <1>3, <1>4 DEF RecordInv

\* What the events of a call do to the lane.
LEMMA EventEffects ==
  ASSUME NEW r \in Lane, NEW outcome \in Concluded
  PROVE  /\ Event(r).status = r.status /\ Event(r).token = r.token
         /\ LeaseGranted(r).status = "leased" /\ LeaseGranted(r).token # 0
         /\ LeaseCompleted(r).status = "review" /\ LeaseCompleted(r).token = r.token
         /\ LaneStatusChanged(r, outcome).status = outcome
         /\ LaneStatusChanged(r, outcome).token = r.token
<1>1. r.revision \in Nat
  BY LaneAssumption DEF Lane, Revisions
<1>2. Event(r).status = r.status /\ Event(r).token = r.token
  BY DEF Event, Lane
<1>3. LeaseGranted(r).status = "leased" /\ LeaseGranted(r).token = r.revision + 1
  BY DEF LeaseGranted, Event, Lane
<1>4. LeaseCompleted(r).status = "review" /\ LeaseCompleted(r).token = r.token
  BY DEF LeaseCompleted, Event, Lane
<1>5. /\ LaneStatusChanged(r, outcome).status = outcome
      /\ LaneStatusChanged(r, outcome).token = r.token
  BY DEF LaneStatusChanged, Event, Lane
<1>6. QED
  BY <1>1, <1>2, <1>3, <1>4, <1>5

\* An operation of a call changes the lane of its request and no other.
LEMMA WrittenLane ==
  ASSUME CompletionInv, NEW c \in Callers, step[c] # "idle", NEW q, Append(c, q)
  PROVE  /\ key[c] \in Keys
         /\ view[c].id = Asked[key[c]].lane
         /\ view[c].id \in Lanes
         /\ lane[view[c].id] \in Lane
         /\ lane'[view[c].id] = q
         /\ \A l \in Lanes \ {view[c].id} : lane'[l] = lane[l]
BY Parts DEF ChainInv, Append, TypeOK

\* Reconciliation, expiry and the clock leave completed leases alone and
\* complete none.
LEMMA ElsewhereLanes ==
  ASSUME CompletionInv, Elsewhere, NEW l \in Lanes
  PROVE  \/ lane'[l].status = lane[l].status /\ lane'[l].token = lane[l].token
         \/ lane[l].status \notin Closing /\ lane'[l].status \in Idle
<1>1. BaseInv /\ TypeOK /\ \A k \in Lanes : lane[k] \in Lane
  BY Parts DEF LaneInv
<1>2. CASE UNCHANGED lane
  BY <1>2
<1>3. ASSUME NEW k \in Lanes, NEW p \in Projects, NEW t \in Tasks, CreateLane(k, p, t)
      PROVE  \/ lane'[l] = lane[l]
             \/ lane[l].status \notin Closing /\ lane'[l].status \in Idle
  <2>1. Event(NewLane("waiting", p, t)).status = "waiting"
    BY DEF Event, NewLane
  <2>2. QED
    BY <1>1, <1>3, <2>1 DEF CreateLane, TypeOK, Closing, Concluded, Idle
<1>4. ASSUME NEW o \in Orchestrations, SyncFrontier(o)
      PROVE  \/ lane'[l] = lane[l]
             \/ lane[l].status \notin Closing /\ lane'[l].status \in Idle
  <2>1. \/ lane'[l] = lane[l]
        \/ \E t \in Tasks, resolved \in SUBSET Tasks : lane'[l] = Synced(lane[l], lane[l].task, resolved)
    BY <1>4 DEF SyncFrontier, Resolved
  <2>2. lane[l].status \notin Idle => lane'[l] = lane[l]
    BY <2>1 DEF Synced
  <2>3. lane'[l] = lane[l] \/ lane'[l].status \in {"runnable", "blocked"}
    BY <1>1, <1>4, SyncShape
  <2>4. QED
    BY <2>2, <2>3 DEF Closing, Concluded, Idle
<1>5. ASSUME NEW o \in Orchestrations, ExpireLeases(o)
      PROVE  \/ lane'[l] = lane[l]
             \/ lane[l].status \notin Closing /\ lane'[l].status \in Idle
  BY <1>1, <1>5, ExpireShape DEF Closing, Concluded, Idle, Mutating
<1>6. ASSUME NEW k \in Lanes, LeaseRunsOut(k)
      PROVE  lane'[l].status = lane[l].status /\ lane'[l].token = lane[l].token
  BY <1>1, <1>6 DEF LeaseRunsOut, Lane, TypeOK
<1>7. QED
  BY <1>2, <1>3, <1>4, <1>5, <1>6 DEF Elsewhere, laneVars, GetLane

LEMMA ElsewhereRecords ==
  ASSUME CompletionInv, Elsewhere
  PROVE  RecordInv'
<1>1. committed' = committed /\ conclusion' = conclusion
  BY DEF Elsewhere, historyVars
<1>2. Idle \cap Closing = {} /\ Idle \cap Mutating = {}
  BY DEF Idle, Closing, Mutating, Concluded
<1>3. QED
  BY <1>1, <1>2, ElsewhereLanes, Parts, RecordsUndisturbed

\* A completed lease makes its key the lane's only completer: the lane was
\* leased, so no other key had completed it.
LEMMA CompleteRecords ==
  ASSUME CompletionInv, NEW c \in Callers, Complete(c), Fresh(c, "complete"), CompleteLease(c)
  PROVE  RecordInv'
<1> DEFINE k == key[c]
           l == view[c].id
<1>1. /\ k \in Keys /\ l = Asked[k].lane /\ l \in Lanes /\ lane[l] \in Lane
      /\ lane'[l] = LeaseCompleted(lane[l])
      /\ \A m \in Lanes \ {l} : lane'[m] = lane[m]
  BY WrittenLane DEF Complete, CompleteLease
<1>2. lane'[l].status = "review" /\ lane'[l].token = lane[l].token
  BY <1>1, EventEffects DEF Concluded
<1>3. lane[l].status \in Mutating /\ lane[l].token # 0 /\ lane[l].status \notin Closing
  BY <1>1, Parts DEF CompleteLease, HoldsLease, RecordInv, ClosedByKey, Mutating, Closing, Concluded
<1>4. /\ committed' = committed \cup {<<k, "complete">>} /\ conclusion' = conclusion
      /\ \A d \in Asked[k].dims : <<k, d>> \in committed
  BY Parts DEF Complete, Written, ChainInv, Did
<1>5. \A j \in Keys : Did(j, "complete") => Asked[j].lane # l
  BY <1>3, Parts DEF RecordInv, KeyInv
<1>6. /\ \A j \in Keys : /\ <<j, "review">> \in committed' <=> Did(j, "review")
                         /\ <<j, "terminal">> \in committed' <=> Did(j, "terminal")
                         /\ <<j, "complete">> \in committed' <=> Did(j, "complete") \/ j = k
      /\ committed \subseteq committed'
  BY <1>4 DEF Did
<1>7. "review" \in Closing /\ "review" \notin Concluded \cup Mutating
  BY DEF Closing, Concluded, Mutating
<1>8. ASSUME NEW j \in Keys PROVE KeyInv(j)'
  <2>1. CASE j = k
    <3>1. ~Did(k, "review") /\ ~Did(k, "terminal")
      BY <1>1, <1>5, Parts DEF RecordInv, KeyInv
    <3>2. QED
      BY <1>1, <1>2, <1>3, <1>4, <1>6, <1>7, <2>1, <3>1 DEF KeyInv, Did
  <2>2. CASE j # k
    <3>1. KeyInv(j) /\ Asked[j].lane \in Lanes
      BY Parts DEF RecordInv
    <3>2. CASE Did(j, "complete")
      <4>1. lane'[Asked[j].lane] = lane[Asked[j].lane]
        BY <1>1, <1>5, <3>1, <3>2
      <4>2. QED
        BY <1>4, <1>6, <2>2, <3>1, <4>1 DEF KeyInv, Did
    <3>3. CASE ~Did(j, "complete")
      BY <1>6, <2>2, <3>1, <3>3 DEF KeyInv, Did
    <3>4. QED
      BY <3>2, <3>3
  <2>3. QED
    BY <2>1, <2>2
<1>9. OneCompleter'
  BY <1>1, <1>5, <1>6, Parts DEF RecordInv, OneCompleter, Did
<1>10. ASSUME NEW m \in Lanes PROVE ClosedByKey(m)'
  <2>1. CASE m = l
    BY <1>1, <1>2, <1>6, <1>7, <2>1 DEF ClosedByKey, Did
  <2>2. CASE m # l
    <3>1. ClosedByKey(m) /\ lane'[m] = lane[m]
      BY <1>1, <2>2, Parts DEF RecordInv
    <3>2. QED
      BY <1>6, <3>1 DEF ClosedByKey, Did
  <2>3. QED
    BY <2>1, <2>2
<1>11. ASSUME NEW m \in Lanes PROVE ReviewedByKey(m)'
  BY <1>4, <1>11, Parts DEF RecordInv, ReviewedByKey, Did
<1>12. QED
  BY <1>8, <1>9, <1>10, <1>11 DEF RecordInv

\* The key that reviews a lane is the one that completed it.
LEMMA ReviewRecords ==
  ASSUME CompletionInv, NEW c \in Callers, Review(c), Fresh(c, "review"), Annotate(c),
         conclusion' = [conclusion EXCEPT ![view[c].id] = key[c]]
  PROVE  RecordInv'
<1> DEFINE k == key[c]
           l == view[c].id
<1>1. /\ k \in Keys /\ l = Asked[k].lane /\ l \in Lanes /\ lane[l] \in Lane
      /\ lane'[l] = Event(lane[l])
      /\ \A m \in Lanes \ {l} : lane'[m] = lane[m]
  BY WrittenLane DEF Review, Annotate
<1>2. \A m \in Lanes : lane'[m].status = lane[m].status /\ lane'[m].token = lane[m].token
  BY <1>1, EventEffects DEF Concluded
<1>3. committed' = committed \cup {<<k, "review">>} /\ Did(k, "complete")
  BY Parts DEF Review, Written, ChainInv
<1>4. /\ \A j \in Keys : /\ <<j, "complete">> \in committed' <=> Did(j, "complete")
                         /\ <<j, "terminal">> \in committed' <=> Did(j, "terminal")
                         /\ <<j, "review">> \in committed' <=> Did(j, "review") \/ j = k
      /\ committed \subseteq committed'
  BY <1>3 DEF Did
<1>5. conclusion'[l] = k /\ \A m \in Lanes \ {l} : conclusion'[m] = conclusion[m]
  BY <1>1, Parts DEF CompletionTypeOK
<1>6. ASSUME NEW j \in Keys PROVE KeyInv(j)'
  <2>1. KeyInv(j) /\ Asked[j].lane \in Lanes
    BY Parts DEF RecordInv
  <2>2. Did(j, "review") => j = k \/ Asked[j].lane # l
    BY <1>1, <1>3, <2>1, Parts DEF RecordInv, OneCompleter, KeyInv
  <2>3. /\ Did(j, "complete")' => /\ \A d \in Asked[j].dims : Did(j, d)'
                                  /\ lane'[Asked[j].lane].status \in Closing
                                  /\ lane'[Asked[j].lane].token # 0
    BY <1>2, <1>4, <2>1 DEF KeyInv, Did
  <2>4. Did(j, "review")' => Did(j, "complete")' /\ conclusion'[Asked[j].lane] = j
    BY <1>1, <1>3, <1>4, <1>5, <2>1, <2>2 DEF KeyInv, Did
  <2>5. Did(j, "terminal")' => Did(j, "review")' /\ lane'[Asked[j].lane].status = Asked[j].outcome
    BY <1>2, <1>4, <2>1 DEF KeyInv, Did
  <2>6. QED
    BY <2>3, <2>4, <2>5 DEF KeyInv
<1>7. OneCompleter'
  BY <1>4, Parts DEF RecordInv, OneCompleter, Did
<1>8. ASSUME NEW m \in Lanes PROVE ClosedByKey(m)'
  BY <1>2, <1>4, <1>8, Parts DEF RecordInv, ClosedByKey, Did
<1>9. ASSUME NEW m \in Lanes PROVE ReviewedByKey(m)'
  BY <1>1, <1>3, <1>5, <1>9, Parts DEF RecordInv, ReviewedByKey, Did
<1>10. QED
  BY <1>6, <1>7, <1>8, <1>9 DEF RecordInv

\* The key that closes a lane is the one that completed and reviewed it.
LEMMA TerminalRecords ==
  ASSUME CompletionInv, NEW c \in Callers, Terminal(c), Fresh(c, "terminal"),
         UpdateLaneStatus(c, Asked[key[c]].outcome)
  PROVE  RecordInv'
<1> DEFINE k == key[c]
           l == view[c].id
           outcome == Asked[k].outcome
<1>1. /\ k \in Keys /\ l = Asked[k].lane /\ l \in Lanes /\ lane[l] \in Lane
      /\ lane'[l] = LaneStatusChanged(lane[l], outcome)
      /\ \A m \in Lanes \ {l} : lane'[m] = lane[m]
  BY WrittenLane DEF Terminal, UpdateLaneStatus
<1>2. outcome \in Concluded
  BY <1>1, Parts
<1>3. lane'[l].status = outcome /\ lane'[l].token = lane[l].token
  BY <1>1, <1>2, EventEffects
<1>4. /\ committed' = committed \cup {<<k, "terminal">>} /\ conclusion' = conclusion
      /\ Did(k, "complete") /\ Did(k, "review")
  BY Parts DEF Terminal, ChainInv
<1>5. /\ \A j \in Keys : /\ <<j, "complete">> \in committed' <=> Did(j, "complete")
                         /\ <<j, "review">> \in committed' <=> Did(j, "review")
                         /\ <<j, "terminal">> \in committed' <=> Did(j, "terminal") \/ j = k
      /\ committed \subseteq committed'
  BY <1>4 DEF Did
<1>6. \A j \in Keys : Did(j, "complete") /\ Asked[j].lane = l => j = k
  BY <1>1, <1>4, Parts DEF RecordInv, OneCompleter
<1>7. outcome \in Closing /\ outcome \notin Mutating
  BY <1>2 DEF Closing, Concluded, Mutating
<1>8. ASSUME NEW j \in Keys PROVE KeyInv(j)'
  <2>1. KeyInv(j) /\ Asked[j].lane \in Lanes
    BY Parts DEF RecordInv
  <2>2. CASE j = k
    BY <1>1, <1>3, <1>4, <1>5, <1>7, <2>1, <2>2 DEF KeyInv, Did
  <2>3. CASE j # k
    <3>1. Did(j, "complete") => lane'[Asked[j].lane] = lane[Asked[j].lane]
      BY <1>1, <1>6, <2>1, <2>3
    <3>2. QED
      BY <1>4, <1>5, <2>1, <2>3, <3>1 DEF KeyInv, Did
  <2>4. QED
    BY <2>2, <2>3
<1>9. OneCompleter'
  BY <1>5, Parts DEF RecordInv, OneCompleter, Did
<1>10. ASSUME NEW m \in Lanes PROVE ClosedByKey(m)'
  <2>1. CASE m = l
    BY <1>1, <1>3, <1>4, <1>5, <1>7, <2>1 DEF ClosedByKey, Did
  <2>2. CASE m # l
    <3>1. ClosedByKey(m) /\ lane'[m] = lane[m]
      BY <1>1, <2>2, Parts DEF RecordInv
    <3>2. QED
      BY <1>5, <3>1 DEF ClosedByKey, Did
  <2>3. QED
    BY <2>1, <2>2
<1>11. ASSUME NEW m \in Lanes PROVE ReviewedByKey(m)'
  BY <1>4, <1>5, <1>11, Parts DEF RecordInv, ReviewedByKey, Did
<1>12. QED
  BY <1>8, <1>9, <1>10, <1>11 DEF RecordInv

\* Every step of a call keeps what the writes say of each other.
LEMMA CallRecords ==
  ASSUME CompletionInv, NEW c \in Callers, Call(c)
  PROVE  RecordInv'
<1>1. /\ committed \subseteq committed' /\ RecordInv
      /\ \A k \in Keys : Asked[k].lane \in Lanes
  BY CallFrame, Parts
<1>2. ASSUME lane' = lane, committed' = committed, conclusion' = conclusion PROVE RecordInv'
  BY <1>1, <1>2, RecordsUndisturbed
<1>3. ASSUME NEW s, Replayed(c, s), committed' = committed \cup {<<key[c], s>>},
             conclusion' = conclusion
      PROVE  RecordInv'
  BY <1>2, <1>3 DEF Replayed, vars, laneVars
<1>4. CASE \E k \in Keys, overridden \in BOOLEAN : StartWork(c, k, overridden)
  BY <1>2, <1>4 DEF StartWork, TakeToken, GetLane, historyVars
<1>5. CASE Look(c) \/ GiveUp(c)
  BY <1>2, <1>5 DEF Look, GiveUp, TakeToken, GetLane, historyVars, vars, laneVars
<1>6. CASE Lease(c)
  <2>1. CASE GrantLease(c)
    <3> DEFINE l == view[c].id
    <3>1. /\ l \in Lanes /\ lane[l] \in Lane
          /\ lane'[l] = LeaseGranted(lane[l])
          /\ \A m \in Lanes \ {l} : lane'[m] = lane[m]
      BY <1>6, <2>1, WrittenLane DEF Lease, GrantLease
    <3>2. lane'[l].status = "leased" /\ lane'[l].token # 0 /\ lane[l].status = "runnable"
      BY <2>1, <3>1, EventEffects DEF GrantLease, Concluded
    <3>3. "leased" \notin Closing /\ "runnable" \notin Closing
      BY DEF Closing, Concluded
    <3>4. committed' = committed \cup {<<key[c], "lease">>} /\ conclusion' = conclusion
      BY <1>6 DEF Lease, Written
    <3>5. QED
      BY <1>1, <3>1, <3>2, <3>3, <3>4, RecordsUndisturbed
  <2>2. CASE Replayed(c, "lease")
    BY <1>3, <1>6, <2>2 DEF Lease, Written
  <2>3. QED
    BY <1>6, <2>1, <2>2 DEF Lease
<1>7. ASSUME NEW d \in Dims, Verify(c, d) PROVE RecordInv'
  <2>1. CASE Annotate(c)
    <3> DEFINE l == view[c].id
    <3>1. /\ l \in Lanes /\ lane[l] \in Lane
          /\ lane'[l] = Event(lane[l])
          /\ \A m \in Lanes \ {l} : lane'[m] = lane[m]
      BY <1>7, <2>1, WrittenLane DEF Verify, Annotate
    <3>2. lane'[l].status = lane[l].status /\ lane'[l].token = lane[l].token
      BY <3>1, EventEffects DEF Concluded
    <3>3. committed' = committed \cup {<<key[c], d>>} /\ conclusion' = conclusion
      BY <1>7 DEF Verify, Written
    <3>4. d \notin {"complete", "review", "terminal"}
      BY CompletionAssumption DEF Chain
    <3>5. QED
      BY <1>1, <3>1, <3>2, <3>3, <3>4, RecordsUndisturbed
  <2>2. CASE Replayed(c, d)
    BY <1>3, <1>7, <2>2 DEF Verify, Written
  <2>3. QED
    BY <1>7, <2>1, <2>2 DEF Verify
<1>8. CASE Complete(c)
  <2>1. CASE Replayed(c, "complete")
    BY <1>3, <1>8, <2>1 DEF Complete, Written
  <2>2. QED
    BY <1>8, <2>1, CompleteRecords DEF Complete
<1>9. CASE Review(c)
  <2>1. CASE Replayed(c, "review") /\ UNCHANGED conclusion
    BY <1>3, <1>9, <2>1 DEF Review, Written
  <2>2. QED
    BY <1>9, <2>1, ReviewRecords DEF Review
<1>10. CASE Terminal(c)
  <2>1. CASE Replayed(c, "terminal")
    BY <1>3, <1>10, <2>1 DEF Terminal
  <2>2. QED
    BY <1>10, <2>1, TerminalRecords DEF Terminal
<1>11. QED
  BY <1>4, <1>5, <1>6, <1>7, <1>8, <1>9, <1>10 DEF Call

-----------------------------------------------------------------------------
(* The invariant. *)

LEMMA CompletionTypeStep ==
  ASSUME CompletionInv, [CompletionNext]_completionVars
  PROVE  CompletionTypeOK'
<1>1. CompletionTypeOK
  BY Parts
<1>2. CASE UNCHANGED <<callVars, historyVars>>
  BY <1>1, <1>2 DEF CompletionTypeOK, callVars, historyVars
<1>3. ASSUME NEW c \in Callers, Returned(c)
      PROVE  /\ step' \in [Callers -> Steps] /\ key' \in [Callers -> Keys \cup {NoKey}]
             /\ override' \in [Callers -> BOOLEAN] /\ todo' \in [Callers -> SUBSET Dims]
  BY <1>1, <1>3 DEF Returned, CompletionTypeOK, Steps
<1>4. ASSUME NEW c \in Callers, step[c] # "idle", NEW s \in Dims \cup Chain, NEW next \in Steps,
             Written(c, s, next)
      PROVE  /\ step' \in [Callers -> Steps] /\ key' \in [Callers -> Keys \cup {NoKey}]
             /\ override' \in [Callers -> BOOLEAN]
             /\ committed' \in SUBSET (Keys \X (Dims \cup Chain))
  BY <1>1, <1>4, Parts DEF Written, CompletionTypeOK, ChainInv
<1>5. ASSUME NEW c \in Callers, NEW k \in Keys, NEW overridden \in BOOLEAN,
             StartWork(c, k, overridden)
      PROVE  CompletionTypeOK'
  BY <1>1, <1>5, Parts DEF StartWork, CompletionTypeOK, Steps, historyVars
<1>6. ASSUME NEW c \in Callers, Lease(c) PROVE CompletionTypeOK'
  <2>1. "lease" \in Chain /\ "leased" \in Steps /\ step[c] # "idle"
    BY <1>6 DEF Lease, Chain, Steps
  <2>2. QED
    BY <1>1, <1>4, <1>6, <2>1 DEF Lease, CompletionTypeOK
<1>7. ASSUME NEW c \in Callers, Look(c) PROVE CompletionTypeOK'
  BY <1>1, <1>7 DEF Look, CompletionTypeOK, Steps, historyVars
<1>8. ASSUME NEW c \in Callers, Complete(c) PROVE CompletionTypeOK'
  <2>1. "complete" \in Chain /\ "completed" \in Steps /\ step[c] # "idle"
    BY <1>8 DEF Complete, Chain, Steps
  <2>2. QED
    BY <1>1, <1>4, <1>8, <2>1 DEF Complete, CompletionTypeOK
<1>9. ASSUME NEW c \in Callers, Review(c) PROVE CompletionTypeOK'
  <2>1. "review" \in Chain /\ "reviewed" \in Steps /\ step[c] # "idle"
    BY <1>9 DEF Review, Chain, Steps
  <2>2. conclusion' \in [Lanes -> Keys \cup {NoKey}]
    BY <1>1, <1>9, <2>1, Parts DEF Review, CompletionTypeOK, ChainInv
  <2>3. QED
    BY <1>1, <1>4, <1>9, <2>1, <2>2 DEF Review, CompletionTypeOK
<1>10. ASSUME NEW c \in Callers, Terminal(c) PROVE CompletionTypeOK'
  <2>1. "terminal" \in Chain /\ key[c] \in Keys
    BY <1>10, Parts DEF Terminal, Chain, ChainInv
  <2>2. QED
    BY <1>1, <1>3, <1>10, <2>1 DEF Terminal, CompletionTypeOK
<1>11. ASSUME NEW c \in Callers, GiveUp(c) PROVE CompletionTypeOK'
  BY <1>1, <1>3, <1>11 DEF GiveUp, CompletionTypeOK, historyVars
<1>12. ASSUME NEW c \in Callers, NEW d \in Dims, Verify(c, d) PROVE CompletionTypeOK'
  <2>1. "verified" \in Steps /\ step[c] # "idle"
    BY <1>12 DEF Verify, Steps
  <2>2. recorded' \in [Lanes -> [Dims -> Keys \cup {NoKey}]]
    <3>1. view[c].id \in Lanes /\ key[c] \in Keys
      BY <2>1, Parts DEF ChainInv
    <3>2. [recorded[view[c].id] EXCEPT ![d] = key[c]] \in [Dims -> Keys \cup {NoKey}]
      BY <1>1, <3>1 DEF CompletionTypeOK
    <3>3. recorded' \in {recorded, [recorded EXCEPT ![view[c].id] = [@ EXCEPT ![d] = key[c]]]}
      BY <1>12 DEF Verify
    <3>4. QED
      BY <1>1, <3>1, <3>2, <3>3 DEF CompletionTypeOK
  <2>3. todo' \in [Callers -> SUBSET Dims]
    BY <1>1, <1>12 DEF Verify, CompletionTypeOK
  <2>4. QED
    BY <1>1, <1>4, <1>12, <2>1, <2>2, <2>3 DEF Verify, CompletionTypeOK
<1>13. QED
  BY <1>2, <1>5, <1>6, <1>7, <1>8, <1>9, <1>10, <1>11, <1>12
     DEF CompletionNext, Elsewhere, Call, completionVars

LEMMA CompletionInitInv == Init /\ NoCalls => CompletionInv
<1> SUFFICES ASSUME Init, NoCalls PROVE CompletionInv
  OBVIOUS
<1>1. SchedulerInv
  BY InitInv
<1>2. CompletionTypeOK
  BY DEF NoCalls, CompletionTypeOK, Steps
<1>3. \A l \in Lanes : lane[l].status = "absent"
  BY DEF Init, NewLane
<1>4. RecordInv
  BY <1>3 DEF RecordInv, KeyInv, OneCompleter, ClosedByKey, ReviewedByKey, Did, NoCalls, Closing, Concluded, Mutating
<1>5. \A c \in Callers : ChainInv(c)
  BY DEF ChainInv, NoCalls
<1>6. QED
  BY <1>1, <1>2, <1>4, <1>5 DEF CompletionInv

LEMMA CompletionStepInv ==
  CompletionInv /\ [CompletionNext]_completionVars => CompletionInv'
<1> SUFFICES ASSUME CompletionInv, [CompletionNext]_completionVars PROVE CompletionInv'
  OBVIOUS
<1>1. SchedulerInv'
  BY IsSchedulerStep, StepInv DEF CompletionInv
<1>2. CompletionTypeOK'
  BY CompletionTypeStep
<1>3. RecordInv' /\ \A c \in Callers : ChainInv(c)'
  <2>1. CASE UNCHANGED completionVars
    <3>1. UNCHANGED <<lane, view, step, key, todo, committed, conclusion>>
      BY <2>1 DEF completionVars, vars, laneVars, callVars, historyVars
    <3>2. RecordInv'
      BY <3>1, Parts DEF RecordInv, KeyInv, OneCompleter, ClosedByKey, ReviewedByKey, Did
    <3>3. \A c \in Callers : ChainInv(c)'
      BY <3>1, Parts DEF ChainInv, Did
    <3>4. QED
      BY <3>2, <3>3
  <2>2. CASE Elsewhere
    <3>1. ASSUME NEW c \in Callers PROVE ChainInv(c)'
      <4>1. UNCHANGED <<step, key, todo, committed>>
        BY <2>2 DEF Elsewhere, callVars, historyVars
      <4>2. step[c] # "idle" => view'[c] = view[c]
        BY <2>2, Parts DEF Elsewhere, laneVars, CreateLane, SyncFrontier, ExpireLeases,
                           LeaseRunsOut, GetLane, TypeOK
      <4>3. QED
        BY <4>1, <4>2, Parts DEF ChainInv, Did
    <3>2. QED
      BY <2>2, <3>1, ElsewhereRecords
  <2>3. ASSUME NEW c \in Callers, Call(c) PROVE RecordInv' /\ \A d \in Callers : ChainInv(d)'
    BY <2>3, CallRecords, ChainOfOther, ChainOfOwn
  <2>4. QED
    BY <2>1, <2>2, <2>3 DEF CompletionNext
<1>4. QED
  BY <1>1, <1>2, <1>3 DEF CompletionInv

\* The chains of CompleteLaneWork, interrupted and repeated, keep the invariant.
THEOREM CompletionInvariance == CompletionSpec => []CompletionInv
<1>1. QED
  BY CompletionInitInv, CompletionStepInv, PTL DEF CompletionSpec

\* The types of what calls and their writes are made of.
THEOREM CompletionTypeCorrect == CompletionSpec => []CompletionTypeOK
<1>1. CompletionInv => CompletionTypeOK
  BY DEF CompletionInv
<1>2. QED
  BY <1>1, CompletionInvariance, PTL

\* CompleteLaneWork does to the lanes what the operations of the scheduler do,
\* so that whatever holds of the scheduler holds of it.
THEOREM CompletionSchedules == CompletionSpec => Spec
<1>1. CompletionInv /\ [CompletionNext]_completionVars => [Next]_vars
  BY IsSchedulerStep
<1>2. QED
  BY <1>1, CompletionInvariance, PTL DEF CompletionSpec, Spec

\* In particular the lanes that agents close are a table of project slots, each
\* lease is completed by its holder, a lane opens behind accepted predecessors,
\* tasks stay ordered, and work remains until all is accepted.
THEOREM CompletionInherits ==
  CompletionSpec =>
    /\ ImplementsSlots /\ LeaseFenced /\ OpenedAfterPredecessors /\ ImplementsOrder
    /\ []NoStandstill
<1>1. QED
  BY CompletionSchedules, KeepsSlots, CompletionFenced, OpenedInOrder, SchedulerKeepsOrder, WorkRemains

\* One request closes a lane, with its own verifications and conclusion.
THEOREM ClosedByOne == CompletionSpec => []OneStory
<1>1. CompletionInv => OneStory
  <2> SUFFICES ASSUME CompletionInv PROVE OneStory
    OBVIOUS
  <2>1. OneCompleter
    BY Parts DEF RecordInv
  <2>2. ASSUME NEW l \in Lanes, lane[l].status \in Concluded
        PROVE  \E k \in Keys : /\ Asked[k].lane = l /\ Asked[k].outcome = lane[l].status
                               /\ conclusion[l] = k
                               /\ \A s \in Asked[k].dims \cup {"complete", "review", "terminal"} :
                                    Did(k, s)
    <3>1. PICK k \in Keys : Asked[k].lane = l /\ Did(k, "complete") /\ Did(k, "terminal")
      BY <2>2, Parts DEF RecordInv, ClosedByKey, Closing
    <3>2. KeyInv(k)
      BY Parts DEF RecordInv
    <3>3. QED
      BY <3>1, <3>2 DEF KeyInv
  <2>3. QED
    BY <2>1, <2>2 DEF OneCompleter, OneStory
<1>2. QED
  BY <1>1, CompletionInvariance, PTL

\* A call that got past CompleteLease can be made again until the lane is closed.
THEOREM AlwaysResumable == CompletionSpec => []Resumable
<1>1. CompletionInv => Resumable
  BY Parts DEF RecordInv, KeyInv, Closing, Resumable
<1>2. QED
  BY <1>1, CompletionInvariance, PTL

-----------------------------------------------------------------------------
(* The calls implement LaneClosing. *)

Reported == committed \cap (Keys \X Dims)
Owners == {k \in Keys : Did(k, "complete")}
Outcome == [l \in Lanes |-> IF lane[l].status \in Concluded THEN lane[l].status ELSE "open"]

\* Steps that report, complete, review and close nothing.
LEMMA NothingTold ==
  ASSUME \/ committed' = committed
         \/ \E k \in Keys, s \in {"lease", "review", "terminal"} : committed' = committed \cup {<<k, s>>},
         conclusion' = conclusion,
         \A l \in Lanes : \/ lane'[l].status = lane[l].status
                          \/ lane[l].status \notin Concluded /\ lane'[l].status \notin Concluded
  PROVE  UNCHANGED Story!vars
<1>1. Reported' = Reported
  BY CompletionAssumption DEF Reported, Chain
<1>2. Owners' = Owners
  BY DEF Owners, Did
<1>3. Outcome' = Outcome
  BY DEF Outcome
<1>4. QED
  BY <1>1, <1>2, <1>3 DEF Story!vars, Reported, Owners, Outcome

\* A write of c for its lane l that is not closed, and leaves it open.
LEMMA OpenStays ==
  ASSUME NEW l \in Lanes, \A m \in Lanes \ {l} : lane'[m] = lane[m],
         lane[l].status \notin Concluded, lane'[l].status \notin Concluded
  PROVE  Outcome[l] = "open" /\ Outcome' = Outcome
BY DEF Outcome

\* RecordVerificationDimension reports.
LEMMA VerifyReports ==
  ASSUME CompletionInv, NEW c \in Callers, NEW d \in Dims, Verify(c, d), Fresh(c, d), Annotate(c)
  PROVE  Story!Next
<1>1. PICK k \in Keys, l \in Lanes :
        /\ k = key[c] /\ l = view[c].id /\ l = Asked[k].lane /\ lane[l] \in Lane
        /\ lane'[l] = Event(lane[l])
        /\ \A m \in Lanes \ {l} : lane'[m] = lane[m]
  BY WrittenLane DEF Verify, Annotate
<1>2. lane'[l].status = lane[l].status /\ lane[l].status \notin Concluded
  BY <1>1, EventEffects DEF Concluded, Annotate
<1>3. Outcome[l] = "open" /\ Outcome' = Outcome
  BY <1>1, <1>2, OpenStays
<1>4. committed' = committed \cup {<<k, d>>} /\ <<k, d>> \notin committed
  BY <1>1 DEF Verify, Written, Fresh
<1>5. Reported' = Reported \cup {<<k, d>>} /\ <<k, d>> \notin Reported
  BY <1>4 DEF Reported
<1>6. Owners' = Owners
  BY <1>4, CompletionAssumption DEF Owners, Did, Chain
<1>7. d \in Asked[k].dims
  BY <1>1, Parts DEF Verify, ChainInv
<1>8. Story!Report(k, d)
  BY <1>1, <1>3, <1>5, <1>6, <1>7
     DEF Story!Report, Story!IsOpen, Reported, Owners, Outcome, Verify
<1>9. QED
  BY <1>8 DEF Story!Next

\* CompleteLease claims the lane.
LEMMA CompleteClaims ==
  ASSUME CompletionInv, NEW c \in Callers, Complete(c), Fresh(c, "complete"), CompleteLease(c)
  PROVE  Story!Next
<1>1. PICK k \in Keys, l \in Lanes :
        /\ k = key[c] /\ l = view[c].id /\ l = Asked[k].lane /\ lane[l] \in Lane
        /\ lane'[l] = LeaseCompleted(lane[l])
        /\ \A m \in Lanes \ {l} : lane'[m] = lane[m]
  BY WrittenLane DEF Complete, CompleteLease
<1>2. lane[l].status \in Mutating /\ lane'[l].status = "review"
  BY <1>1, EventEffects DEF Concluded, CompleteLease, HoldsLease
<1>3. Outcome[l] = "open" /\ Outcome' = Outcome
  <2>1. lane[l].status \notin Concluded /\ lane'[l].status \notin Concluded
    BY <1>2 DEF Mutating, Concluded
  <2>2. QED
    BY <1>1, <2>1, OpenStays
<1>4. /\ committed' = committed \cup {<<k, "complete">>}
      /\ \A d \in Asked[k].dims : <<k, d>> \in committed
  BY <1>1, Parts DEF Complete, Written, ChainInv, Did
<1>5. \A j \in Owners : Asked[j].lane # l
  BY <1>2, Parts DEF Owners, RecordInv, KeyInv, Mutating, Closing, Concluded
<1>6. Reported' = Reported /\ \A d \in Asked[k].dims : <<k, d>> \in Reported
  BY <1>4, Parts, CompletionAssumption DEF Reported, Chain
<1>7. Owners' = Owners \cup {k}
  BY <1>4 DEF Owners, Did
<1>8. Story!Claim(k)
  BY <1>1, <1>3, <1>5, <1>6, <1>7
     DEF Story!Claim, Story!IsOpen, Reported, Owners, Outcome, Complete
<1>9. QED
  BY <1>8 DEF Story!Next

\* RecordReviewConclusion concludes for the owner.
LEMMA ReviewConcludes ==
  ASSUME CompletionInv, NEW c \in Callers, Review(c), Fresh(c, "review"), Annotate(c),
         conclusion' = [conclusion EXCEPT ![view[c].id] = key[c]]
  PROVE  Story!Next
<1>1. PICK k \in Keys, l \in Lanes :
        /\ k = key[c] /\ l = view[c].id /\ l = Asked[k].lane /\ lane[l] \in Lane
        /\ lane'[l] = Event(lane[l])
        /\ \A m \in Lanes \ {l} : lane'[m] = lane[m]
  BY WrittenLane DEF Review, Annotate
<1>2. lane'[l].status = lane[l].status /\ lane[l].status \notin Concluded
  BY <1>1, EventEffects DEF Concluded, Annotate
<1>3. Outcome[l] = "open" /\ Outcome' = Outcome
  BY <1>1, <1>2, OpenStays
<1>4. committed' = committed \cup {<<k, "review">>} /\ ~Did(k, "review") /\ Did(k, "complete")
  BY <1>1, Parts DEF Review, Written, Fresh, ChainInv, Did
<1>5. Reported' = Reported /\ Owners' = Owners /\ k \in Owners
  BY <1>4, CompletionAssumption DEF Reported, Owners, Did, Chain
<1>6. conclusion[l] = NoKey
  <2>1. SUFFICES ASSUME conclusion[l] # NoKey PROVE FALSE
    OBVIOUS
  <2>2. conclusion[l] \in Keys /\ Did(conclusion[l], "review") /\ Asked[conclusion[l]].lane = l
    BY <2>1, Parts DEF RecordInv, ReviewedByKey, CompletionTypeOK
  <2>3. Did(conclusion[l], "complete")
    BY <2>2, Parts DEF RecordInv, KeyInv
  <2>4. QED
    BY <1>1, <1>4, <2>2, <2>3, Parts DEF RecordInv, OneCompleter
<1>7. Story!Conclude(k)
  BY <1>1, <1>3, <1>5, <1>6
     DEF Story!Conclude, Story!IsOpen, Reported, Owners, Outcome, Review
<1>8. QED
  BY <1>7 DEF Story!Next

\* UpdateLaneStatus closes the lane for the owner.
LEMMA TerminalCloses ==
  ASSUME CompletionInv, NEW c \in Callers, Terminal(c), Fresh(c, "terminal"),
         UpdateLaneStatus(c, Asked[key[c]].outcome)
  PROVE  Story!Next
<1>1. PICK k \in Keys, l \in Lanes :
        /\ k = key[c] /\ l = view[c].id /\ l = Asked[k].lane /\ lane[l] \in Lane
        /\ lane'[l] = LaneStatusChanged(lane[l], Asked[k].outcome)
        /\ \A m \in Lanes \ {l} : lane'[m] = lane[m]
  BY WrittenLane DEF Terminal, UpdateLaneStatus
<1>2. lane'[l].status = Asked[k].outcome /\ Asked[k].outcome \in Concluded
  BY <1>1, Parts, EventEffects
<1>3. /\ committed' = committed \cup {<<k, "terminal">>} /\ conclusion' = conclusion
      /\ ~Did(k, "terminal") /\ Did(k, "complete") /\ Did(k, "review")
  BY <1>1, Parts DEF Terminal, Fresh, ChainInv, Did
<1>4. lane[l].status \notin Concluded
  <2>1. SUFFICES ASSUME lane[l].status \in Concluded PROVE FALSE
    OBVIOUS
  <2>2. PICK j \in Keys : Asked[j].lane = l /\ Did(j, "complete") /\ Did(j, "terminal")
    BY <2>1, Parts DEF RecordInv, ClosedByKey, Closing
  <2>3. QED
    BY <1>1, <1>3, <2>2, Parts DEF RecordInv, OneCompleter
<1>5. Outcome[l] = "open" /\ Outcome' = [Outcome EXCEPT ![l] = Asked[k].outcome]
  BY <1>1, <1>2, <1>4 DEF Outcome
<1>6. Reported' = Reported /\ Owners' = Owners /\ k \in Owners
  BY <1>3, CompletionAssumption DEF Reported, Owners, Did, Chain
<1>7. conclusion[l] = k
  BY <1>1, <1>3, Parts DEF RecordInv, KeyInv
<1>8. Story!Close(k)
  BY <1>1, <1>3, <1>5, <1>6, <1>7 DEF Story!Close, Story!IsOpen, Reported, Owners, Outcome
<1>9. QED
  BY <1>8 DEF Story!Next

\* A step of a call is a step of the story or none.
LEMMA CallTells ==
  ASSUME CompletionInv, NEW c \in Callers, Call(c)
  PROVE  [Story!Next]_(Story!vars)
<1>1. ASSUME lane' = lane, committed' = committed, conclusion' = conclusion
      PROVE  UNCHANGED Story!vars
  BY <1>1, NothingTold
<1>2. ASSUME NEW s, Replayed(c, s), committed' = committed \cup {<<key[c], s>>},
             conclusion' = conclusion
      PROVE  UNCHANGED Story!vars
  BY <1>1, <1>2 DEF Replayed, vars, laneVars
<1>3. CASE \E k \in Keys, overridden \in BOOLEAN : StartWork(c, k, overridden)
  BY <1>1, <1>3 DEF StartWork, TakeToken, GetLane, historyVars
<1>4. CASE Look(c) \/ GiveUp(c)
  BY <1>1, <1>4 DEF Look, GiveUp, TakeToken, GetLane, historyVars, vars, laneVars
<1>5. CASE Lease(c)
  <2>1. CASE GrantLease(c)
    <3>1. PICK l \in Lanes :
            /\ l = view[c].id /\ lane[l] \in Lane /\ key[c] \in Keys
            /\ lane'[l] = LeaseGranted(lane[l])
            /\ \A m \in Lanes \ {l} : lane'[m] = lane[m]
      BY <1>5, <2>1, WrittenLane DEF Lease, GrantLease
    <3>2. lane'[l].status = "leased" /\ lane[l].status = "runnable"
      BY <2>1, <3>1, EventEffects DEF GrantLease, Concluded
    <3>3. committed' = committed \cup {<<key[c], "lease">>} /\ conclusion' = conclusion
      BY <1>5 DEF Lease, Written
    <3>4. "leased" \notin Concluded /\ "runnable" \notin Concluded
      BY DEF Concluded
    <3>5. QED
      BY <3>1, <3>2, <3>3, <3>4, NothingTold
  <2>2. CASE Replayed(c, "lease")
    BY <1>2, <1>5, <2>2 DEF Lease, Written
  <2>3. QED
    BY <1>5, <2>1, <2>2 DEF Lease
<1>6. ASSUME NEW d \in Dims, Verify(c, d) PROVE [Story!Next]_(Story!vars)
  <2>1. CASE Replayed(c, d)
    BY <1>2, <1>6, <2>1 DEF Verify, Written
  <2>2. QED
    BY <1>6, <2>1, VerifyReports DEF Verify
<1>7. CASE Complete(c)
  <2>1. CASE Replayed(c, "complete")
    BY <1>2, <1>7, <2>1 DEF Complete, Written
  <2>2. QED
    BY <1>7, <2>1, CompleteClaims DEF Complete
<1>8. CASE Review(c)
  <2>1. CASE Replayed(c, "review") /\ UNCHANGED conclusion
    BY <1>2, <1>8, <2>1 DEF Review, Written
  <2>2. QED
    BY <1>8, <2>1, ReviewConcludes DEF Review
<1>9. CASE Terminal(c)
  <2>1. CASE Replayed(c, "terminal")
    BY <1>2, <1>9, <2>1 DEF Terminal
  <2>2. QED
    BY <1>9, <2>1, TerminalCloses DEF Terminal
<1>10. QED
  BY <1>3, <1>4, <1>5, <1>6, <1>7, <1>8, <1>9 DEF Call

\* CompleteLaneWork, called by any number of agents, stopped and repeated, is
\* one story per lane: reports, a claim, a review and a close of one request.
THEOREM KeepsStory == CompletionSpec => ImplementsClosing
<1>1. Init /\ NoCalls => Story!Init
  <2>1. Init => \A l \in Lanes : lane[l].status = "absent"
    BY SMT DEF Init, NewLane
  <2>2. SUFFICES ASSUME NoCalls, \A l \in Lanes : lane[l].status = "absent"
                 PROVE  Story!Init
    BY <2>1
  <2>3. committed = {} /\ conclusion = [l \in Lanes |-> NoKey]
    BY <2>2 DEF NoCalls
  <2>4. Outcome = [l \in Lanes |-> "open"]
    BY <2>2 DEF Outcome, Concluded
  <2>5. QED
    BY <2>3, <2>4 DEF Story!Init, Did, Outcome
<1>2. CompletionInv /\ [CompletionNext]_completionVars => [Story!Next]_(Story!vars)
  <2> SUFFICES ASSUME CompletionInv, [CompletionNext]_completionVars
               PROVE  [Story!Next]_(Story!vars)
    OBVIOUS
  <2>1. CASE UNCHANGED completionVars
    BY <2>1, NothingTold DEF completionVars, vars, laneVars, historyVars
  <2>2. CASE Elsewhere
    <3>1. committed' = committed /\ conclusion' = conclusion
      BY <2>2 DEF Elsewhere, historyVars
    <3>2. Idle \cap Concluded = {} /\ Concluded \subseteq Closing
      BY DEF Idle, Closing, Concluded
    <3>3. QED
      BY <2>2, <3>1, <3>2, ElsewhereLanes, NothingTold
  <2>3. CASE \E c \in Callers : Call(c)
    BY <2>3, CallTells
  <2>4. QED
    BY <2>1, <2>2, <2>3 DEF CompletionNext
<1>3. QED
  BY <1>1, <1>2, CompletionInvariance, PTL DEF CompletionSpec, ImplementsClosing, Story!Spec
=============================================================================
