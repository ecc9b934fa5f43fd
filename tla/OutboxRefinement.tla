--------------------------- MODULE OutboxRefinement ---------------------------
(***************************************************************************)
(* The outbox implements ProviderWrites for every number of intents,       *)
(* workers, attempts and failures.                                         *)
(***************************************************************************)
EXTENDS OutboxProofs

\* A row that was not inserted has no claims.
AbsentUnclaimed == \A i \in Intents : status[i] = "absent" => attemptCount[i] = 0

\* Only a row that exists is claimed.
LEMMA AbsentStep ==
  ASSUME OutboxInv, AbsentUnclaimed, [Next]_vars
  PROVE  AbsentUnclaimed'
<1> USE OutboxAssumption DEF OutboxInv, TypeOK, AbsentUnclaimed, rowVars
<1>1. ASSUME NEW i \in Intents, Enqueue(i) \/ Cancel(i) \/ LeaseExpires(i) \/ BackoffElapses(i)
      PROVE  AbsentUnclaimed'
  BY <1>1 DEF Enqueue, Cancel, LeaseExpires, BackoffElapses
<1>2. ASSUME NEW w \in Workers, NEW i \in Intents, TakeClaim(w, i) PROVE AbsentUnclaimed'
  BY <1>2 DEF TakeClaim
<1>3. ASSUME NEW w \in Workers, Succeed(w) \/ Retry(w) \/ MarkAmbiguous(w) PROVE AbsentUnclaimed'
  <2>1. /\ \E to \in {"succeeded", "retrying", "reconciling"} :
             status' = [status EXCEPT ![job[w]] = to]
        /\ UNCHANGED attemptCount
    BY <1>3 DEF Succeed, Retry, MarkAmbiguous, ResolveClaim
  <2>2. QED
    BY <2>1
<1>4. ASSUME UNCHANGED <<status, attemptCount>> PROVE AbsentUnclaimed'
  BY <1>4
<1>5. ASSUME NEW w \in Workers,
             Resolve(w) \/ Execute(w) \/ ExecuteUnavailable(w) \/ CallReturns(w) \/ Reconcile(w)
             \/ RecordFails(w) \/ Notify(w) \/ Crash(w) \/ CancelContext(w) \/ Restart(w)
      PROVE  UNCHANGED <<status, attemptCount>>
  BY <1>5 DEF Resolve, Execute, ExecuteUnavailable, CallReturns, Reconcile, RecordFails, Notify,
              Crash, CancelContext, Restart
<1>6. ASSUME NEW i \in Intents, NEW n \in Numbers, ProviderApplies(i, n) \/ ProviderRejects(i, n)
      PROVE  UNCHANGED <<status, attemptCount>>
  BY <1>6 DEF ProviderApplies, ProviderRejects
<1>7. CASE UNCHANGED vars
  BY <1>7 DEF vars
<1>8. QED
  BY <1>1, <1>2, <1>3, <1>4, <1>5, <1>6, <1>7 DEF Next, WorkerStep, Claim, ClaimByID

-----------------------------------------------------------------------------
(* The four ways a step can show, in terms of the mapping. *)

Same(i) == Phase(i)' = Phase(i) /\ Landed(i)' = Landed(i)

\* A step that shows nothing.
LEMMA ShowsNothing ==
  ASSUME \A i \in Intents : Same(i)
  PROVE  UNCHANGED Promise!vars
BY DEF Same, Promise!vars

\* A step that moves the phase of one write is the abstract step that does.
LEMMA ShowsPhase ==
  ASSUME NEW i \in Intents, Landed(i)' = Landed(i),
         \A k \in Intents \ {i} : Same(k)
  PROVE  /\ Phase(i) = "absent" /\ Phase(i)' = "open" => Promise!Admit(i)
         /\ Phase(i) = "open" /\ Phase(i)' = "cancelled" => Promise!Withdraw(i)
         /\ Phase(i) = "open" /\ Phase(i)' = "succeeded" /\ Landed(i) => Promise!Acknowledge(i)
BY DEF Same, Promise!Admit, Promise!Withdraw, Promise!Acknowledge

\* A step that brings about the effect of one write.
LEMMA ShowsEffect ==
  ASSUME NEW i \in Intents, Phase(i)' = Phase(i), Phase(i) # "absent",
         Landed(i)' = TRUE, Landed(i) = FALSE,
         \A k \in Intents \ {i} : Same(k)
  PROVE  Promise!Land(i)
BY DEF Same, Promise!Land

-----------------------------------------------------------------------------
\* The phase is a matter of the status, the effect one of the requests.
LEMMA Unseen ==
  ASSUME NEW i \in Intents
  PROVE  /\ status'[i] = status[i] => Phase(i)' = Phase(i)
         /\ request'[i] = request[i] => Landed(i)' = Landed(i)
         /\ Landed(i) \in BOOLEAN
BY DEF Phase, Landed

\* Every step is an abstract step or shows nothing.
LEMMA PromiseStep ==
  ASSUME OutboxInv, AbsentUnclaimed, [Next]_vars
  PROVE  [Promise!Next]_(Promise!vars)
<1> USE OutboxAssumption DEF OutboxInv, TypeOK
<1> DEFINE Goal == [Promise!Next]_(Promise!vars)
<1>1. ASSUME UNCHANGED <<status, request>> PROVE Goal
  BY <1>1, Unseen, ShowsNothing DEF Same
<1>2. ASSUME NEW i \in Intents, Enqueue(i) PROVE Goal
  <2>1. /\ Phase(i) = "absent" /\ Phase(i)' = "open" /\ Landed(i)' = Landed(i)
        /\ \A k \in Intents \ {i} : Same(k)
    BY <1>2, Unseen DEF Enqueue, Phase, Same, Terminal
  <2>2. QED
    BY <2>1, ShowsPhase DEF Promise!Next
<1>3. ASSUME NEW i \in Intents, Cancel(i) PROVE Goal
  <2>1. /\ Phase(i) = "open" /\ Phase(i)' = "cancelled" /\ Landed(i)' = Landed(i)
        /\ \A k \in Intents \ {i} : Same(k)
    BY <1>3, Unseen DEF Cancel, Phase, Same, Terminal
  <2>2. QED
    BY <2>1, ShowsPhase DEF Promise!Next
<1>4. ASSUME NEW w \in Workers, NEW i \in Intents, TakeClaim(w, i) PROVE Goal
  <2>1. \A k \in Intents : Same(k)
    BY <1>4, Unseen DEF TakeClaim, Claimable, Phase, Same, Terminal
  <2>2. QED
    BY <2>1, ShowsNothing
<1>5. ASSUME NEW w \in Workers, Retry(w) \/ MarkAmbiguous(w) PROVE Goal
  <2>1. /\ \E to \in {"retrying", "reconciling"} : status' = [status EXCEPT ![job[w]] = to]
        /\ status[job[w]] = "claimed"
        /\ UNCHANGED request
    BY <1>5 DEF Retry, MarkAmbiguous, ResolveClaim, VerifyOwnedClaim
  <2>2. \A k \in Intents : Same(k)
    BY <2>1, Unseen DEF Phase, Same, Terminal
  <2>3. QED
    BY <2>2, ShowsNothing
<1>6. ASSUME NEW w \in Workers, Succeed(w) PROVE Goal
  <2>1. /\ status' = [status EXCEPT ![job[w]] = "succeeded"]
        /\ status[job[w]] = "claimed"
        /\ UNCHANGED request
        /\ pc[w] = "record" /\ result[w] = "succeeded"
    BY <1>6 DEF Succeed, ResolveClaim, VerifyOwnedClaim
  <2>2. job[w] \in Intents /\ Landed(job[w])
    BY <2>1 DEF TicketsTaken, Busy, SuccessIsReal
  <2>3. PICK i \in Intents : i = job[w]
    BY <2>2
  <2>4. /\ status' = [status EXCEPT ![i] = "succeeded"]
        /\ status[i] = "claimed"
    BY <2>1, <2>3
  <2>5. Landed(i)
    BY <2>2, <2>3 DEF Landed
  <2>6. \A k \in Intents \ {i} : Same(k)
    BY <2>1, <2>4, Unseen DEF Same
  <2>7. /\ Phase(i) = "open" /\ Phase(i)' = "succeeded" /\ Landed(i)' = Landed(i)
    BY <2>1, <2>4, Unseen DEF Phase, Terminal
  <2>8. QED
    BY <2>5, <2>6, <2>7, ShowsPhase DEF Promise!Next
<1>7. ASSUME NEW w \in Workers, Execute(w) PROVE Goal
  <2>1. /\ request' = [request EXCEPT ![job[w]][ticket[w]] = "flying"]
        /\ UNCHANGED status
        /\ job[w] \in Intents /\ ticket[w] \in Numbers
        /\ request[job[w]][ticket[w]] = "none"
    BY <1>7 DEF Execute, SendWrite, rowVars, NotYetSent, TicketsTaken, Busy, Numbers
  <2>2. \A k \in Intents : Landed(k)' = Landed(k)
    BY <2>1 DEF Landed
  <2>3. \A k \in Intents : Same(k)
    BY <2>1, <2>2, Unseen DEF Same
  <2>4. QED
    BY <2>3, ShowsNothing
<1>8. ASSUME NEW i \in Intents, NEW n \in Numbers, ProviderRejects(i, n) PROVE Goal
  <2>1. /\ request' = [request EXCEPT ![i][n] = "rejected"]
        /\ request[i][n] = "flying"
        /\ UNCHANGED status
    BY <1>8 DEF ProviderRejects, rowVars
  <2>2. \A k \in Intents : Landed(k)' = Landed(k)
    BY <2>1 DEF Landed
  <2>3. \A k \in Intents : Same(k)
    BY <2>1, <2>2, Unseen DEF Same
  <2>4. QED
    BY <2>3, ShowsNothing
<1>9. ASSUME NEW i \in Intents, NEW n \in Numbers, ProviderApplies(i, n) PROVE Goal
  <2>1. /\ request' = [request EXCEPT ![i][n] = "applied"]
        /\ request[i][n] = "flying"
        /\ UNCHANGED status
    BY <1>9 DEF ProviderApplies, rowVars
  <2>2. Landed(i)' = TRUE /\ \A k \in Intents \ {i} : Same(k)
    BY <2>1, Unseen DEF Landed, Same
  <2>3. Phase(i)' = Phase(i) /\ Phase(i) # "absent"
    <3>1. n <= attemptCount[i] /\ n \in Nat /\ n # 0
      BY <2>1 DEF NothingBeyondCount, Numbers
    <3>2. status[i] # "absent"
      BY <3>1 DEF AbsentUnclaimed
    <3>3. QED
      BY <2>1, <3>2, Unseen DEF Phase
  <2>4. CASE Landed(i)
    <3>1. \A k \in Intents : Same(k)
      BY <2>2, <2>3, <2>4, Unseen DEF Same
    <3>2. QED
      BY <3>1, ShowsNothing
  <2>5. CASE ~Landed(i)
    <3>1. Landed(i) = FALSE
      BY <2>5, Unseen
    <3>2. QED
      BY <2>2, <2>3, <3>1, ShowsEffect DEF Promise!Next
  <2>6. QED
    BY <2>4, <2>5
<1>10. ASSUME NEW i \in Intents, LeaseExpires(i) \/ BackoffElapses(i) PROVE Goal
  BY <1>1, <1>10 DEF LeaseExpires, BackoffElapses
<1>11. ASSUME NEW w \in Workers,
              Resolve(w) \/ ExecuteUnavailable(w) \/ CallReturns(w) \/ Reconcile(w)
              \/ RecordFails(w) \/ Notify(w) \/ Crash(w) \/ CancelContext(w) \/ Restart(w)
       PROVE  Goal
  BY <1>1, <1>11 DEF rowVars, Resolve, ExecuteUnavailable, CallReturns, Reconcile, RecordFails,
                     Notify, Crash, CancelContext, Restart
<1>12. CASE UNCHANGED vars
  BY <1>1, <1>12 DEF vars, rowVars
<1>13. QED
  BY <1>2, <1>3, <1>4, <1>5, <1>6, <1>7, <1>8, <1>9, <1>10, <1>11, <1>12
     DEF Next, WorkerStep, Claim, ClaimByID

\* Nothing was admitted, and nothing has landed, at the start.
LEMMA PromiseInit == Init => Promise!Init
BY DEF Init, Phase, Landed, Terminal, Promise!Init

\* The outbox keeps the promise of ProviderWrites, whatever fails.
THEOREM KeepsPromise == Spec => ImplementsPromise
<1>1. Init => AbsentUnclaimed
  BY DEF Init, AbsentUnclaimed
<1>2. Spec => []AbsentUnclaimed
  BY Invariance, AbsentStep, <1>1, PTL DEF Spec
<1>3. QED
  BY Invariance, PromiseInit, PromiseStep, <1>2, PTL DEF Spec, ImplementsPromise, Promise!Spec
=============================================================================
