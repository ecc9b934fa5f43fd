---------------------------- MODULE OutboxProofs ----------------------------
(***************************************************************************)
(* What holds of the outbox for every number of intents, workers, attempts *)
(* and failures.                                                           *)
(***************************************************************************)
EXTENDS Outbox, FiniteSetTheorems, WellFoundedInduction, TLAPS

\* Claims of one intent carry different attempt numbers, none beyond
\* attempt_count.
Busy(w) == pc[w] # "idle"

TicketsTaken ==
  \A w \in Workers : Busy(w) => job[w] \in Intents /\ ticket[w] \in 1 .. attemptCount[job[w]]

TicketsDiffer ==
  \A v, w \in Workers : v # w /\ Busy(v) /\ Busy(w) /\ job[v] = job[w] => ticket[v] # ticket[w]

\* Attempt rows and requests exist only up to attempt_count.
NothingBeyondCount ==
  \A i \in Intents, n \in Numbers :
    attempts[i][n] # "none" \/ request[i][n] # "none" => n <= attemptCount[i]

\* A worker that has not reached the adapter call has sent nothing.
NotYetSent ==
  \A w \in Workers : pc[w] \in {"resolve", "execute", "reconcile"} =>
    request[job[w]][ticket[w]] = "none"

\* A worker about to record success, or to announce it, is right about it.
SuccessIsReal ==
  \A w \in Workers :
    /\ pc[w] = "record" /\ result[w] = "succeeded" => Landed(job[w])
    /\ pc[w] = "notify" => status[job[w]] = "succeeded"

\* The inductive invariant.
OutboxInv ==
  /\ TypeOK
  /\ TicketsTaken
  /\ TicketsDiffer
  /\ NothingBeyondCount
  /\ NotYetSent
  /\ AttemptNumberIsFresh
  /\ SuccessIsReal
  /\ SucceededHasLanded

-----------------------------------------------------------------------------
\* The initial states satisfy the invariant.
LEMMA InitInv == Init => OutboxInv
<1> SUFFICES ASSUME Init PROVE OutboxInv
  OBVIOUS
<1> USE OutboxAssumption
<1>1. TypeOK
  BY DEF Init, TypeOK, Statuses, Numbers, Outcomes, RequestStates, Steps
<1>2. TicketsTaken /\ TicketsDiffer /\ NotYetSent /\ SuccessIsReal
  BY DEF Init, TicketsTaken, TicketsDiffer, NotYetSent, SuccessIsReal, Busy
<1>3. NothingBeyondCount /\ AttemptNumberIsFresh /\ SucceededHasLanded
  BY DEF Init, NothingBeyondCount, AttemptNumberIsFresh, SucceededHasLanded, Numbers
<1>4. QED
  BY <1>1, <1>2, <1>3 DEF OutboxInv

\* Every step keeps the type invariant.
LEMMA TypeStep == TypeOK /\ TicketsTaken /\ AttemptNumberIsFresh /\ [Next]_vars => TypeOK'
<1> SUFFICES ASSUME TypeOK, TicketsTaken, AttemptNumberIsFresh, [Next]_vars PROVE TypeOK'
  OBVIOUS
<1> USE OutboxAssumption DEF TypeOK, Statuses, Terminal, Numbers, Outcomes, RequestStates, Steps,
        rowVars, workerVars, faultVars, Spend, CancelledOr, Done, Busy, TicketsTaken
<1>1. ASSUME NEW i \in Intents, Enqueue(i) PROVE TypeOK'
  <2>1. Cardinality({j \in Intents : status[j] # "absent"}) + 1 \in Nat
    <3>1. IsFiniteSet({j \in Intents : status[j] # "absent"})
      BY FS_Subset
    <3>2. QED
      BY <3>1, FS_CardinalityType
  <2>2. QED
    BY <1>1, <2>1 DEF Enqueue
<1>2. ASSUME NEW i \in Intents, Cancel(i) PROVE TypeOK'
  BY <1>2 DEF Cancel
<1>3. ASSUME NEW i \in Intents, LeaseExpires(i) PROVE TypeOK'
  BY <1>3 DEF LeaseExpires
<1>4. ASSUME NEW i \in Intents, BackoffElapses(i) PROVE TypeOK'
  BY <1>4 DEF BackoffElapses
<1>5. ASSUME NEW i \in Intents, NEW n \in Numbers, ProviderApplies(i, n) PROVE TypeOK'
  BY <1>5 DEF ProviderApplies
<1>6. ASSUME NEW i \in Intents, NEW n \in Numbers, ProviderRejects(i, n) PROVE TypeOK'
  BY <1>6 DEF ProviderRejects
<1>7. ASSUME NEW w \in Workers, NEW i \in Intents, TakeClaim(w, i) PROVE TypeOK'
  BY <1>7 DEF TakeClaim
<1>8. ASSUME NEW w \in Workers, Resolve(w) PROVE TypeOK'
  <2>1. pc' = [pc EXCEPT ![w] = "reconcile"] \/ pc' = [pc EXCEPT ![w] = "execute"]
    BY <1>8 DEF Resolve
  <2>2. UNCHANGED faultVars \/ Spend("dbRead")
    BY <1>8 DEF Resolve
  <2>3. UNCHANGED <<rowVars, request, job, ticket, result, alive, notified>>
    BY <1>8 DEF Resolve
  <2>4. pc' \in [Workers -> Steps]
    BY <2>1
  <2>5. QED
    BY <2>2, <2>3, <2>4
<1>9. ASSUME NEW w \in Workers, Execute(w) PROVE TypeOK'
  BY <1>9 DEF Execute, SendWrite
<1>10. ASSUME NEW w \in Workers, ExecuteUnavailable(w) PROVE TypeOK'
  BY <1>10 DEF ExecuteUnavailable
<1>11. ASSUME NEW w \in Workers, CallReturns(w) PROVE TypeOK'
  <2>1. \E r \in {"succeeded", "retryable", "ambiguous"} : result' = [result EXCEPT ![w] = r]
    BY <1>11 DEF CallReturns, Classify
  <2>2. UNCHANGED faultVars \/ Spend("responseLost") \/ Spend("adapterExit")
    BY <1>11 DEF CallReturns
  <2>3. /\ pc' = [pc EXCEPT ![w] = "record"]
        /\ UNCHANGED <<rowVars, request, job, ticket, alive, notified>>
    BY <1>11 DEF CallReturns
  <2>4. QED
    BY <2>1, <2>2, <2>3
<1>12. ASSUME NEW w \in Workers, Reconcile(w) PROVE TypeOK'
  <2>1. \E r \in {"succeeded", "notApplied", "ambiguous"} : result' = [result EXCEPT ![w] = r]
    BY <1>12 DEF Reconcile, ReconcileVerdict
  <2>2. UNCHANGED faultVars \/ Spend("unknown")
    BY <1>12 DEF Reconcile
  <2>3. /\ pc' = [pc EXCEPT ![w] = "record"]
        /\ UNCHANGED <<rowVars, request, job, ticket, alive, notified>>
    BY <1>12 DEF Reconcile
  <2>4. QED
    BY <2>1, <2>2, <2>3
<1>13. ASSUME NEW w \in Workers, Succeed(w) \/ Retry(w) \/ MarkAmbiguous(w)
      PROVE  TypeOK'
  <2>1. CASE Succeed(w)
    <3>1. CASE w \in PoolWorkers
      BY <2>1, <3>1 DEF Succeed, ResolveClaim, VerifyOwnedClaim
    <3>2. CASE w \notin PoolWorkers
      <4>1. ResolveClaim(w, "succeeded", "succeeded") /\ Done(w)
            /\ retryDue' = [retryDue EXCEPT ![job[w]] = FALSE]
        BY ONLY <2>1, <3>2 DEF Succeed
      <4>2. QED
        BY <4>1 DEF ResolveClaim, VerifyOwnedClaim
    <3>3. QED
      BY <3>1, <3>2
  <2>2. CASE Retry(w)
    BY <2>2 DEF Retry, ResolveClaim, VerifyOwnedClaim
  <2>3. CASE MarkAmbiguous(w)
    BY <2>3 DEF MarkAmbiguous, ResolveClaim, VerifyOwnedClaim
  <2>4. QED
    BY <1>13, <2>1, <2>2, <2>3
<1>14. ASSUME NEW w \in Workers, RecordFails(w) PROVE TypeOK'
  BY <1>14 DEF RecordFails
<1>15. ASSUME NEW w \in Workers, Notify(w) PROVE TypeOK'
  BY <1>15 DEF Notify
<1>16. ASSUME NEW w \in Workers, Crash(w) \/ CancelContext(w) \/ Restart(w)
      PROVE  TypeOK'
  <2>1. CASE Crash(w)
    BY <2>1 DEF Crash
  <2>2. CASE CancelContext(w)
    BY <2>2 DEF CancelContext
  <2>3. CASE Restart(w)
    BY <2>3 DEF Restart
  <2>4. QED
    BY <1>16, <2>1, <2>2, <2>3
<1>17. CASE UNCHANGED vars
  BY <1>17 DEF vars
<1>18. QED
  BY <1>1, <1>2, <1>3, <1>4, <1>5, <1>6, <1>7, <1>8, <1>9, <1>10, <1>11, <1>12, <1>13, <1>14,
     <1>15, <1>16, <1>17 DEF Next, WorkerStep, Claim, ClaimByID

\* Every step keeps attempt numbers apart.
LEMMA TicketStep ==
  OutboxInv /\ [Next]_vars => TicketsTaken' /\ TicketsDiffer' /\ NothingBeyondCount'
<1> SUFFICES ASSUME OutboxInv, [Next]_vars
             PROVE  TicketsTaken' /\ TicketsDiffer' /\ NothingBeyondCount'
  OBVIOUS
<1> USE OutboxAssumption DEF OutboxInv, TypeOK, Statuses, Terminal, Numbers, rowVars, workerVars,
        Done, Busy, TicketsTaken, TicketsDiffer, NothingBeyondCount
<1> DEFINE Goal == TicketsTaken' /\ TicketsDiffer' /\ NothingBeyondCount'
<1>1. ASSUME NEW i \in Intents, Enqueue(i) \/ Cancel(i) \/ LeaseExpires(i) \/ BackoffElapses(i)
      PROVE  Goal
  <2>1. CASE Enqueue(i)
    BY <2>1 DEF Enqueue
  <2>2. CASE Cancel(i)
    BY <2>2 DEF Cancel
  <2>3. CASE LeaseExpires(i)
    BY <2>3 DEF LeaseExpires
  <2>4. CASE BackoffElapses(i)
    BY <2>4 DEF BackoffElapses
  <2>5. QED
    BY <1>1, <2>1, <2>2, <2>3, <2>4
<1>2. ASSUME NEW i \in Intents, NEW n \in Numbers, ProviderApplies(i, n) \/ ProviderRejects(i, n)
      PROVE  Goal
  <2>1. CASE ProviderApplies(i, n)
    BY <2>1 DEF ProviderApplies
  <2>2. CASE ProviderRejects(i, n)
    BY <2>2 DEF ProviderRejects
  <2>3. QED
    BY <1>2, <2>1, <2>2
<1>3. ASSUME NEW w \in Workers, NEW i \in Intents, TakeClaim(w, i) PROVE Goal
  BY <1>3 DEF TakeClaim
<1>4. ASSUME NEW w \in Workers,
             Resolve(w) \/ ExecuteUnavailable(w) \/ CallReturns(w) \/ Reconcile(w)
      PROVE  Goal
  <2>1. CASE Resolve(w)
    BY <2>1 DEF Resolve
  <2>2. CASE ExecuteUnavailable(w)
    BY <2>2 DEF ExecuteUnavailable
  <2>3. CASE CallReturns(w)
    BY <2>3 DEF CallReturns
  <2>4. CASE Reconcile(w)
    BY <2>4 DEF Reconcile
  <2>5. QED
    BY <1>4, <2>1, <2>2, <2>3, <2>4
<1>5. ASSUME NEW w \in Workers, Execute(w) PROVE Goal
  BY <1>5 DEF Execute, SendWrite
<1>6. ASSUME NEW w \in Workers, Succeed(w) \/ Retry(w) \/ MarkAmbiguous(w)
      PROVE  Goal
  <2>1. CASE Succeed(w)
    <3>1. CASE w \in PoolWorkers
      BY <2>1, <3>1 DEF Succeed, ResolveClaim, VerifyOwnedClaim
    <3>2. CASE w \notin PoolWorkers
      <4>1. ResolveClaim(w, "succeeded", "succeeded") /\ Done(w)
            /\ retryDue' = [retryDue EXCEPT ![job[w]] = FALSE]
        BY ONLY <2>1, <3>2 DEF Succeed
      <4>2. QED
        BY <4>1 DEF ResolveClaim, VerifyOwnedClaim
    <3>3. QED
      BY <3>1, <3>2
  <2>2. CASE Retry(w)
    BY <2>2 DEF Retry, ResolveClaim, VerifyOwnedClaim
  <2>3. CASE MarkAmbiguous(w)
    BY <2>3 DEF MarkAmbiguous, ResolveClaim, VerifyOwnedClaim
  <2>4. QED
    BY <1>6, <2>1, <2>2, <2>3
<1>7. ASSUME NEW w \in Workers,
             RecordFails(w) \/ Notify(w) \/ Crash(w) \/ CancelContext(w) \/ Restart(w)
      PROVE  Goal
  <2>1. CASE RecordFails(w)
    BY <2>1 DEF RecordFails
  <2>2. CASE Notify(w)
    BY <2>2 DEF Notify
  <2>3. CASE Crash(w)
    BY <2>3 DEF Crash
  <2>4. CASE CancelContext(w)
    BY <2>4 DEF CancelContext
  <2>5. CASE Restart(w)
    BY <2>5 DEF Restart
  <2>6. QED
    BY <1>7, <2>1, <2>2, <2>3, <2>4, <2>5
<1>8. CASE UNCHANGED vars
  BY <1>8 DEF vars
<1>9. QED
  BY <1>1, <1>2, <1>3, <1>4, <1>5, <1>6, <1>7, <1>8 DEF Next, WorkerStep, Claim, ClaimByID

\* Every step keeps the attempt number of a live claim unused, and what a
\* worker has not sent unsent.
LEMMA FreshStep == OutboxInv /\ [Next]_vars => AttemptNumberIsFresh' /\ NotYetSent'
<1> SUFFICES ASSUME OutboxInv, [Next]_vars PROVE AttemptNumberIsFresh' /\ NotYetSent'
  OBVIOUS
<1> USE OutboxAssumption DEF OutboxInv, TypeOK, Statuses, Terminal, Numbers, rowVars, workerVars,
        Done, Busy, TicketsTaken, TicketsDiffer, NothingBeyondCount, AttemptNumberIsFresh, NotYetSent
<1> DEFINE Goal == AttemptNumberIsFresh' /\ NotYetSent'
<1>1. ASSUME NEW i \in Intents, Enqueue(i) \/ Cancel(i) \/ LeaseExpires(i) \/ BackoffElapses(i)
      PROVE  Goal
  <2>1. CASE Enqueue(i)
    BY <2>1 DEF Enqueue
  <2>2. CASE Cancel(i)
    BY <2>2 DEF Cancel
  <2>3. CASE LeaseExpires(i)
    BY <2>3 DEF LeaseExpires
  <2>4. CASE BackoffElapses(i)
    BY <2>4 DEF BackoffElapses
  <2>5. QED
    BY <1>1, <2>1, <2>2, <2>3, <2>4
<1>2. ASSUME NEW i \in Intents, NEW n \in Numbers, ProviderApplies(i, n) \/ ProviderRejects(i, n)
      PROVE  Goal
  <2>1. CASE ProviderApplies(i, n)
    BY <2>1 DEF ProviderApplies
  <2>2. CASE ProviderRejects(i, n)
    BY <2>2 DEF ProviderRejects
  <2>3. QED
    BY <1>2, <2>1, <2>2
<1>3. ASSUME NEW w \in Workers, NEW i \in Intents, TakeClaim(w, i) PROVE Goal
  BY <1>3 DEF TakeClaim
<1>4. ASSUME NEW w \in Workers,
             Resolve(w) \/ ExecuteUnavailable(w) \/ CallReturns(w) \/ Reconcile(w)
      PROVE  Goal
  <2>1. CASE Resolve(w)
    BY <2>1 DEF Resolve
  <2>2. CASE ExecuteUnavailable(w)
    BY <2>2 DEF ExecuteUnavailable
  <2>3. CASE CallReturns(w)
    BY <2>3 DEF CallReturns
  <2>4. CASE Reconcile(w)
    BY <2>4 DEF Reconcile
  <2>5. QED
    BY <1>4, <2>1, <2>2, <2>3, <2>4
<1>5. ASSUME NEW w \in Workers, Execute(w) PROVE Goal
  BY <1>5 DEF Execute, SendWrite
<1>6. ASSUME NEW w \in Workers, Succeed(w) \/ Retry(w) \/ MarkAmbiguous(w)
      PROVE  Goal
  <2>1. CASE Succeed(w)
    <3>1. CASE w \in PoolWorkers
      BY <2>1, <3>1 DEF Succeed, ResolveClaim, VerifyOwnedClaim
    <3>2. CASE w \notin PoolWorkers
      <4>1. ResolveClaim(w, "succeeded", "succeeded") /\ Done(w)
            /\ retryDue' = [retryDue EXCEPT ![job[w]] = FALSE]
        BY ONLY <2>1, <3>2 DEF Succeed
      <4>2. QED
        BY <4>1 DEF ResolveClaim, VerifyOwnedClaim
    <3>3. QED
      BY <3>1, <3>2
  <2>2. CASE Retry(w)
    BY <2>2 DEF Retry, ResolveClaim, VerifyOwnedClaim
  <2>3. CASE MarkAmbiguous(w)
    BY <2>3 DEF MarkAmbiguous, ResolveClaim, VerifyOwnedClaim
  <2>4. QED
    BY <1>6, <2>1, <2>2, <2>3
<1>7. ASSUME NEW w \in Workers,
             RecordFails(w) \/ Notify(w) \/ Crash(w) \/ CancelContext(w) \/ Restart(w)
      PROVE  Goal
  <2>1. CASE RecordFails(w)
    BY <2>1 DEF RecordFails
  <2>2. CASE Notify(w)
    BY <2>2 DEF Notify
  <2>3. CASE Crash(w)
    BY <2>3 DEF Crash
  <2>4. CASE CancelContext(w)
    BY <2>4 DEF CancelContext
  <2>5. CASE Restart(w)
    BY <2>5 DEF Restart
  <2>6. QED
    BY <1>7, <2>1, <2>2, <2>3, <2>4, <2>5
<1>8. CASE UNCHANGED vars
  BY <1>8 DEF vars
<1>9. QED
  BY <1>1, <1>2, <1>3, <1>4, <1>5, <1>6, <1>7, <1>8 DEF Next, WorkerStep, Claim, ClaimByID

\* No step takes back an effect, a final status or a recorded attempt.
LEMMA FinalStep ==
  ASSUME OutboxInv, [Next]_vars
  PROVE  \A i \in Intents :
           /\ Landed(i) => Landed(i)'
           /\ status[i] \in Terminal => status'[i] = status[i]
           /\ \A n \in Numbers : attempts[i][n] # "none" => attempts'[i][n] = attempts[i][n]
<1> USE OutboxAssumption DEF OutboxInv, TypeOK, Statuses, Terminal, Numbers, rowVars, workerVars,
        Busy, TicketsTaken
<1> DEFINE Goal == \A i \in Intents :
                     /\ Landed(i) => Landed(i)'
                     /\ status[i] \in Terminal => status'[i] = status[i]
                     /\ \A n \in Numbers :
                          attempts[i][n] # "none" => attempts'[i][n] = attempts[i][n]
<1> SUFFICES Goal
  OBVIOUS
<1>1. ASSUME NEW i \in Intents, Enqueue(i) \/ Cancel(i) \/ LeaseExpires(i) \/ BackoffElapses(i)
      PROVE  Goal
  BY <1>1 DEF Enqueue, Cancel, LeaseExpires, BackoffElapses, Landed
<1>2. ASSUME NEW i \in Intents, NEW n \in Numbers, ProviderApplies(i, n) \/ ProviderRejects(i, n)
      PROVE  Goal
  <2>1. \E r \in {"applied", "rejected"} : request' = [request EXCEPT ![i][n] = r]
    BY <1>2 DEF ProviderApplies, ProviderRejects
  <2>2. request[i][n] = "flying" /\ UNCHANGED rowVars
    BY <1>2 DEF ProviderApplies, ProviderRejects
  <2>3. QED
    BY <2>1, <2>2 DEF Landed
<1>3. ASSUME NEW w \in Workers, NEW i \in Intents, TakeClaim(w, i) PROVE Goal
  BY <1>3 DEF TakeClaim, Claimable, Landed
<1>4. ASSUME NEW w \in Workers, Execute(w) PROVE Goal
  <2>1. request[job[w]][ticket[w]] = "none"
    BY <1>4 DEF Execute, NotYetSent
  <2>2. QED
    BY <1>4, <2>1 DEF Execute, SendWrite, Landed
<1>5. ASSUME NEW w \in Workers,
             Resolve(w) \/ ExecuteUnavailable(w) \/ CallReturns(w) \/ Reconcile(w)
             \/ RecordFails(w) \/ Notify(w) \/ Crash(w) \/ CancelContext(w) \/ Restart(w)
      PROVE  Goal
  <2>1. UNCHANGED <<rowVars, request>>
    BY <1>5 DEF Resolve, ExecuteUnavailable, CallReturns, Reconcile, RecordFails, Notify, Crash,
                CancelContext, Restart
  <2>2. QED
    BY <2>1 DEF Landed
<1>6. ASSUME NEW w \in Workers, Succeed(w) \/ Retry(w) \/ MarkAmbiguous(w) PROVE Goal
  <2>1. \E to \in Statuses, outcome \in Outcomes : ResolveClaim(w, to, outcome)
    BY <1>6 DEF Succeed, Retry, MarkAmbiguous, Outcomes
  <2>2. QED
    BY <2>1 DEF ResolveClaim, VerifyOwnedClaim, Landed
<1>7. CASE UNCHANGED vars
  BY <1>7 DEF vars, Landed
<1>8. QED
  BY <1>1, <1>2, <1>3, <1>4, <1>5, <1>6, <1>7 DEF Next, WorkerStep, Claim, ClaimByID

\* Every step keeps successes real.
LEMMA SuccessStep == OutboxInv /\ [Next]_vars => SuccessIsReal' /\ SucceededHasLanded'
<1> SUFFICES ASSUME OutboxInv, [Next]_vars PROVE SuccessIsReal' /\ SucceededHasLanded'
  OBVIOUS
<1> USE OutboxAssumption DEF OutboxInv, TypeOK, Terminal, Numbers, rowVars, workerVars, Busy,
        TicketsTaken, SuccessIsReal, SucceededHasLanded
<1> DEFINE Goal == SuccessIsReal' /\ SucceededHasLanded'
<1>0. \A i \in Intents : /\ Landed(i) => Landed(i)'
                         /\ status[i] = "succeeded" => status'[i] = "succeeded"
  BY FinalStep
<1>1. ASSUME NEW i \in Intents, Enqueue(i) \/ Cancel(i) \/ LeaseExpires(i) \/ BackoffElapses(i)
      PROVE  Goal
  BY <1>0, <1>1 DEF Enqueue, Cancel, LeaseExpires, BackoffElapses
<1>2. ASSUME NEW i \in Intents, NEW n \in Numbers, ProviderApplies(i, n) \/ ProviderRejects(i, n)
      PROVE  Goal
  BY <1>0, <1>2 DEF ProviderApplies, ProviderRejects
<1>3. ASSUME NEW w \in Workers, NEW i \in Intents, TakeClaim(w, i) PROVE Goal
  BY <1>0, <1>3 DEF TakeClaim, Claimable
<1>4. ASSUME NEW w \in Workers, Resolve(w) \/ Execute(w) \/ ExecuteUnavailable(w) PROVE Goal
  <2>1. /\ UNCHANGED <<status, job, notified>>
        /\ \A v \in Workers : v # w => pc'[v] = pc[v] /\ result'[v] = result[v]
    BY <1>4 DEF Resolve, Execute, ExecuteUnavailable
  <2>2. \/ pc'[w] \notin {"record", "notify"}
        \/ result'[w] = "retryable" /\ pc'[w] = "record"
    BY <1>4 DEF Resolve, Execute, ExecuteUnavailable
  <2>3. QED
    BY <1>0, <2>1, <2>2
<1>5. ASSUME NEW w \in Workers, CallReturns(w) PROVE Goal
  <2>1. result'[w] = "succeeded" => request[job[w]][ticket[w]] = "applied"
    BY <1>5 DEF CallReturns, Classify
  <2>2. ticket[w] \in Numbers
    BY <1>5 DEF CallReturns
  <2>3. result'[w] = "succeeded" => Landed(job[w])
    BY <2>1, <2>2 DEF Landed
  <2>4. QED
    BY <1>0, <1>5, <2>3 DEF CallReturns
<1>6. ASSUME NEW w \in Workers, Reconcile(w) PROVE Goal
  <2>1. result'[w] = "succeeded" => Landed(job[w])
    BY <1>6 DEF Reconcile, ReconcileVerdict
  <2>2. QED
    BY <1>0, <1>6, <2>1 DEF Reconcile
<1>7. ASSUME NEW w \in Workers, Succeed(w) PROVE Goal
  <2>1. ResolveClaim(w, "succeeded", "succeeded")
    BY <1>7 DEF Succeed
  <2>2. (pc' = [pc EXCEPT ![w] = "notify"] /\ UNCHANGED <<job, result>>) \/ Done(w)
    BY <1>7 DEF Succeed
  <2>3. Landed(job[w]) /\ job[w] \in Intents
    BY <2>1 DEF ResolveClaim
  <2>4. /\ status' = [status EXCEPT ![job[w]] = "succeeded"]
        /\ UNCHANGED notified
    BY <2>1 DEF ResolveClaim
  <2>5. SucceededHasLanded'
    BY <1>0, <2>3, <2>4
  <2>6. /\ \A v \in Workers : v # w => UNCHANGED <<pc[v], job[v], result[v]>>
        /\ (pc'[w] = "notify" /\ job'[w] = job[w]) \/ pc'[w] = "idle"
    BY <2>2 DEF Done
  <2>7. SuccessIsReal'
    <3> SUFFICES ASSUME NEW v \in Workers
                 PROVE  /\ (pc[v] = "record" /\ result[v] = "succeeded" => Landed(job[v]))'
                        /\ (pc[v] = "notify" => status[job[v]] = "succeeded")'
      OBVIOUS
    <3>1. CASE v = w
      BY <2>3, <2>4, <2>6, <3>1
    <3>2. CASE v # w
      BY <1>0, <2>6, <3>2
    <3>3. QED
      BY <3>1, <3>2
  <2>8. QED
    BY <2>5, <2>7
<1>8. ASSUME NEW w \in Workers, Retry(w) \/ MarkAmbiguous(w) PROVE Goal
  <2>1. Done(w) /\ \E to \in {"retrying", "reconciling"}, outcome \in Outcomes : ResolveClaim(w, to, outcome)
    BY <1>8 DEF Retry, MarkAmbiguous, Outcomes
  <2>2. QED
    BY <1>0, <2>1 DEF ResolveClaim, Done
<1>9. ASSUME NEW w \in Workers,
             RecordFails(w) \/ Notify(w) \/ Crash(w) \/ CancelContext(w) \/ Restart(w)
      PROVE  Goal
  BY <1>0, <1>9 DEF RecordFails, Notify, Crash, CancelContext, Restart, Done
<1>10. CASE UNCHANGED vars
  BY <1>0, <1>10 DEF vars
<1>11. QED
  BY <1>1, <1>2, <1>3, <1>4, <1>5, <1>6, <1>7, <1>8, <1>9, <1>10
     DEF Next, WorkerStep, Claim, ClaimByID

-----------------------------------------------------------------------------
\* The inductive invariant holds in every reachable state: whatever the
\* number of workers, and whatever fails.
THEOREM Invariance == Spec => []OutboxInv
<1>1. OutboxInv /\ [Next]_vars => OutboxInv'
  BY TypeStep, TicketStep, FreshStep, SuccessStep DEF OutboxInv
<1>2. QED
  BY InitInv, <1>1, PTL DEF Spec

\* Rows, attempts and workers keep the types of the schema and the Go structs.
THEOREM TypeCorrect == Spec => []TypeOK
<1>1. OutboxInv => TypeOK
  BY DEF OutboxInv
<1>2. QED
  BY Invariance, <1>1, PTL

\* A worker that owns its claim never meets a recorded attempt of the same
\* number, whoever else claims, crashes or overruns its lease.
THEOREM FreshAttempts == Spec => []AttemptNumberIsFresh
<1>1. OutboxInv => AttemptNumberIsFresh
  BY DEF OutboxInv
<1>2. QED
  BY Invariance, <1>1, PTL

\* A success that is recorded or announced is one the provider applied, under
\* every admitted failure.
THEOREM SuccessesLanded == Spec => []SucceededHasLanded
<1>1. OutboxInv => SucceededHasLanded
  BY DEF OutboxInv
<1>2. QED
  BY Invariance, <1>1, PTL

\* Final statuses and recorded attempts are never rewritten.
THEOREM FinalHistory == Spec => HistoryIsFinal
<1>1. OutboxInv /\ [Next]_vars =>
        [\A i \in Intents :
           /\ status[i] \in Terminal => status'[i] = status[i]
           /\ \A n \in Numbers :
                attempts[i][n] # "none" => attempts'[i][n] = attempts[i][n]]_vars
  BY FinalStep
<1>2. QED
  BY Invariance, <1>1, PTL DEF Spec, HistoryIsFinal

\* No two workers put the same id in claim_owner.
DistinctWorkerIds == \A v, w \in Workers : WorkerId[v] = WorkerId[w] => v = w

\* With distinct ids, every step keeps each owner on the claim it took.
LEMMA OwnerStep ==
  ASSUME DistinctWorkerIds, OutboxInv, OwnedClaimIsCurrent, [Next]_vars
  PROVE  OwnedClaimIsCurrent'
<1> USE OutboxAssumption DEF OutboxInv, TypeOK, Terminal, rowVars, workerVars, Busy, TicketsTaken,
        OwnedClaimIsCurrent, Done
<1> DEFINE Goal == OwnedClaimIsCurrent'
<1>1. ASSUME NEW i \in Intents, Enqueue(i) \/ Cancel(i) \/ LeaseExpires(i) \/ BackoffElapses(i)
      PROVE  Goal
  BY <1>1 DEF Enqueue, Cancel, LeaseExpires, BackoffElapses
<1>2. ASSUME NEW i \in Intents, NEW n \in Numbers, ProviderApplies(i, n) \/ ProviderRejects(i, n)
      PROVE  Goal
  BY <1>2 DEF ProviderApplies, ProviderRejects
<1>3. ASSUME NEW w \in Workers, NEW i \in Intents, TakeClaim(w, i) PROVE Goal
  BY <1>3 DEF TakeClaim, DistinctWorkerIds
<1>4. ASSUME NEW w \in Workers,
             Resolve(w) \/ Execute(w) \/ ExecuteUnavailable(w) \/ CallReturns(w) \/ Reconcile(w)
      PROVE  Goal
  <2>1. /\ UNCHANGED <<status, claimOwner, attemptCount, job, ticket>>
        /\ \A v \in Workers : v # w => pc'[v] = pc[v]
        /\ pc[w] # "idle"
    BY <1>4 DEF Resolve, Execute, ExecuteUnavailable, CallReturns, Reconcile
  <2>2. QED
    BY <2>1
<1>5. ASSUME NEW w \in Workers, Succeed(w) \/ Retry(w) \/ MarkAmbiguous(w) PROVE Goal
  <2>1. /\ \E to \in {"succeeded", "retrying", "reconciling"} :
             status' = [status EXCEPT ![job[w]] = to]
        /\ claimOwner' = [claimOwner EXCEPT ![job[w]] = NoOwner]
        /\ UNCHANGED attemptCount
        /\ \A v \in Workers : v # w => UNCHANGED <<pc[v], job[v], ticket[v]>>
        /\ UNCHANGED <<job[w], ticket[w]>> \/ pc'[w] = "idle"
    BY <1>5 DEF Succeed, Retry, MarkAmbiguous, ResolveClaim
  <2>2. job[w] \in Intents
    BY <1>5 DEF Succeed, Retry, MarkAmbiguous, ResolveClaim
  <2>3. status'[job[w]] # "claimed"
    BY <2>1, <2>2
  <2>4. \A v \in Workers : v # w /\ pc[v] # "idle" /\ job[v] # job[w] =>
          status'[job[v]] = status[job[v]] /\ claimOwner'[job[v]] = claimOwner[job[v]]
    BY <2>1, <2>2
  <2>5. QED
    BY <2>1, <2>3, <2>4
<1>6. ASSUME NEW w \in Workers,
             RecordFails(w) \/ Notify(w) \/ Crash(w) \/ CancelContext(w) \/ Restart(w)
      PROVE  Goal
  <2>1. UNCHANGED rowVars
    BY <1>6 DEF RecordFails, Notify, Crash, CancelContext, Restart
  <2>2. Done(w) \/ UNCHANGED <<pc, job, ticket>>
    BY <1>6 DEF RecordFails, Notify, Crash, CancelContext, Restart
  <2>3. QED
    BY <2>1, <2>2
<1>7. CASE UNCHANGED vars
  BY <1>7 DEF vars
<1>8. QED
  BY <1>1, <1>2, <1>3, <1>4, <1>5, <1>6, <1>7 DEF Next, WorkerStep, Claim, ClaimByID

\* With distinct worker ids, a worker whose lease was taken over can no longer
\* resolve the row: the ownership check alone fences it out.
THEOREM ClaimsAreCurrent ==
  ASSUME DistinctWorkerIds
  PROVE  Spec => []OwnedClaimIsCurrent
<1>1. Init => OwnedClaimIsCurrent
  BY DEF Init, OwnedClaimIsCurrent
<1>2. OutboxInv /\ OwnedClaimIsCurrent /\ [Next]_vars => OwnedClaimIsCurrent'
  BY OwnerStep
<1>3. QED
  BY Invariance, <1>1, <1>2, PTL DEF Spec

-----------------------------------------------------------------------------
(* No blind replay while the attempt history can be read. *)

ReadsSucceed == happened \cap {"cancel", "dbRead"} = {}

\* A worker that is past Resolve on the way of an execution.
Sending(w) == pc[w] \in {"execute", "calling"} \/ (pc[w] = "record" /\ result[w] = "retryable")

\* What Resolve has read of the history is still so: no ambiguity before the
\* worker's own attempt is open.
ResolvedSending ==
  \A w \in Workers : Sending(w) =>
    \A m \in Numbers : m < ticket[w] /\ attempts[job[w]][m] = "ambiguous" => Settled(job[w], m)

\* Nor before an attempt that was sent, or given up without an answer.
ResolvedSent ==
  \A i \in Intents : \A m, n \in Numbers :
    m < n /\ attempts[i][m] = "ambiguous" /\ (attempts[i][n] = "retryable" \/ request[i][n] # "none")
      => Settled(i, m)

ReplayInv == ReadsSucceed => (\A w \in Workers : alive[w]) /\ ResolvedSending /\ ResolvedSent

\* No step forgets a failure.
LEMMA FaultsRemembered == ASSUME OutboxInv, [Next]_vars PROVE happened \subseteq happened'
<1> USE DEF faultVars, Spend, CancelledOr
<1>1. ASSUME NEW i \in Intents, Enqueue(i) \/ Cancel(i) \/ LeaseExpires(i) \/ BackoffElapses(i)
      PROVE  happened \subseteq happened'
  BY <1>1 DEF Enqueue, Cancel, LeaseExpires, BackoffElapses
<1>2. ASSUME NEW i \in Intents, NEW n \in Numbers, ProviderApplies(i, n) \/ ProviderRejects(i, n)
      PROVE  happened \subseteq happened'
  BY <1>2 DEF ProviderApplies, ProviderRejects
<1>3. ASSUME NEW w \in Workers, NEW i \in Intents, TakeClaim(w, i) PROVE happened \subseteq happened'
  BY <1>3 DEF TakeClaim
<1>4. ASSUME NEW w \in Workers, WorkerStep(w) PROVE happened \subseteq happened'
  <2>1. CASE Resolve(w) \/ Execute(w) \/ ExecuteUnavailable(w) \/ CallReturns(w) \/ Reconcile(w)
    BY <2>1 DEF Resolve, Execute, ExecuteUnavailable, CallReturns, Reconcile
  <2>2. CASE Succeed(w) \/ Retry(w) \/ MarkAmbiguous(w) \/ RecordFails(w) \/ Notify(w)
    BY <2>2 DEF Succeed, Retry, MarkAmbiguous, ResolveClaim, RecordFails, Notify
  <2>3. QED
    BY <1>4, <2>1, <2>2 DEF WorkerStep
<1>5. ASSUME NEW w \in Workers, Crash(w) \/ CancelContext(w) \/ Restart(w)
      PROVE  happened \subseteq happened'
  BY <1>5 DEF Crash, CancelContext, Restart
<1>6. CASE UNCHANGED vars
  BY <1>6 DEF vars
<1>7. QED
  BY <1>1, <1>2, <1>3, <1>4, <1>5, <1>6 DEF Next, Claim, ClaimByID

\* Attempt numbers that are not none at all have a greatest.
LEMMA GreatestNumber ==
  ASSUME NEW S \in SUBSET Numbers, S # {}
  PROVE  \E n \in S : \A m \in S : m <= n
<1> USE OutboxAssumption DEF Numbers
<1> DEFINE T == {MaxAttempts - m : m \in S}
<1>1. T \subseteq Nat /\ T # {}
  <2>1. \A m \in S : MaxAttempts - m \in Nat
    OBVIOUS
  <2>2. PICK m \in S : TRUE
    OBVIOUS
  <2>3. MaxAttempts - m \in T
    OBVIOUS
  <2>4. QED
    BY <2>1, <2>3
<1>2. PICK k \in T : \A j \in T : ~(<<j, k>> \in OpToRel(<, Nat))
  <2> HIDE DEF T
  <2>1. QED
    BY <1>1, NatLessThanWellFounded, WFMin
<1>3. PICK n \in S : k = MaxAttempts - n
  OBVIOUS
<1>4. ASSUME NEW m \in S PROVE m <= n
  <2>1. MaxAttempts - m \in T /\ MaxAttempts - m \in Nat /\ k \in Nat
    BY <1>1
  <2>2. ~(MaxAttempts - m < k)
    BY <1>2, <2>1 DEF OpToRel
  <2>3. QED
    BY <1>3, <2>2
<1>5. QED
  BY <1>4

\* Every step keeps ambiguity settled before anything newer is sent.
LEMMA ReplayStep ==
  ASSUME OutboxInv, OwnedClaimIsCurrent, ReplayInv, [Next]_vars
  PROVE  ReplayInv'
<1> USE OutboxAssumption
<1> SUFFICES ASSUME ReadsSucceed'
             PROVE  (\A w \in Workers : alive[w])' /\ ResolvedSending' /\ ResolvedSent'
  BY DEF ReplayInv
<1>1. (\A w \in Workers : alive[w]) /\ ResolvedSending /\ ResolvedSent
  BY FaultsRemembered DEF ReplayInv, ReadsSucceed
<1>2. \A i \in Intents, m \in Numbers : Settled(i, m) => Settled(i, m)'
  BY FinalStep DEF Settled
<1>3. TypeOK /\ NothingBeyondCount /\ NotYetSent
      /\ \A w \in Workers : pc[w] # "idle" => job[w] \in Intents /\ ticket[w] \in 1..attemptCount[job[w]]
                                              /\ ticket[w] \in Numbers /\ attemptCount[job[w]] \in Numbers
  BY DEF OutboxInv, TicketsTaken, Busy, TypeOK, Numbers
<1> DEFINE Goal == (\A w \in Workers : alive[w])' /\ ResolvedSending' /\ ResolvedSent'
<1> DEFINE Followed(w) == Sending(w)' => Sending(w) /\ job'[w] = job[w] /\ ticket'[w] = ticket[w]
<1>4. ASSUME UNCHANGED <<attempts, request>>, \A w \in Workers : alive'[w] /\ Followed(w)
      PROVE  Goal
  <2>1. ResolvedSending'
    BY <1>1, <1>2, <1>3, <1>4 DEF ResolvedSending, Sending
  <2>2. ResolvedSent'
    BY <1>1, <1>2, <1>4 DEF ResolvedSent
  <2>3. QED
    BY <1>4, <2>1, <2>2
<1>5. ASSUME NEW i \in Intents, Enqueue(i) \/ Cancel(i) \/ LeaseExpires(i) \/ BackoffElapses(i)
      PROVE  Goal
  <2>1. UNCHANGED <<attempts, request, alive, pc, result, job, ticket>>
    BY <1>5 DEF Enqueue, Cancel, LeaseExpires, BackoffElapses, workerVars
  <2>2. QED
    BY <1>1, <1>4, <2>1 DEF Sending
<1>6. ASSUME NEW i \in Intents, NEW n \in Numbers, ProviderApplies(i, n) \/ ProviderRejects(i, n)
      PROVE  Goal
  <2>1. /\ \E r \in {"applied", "rejected"} : request' = [request EXCEPT ![i][n] = r]
        /\ request[i][n] = "flying"
        /\ UNCHANGED <<attempts, alive, pc, result, job, ticket>>
    BY <1>6 DEF ProviderApplies, ProviderRejects, rowVars, workerVars
  <2>2. \A j \in Intents, m \in Numbers : request'[j][m] # "none" => request[j][m] # "none"
    BY <1>3, <2>1 DEF TypeOK
  <2>3. ResolvedSending'
    BY <1>1, <1>2, <1>3, <2>1 DEF ResolvedSending, Sending
  <2>4. ResolvedSent'
    BY <1>1, <1>2, <2>1, <2>2 DEF ResolvedSent
  <2>5. QED
    BY <1>1, <2>1, <2>3, <2>4
<1>7. ASSUME NEW w \in Workers, NEW i \in Intents, TakeClaim(w, i) PROVE Goal
  <2>1. /\ UNCHANGED <<attempts, request, alive, result>>
        /\ pc'[w] = "resolve" /\ \A v \in Workers : v # w => UNCHANGED <<pc[v], job[v], ticket[v]>>
    BY <1>3, <1>7 DEF TakeClaim, TypeOK
  <2>2. QED
    BY <1>1, <1>4, <2>1 DEF Sending
<1>8. ASSUME NEW w \in Workers, Resolve(w) PROVE Goal
  <2>1. /\ UNCHANGED <<attempts, request, alive, job, ticket, result>>
        /\ \A v \in Workers : v # w => pc'[v] = pc[v]
        /\ pc[w] = "resolve"
    <3>1. \E s \in {"reconcile", "execute"} : pc' = [pc EXCEPT ![w] = s]
      BY <1>8 DEF Resolve
    <3>2. QED
      BY <1>3, <1>8, <3>1 DEF Resolve, rowVars, TypeOK
  <2>2. pc'[w] = IF LastAttemptOutcome(job[w], "ambiguous") THEN "reconcile" ELSE "execute"
    <3>1. ~Spend("dbRead") /\ alive[w]
      BY <1>1 DEF Spend, ReadsSucceed
    <3>2. QED
      BY <1>3, <1>8, <3>1 DEF Resolve, CancelledOr, TypeOK
  <2>3. ASSUME ~LastAttemptOutcome(job[w], "ambiguous"), NEW m \in Numbers,
               attempts[job[w]][m] = "ambiguous"
        PROVE  Settled(job[w], m)
    <3>1. m \in Recorded(job[w]) /\ Recorded(job[w]) \subseteq Numbers
      BY <2>3 DEF Recorded
    <3>2. PICK n \in Recorded(job[w]) : \A k \in Recorded(job[w]) : k <= n
      BY <3>1, GreatestNumber
    <3>3. attempts[job[w]][n] # "ambiguous"
      BY <2>3, <3>2 DEF LastAttemptOutcome
    <3>4. n \in Numbers /\ m < n
      BY <2>3, <3>1, <3>2, <3>3 DEF Numbers
    <3>5. attempts[job[w]][n] \in {"succeeded", "retryable", "notApplied"}
      BY <1>3, <2>1, <3>2, <3>3, <3>4 DEF TypeOK, Outcomes, Recorded
    <3>6. QED
      BY <1>1, <1>3, <2>1, <2>3, <3>4, <3>5 DEF Settled, ResolvedSent
  <2>4. ResolvedSending'
    <3> SUFFICES ASSUME NEW v \in Workers, Sending(v)', NEW m \in Numbers,
                        m < ticket[v], attempts[job[v]][m] = "ambiguous"
                 PROVE  Settled(job[v], m)'
      BY <2>1 DEF ResolvedSending
    <3>1. CASE v = w
      BY <1>2, <1>3, <2>1, <2>2, <2>3, <3>1 DEF Sending
    <3>2. CASE v # w
      BY <1>1, <1>2, <1>3, <2>1, <3>2 DEF Sending, ResolvedSending
    <3>3. QED
      BY <3>1, <3>2
  <2>5. ResolvedSent'
    BY <1>1, <1>2, <2>1 DEF ResolvedSent
  <2>6. QED
    BY <1>1, <2>1, <2>4, <2>5
<1>9. ASSUME NEW w \in Workers, Execute(w) PROVE Goal
  <2>1. /\ UNCHANGED <<attempts, alive, job, ticket, result>>
        /\ pc' = [pc EXCEPT ![w] = "calling"] /\ pc[w] = "execute"
        /\ request' = [request EXCEPT ![job[w]][ticket[w]] = "flying"]
    BY <1>9 DEF Execute, SendWrite, rowVars
  <2>2. \A v \in Workers : Followed(v)
    BY <1>3, <2>1 DEF Sending, TypeOK
  <2>3. ResolvedSending'
    BY <1>1, <1>2, <1>3, <2>1, <2>2 DEF ResolvedSending, Sending
  <2>4. ResolvedSent'
    <3> SUFFICES ASSUME NEW i \in Intents, NEW m \in Numbers, NEW n \in Numbers, m < n,
                        attempts[i][m] = "ambiguous", attempts[i][n] = "retryable" \/ request'[i][n] # "none"
                 PROVE  Settled(i, m)'
      BY <2>1 DEF ResolvedSent
    <3>1. CASE i = job[w] /\ n = ticket[w]
      BY <1>1, <1>2, <2>1, <3>1 DEF ResolvedSending, Sending
    <3>2. CASE ~(i = job[w] /\ n = ticket[w])
      <4>1. request'[i][n] = request[i][n]
        BY <1>3, <2>1, <3>2 DEF TypeOK
      <4>2. QED
        BY <1>1, <1>2, <4>1 DEF ResolvedSent
    <3>3. QED
      BY <3>1, <3>2
  <2>5. QED
    BY <1>1, <2>1, <2>3, <2>4
<1>10. ASSUME NEW w \in Workers, ExecuteUnavailable(w) \/ CallReturns(w) \/ Reconcile(w) PROVE Goal
  <2>1. /\ UNCHANGED <<attempts, request, alive, job, ticket>>
        /\ \A v \in Workers : v # w => UNCHANGED <<pc[v], result[v]>>
    <3>1. pc' = [pc EXCEPT ![w] = "record"] /\ \E r \in Outcomes : result' = [result EXCEPT ![w] = r]
      BY <1>10 DEF ExecuteUnavailable, CallReturns, Reconcile, Classify, ReconcileVerdict, Outcomes
    <3>2. UNCHANGED <<attempts, request, alive, job, ticket>>
      BY <1>10 DEF ExecuteUnavailable, CallReturns, Reconcile, rowVars
    <3>3. QED
      BY <1>3, <3>1, <3>2 DEF TypeOK
  <2>2. Sending(w)' => Sending(w)
    <3>1. CASE ExecuteUnavailable(w) \/ CallReturns(w)
      BY <3>1 DEF ExecuteUnavailable, CallReturns, Sending
    <3>2. CASE Reconcile(w)
      <4>1. pc'[w] = "record" /\ result'[w] # "retryable"
        BY <1>3, <3>2 DEF Reconcile, ReconcileVerdict, TypeOK
      <4>2. QED
        BY <4>1 DEF Sending
    <3>3. QED
      BY <1>10, <3>1, <3>2
  <2>3. QED
    BY <1>1, <1>4, <2>1, <2>2 DEF Sending
<1>11. ASSUME NEW w \in Workers, Succeed(w) \/ Retry(w) \/ MarkAmbiguous(w) PROVE Goal
  <2>1. PICK outcome \in Outcomes :
          /\ pc[w] = "record" /\ result[w] = outcome /\ VerifyOwnedClaim(w)
          /\ attempts' = [attempts EXCEPT ![job[w]][attemptCount[job[w]]] = outcome]
          /\ UNCHANGED <<request, alive>>
    BY <1>11 DEF Succeed, Retry, MarkAmbiguous, ResolveClaim, Outcomes
  <2>2. ticket[w] = attemptCount[job[w]]
    BY <2>1 DEF OwnedClaimIsCurrent, VerifyOwnedClaim
  <2>3. \A v \in Workers : Followed(v)
    <3>1. (pc' = [pc EXCEPT ![w] = "notify"] /\ UNCHANGED <<job, ticket, result>>) \/ Done(w)
      BY <1>11 DEF Succeed, Retry, MarkAmbiguous
    <3>2. QED
      BY <1>3, <3>1 DEF Done, Sending, TypeOK
  <2>4. \A i \in Intents, m \in Numbers :
          attempts'[i][m] = IF i = job[w] /\ m = attemptCount[i] THEN outcome ELSE attempts[i][m]
    BY <1>3, <2>1 DEF TypeOK
  <2>5. ResolvedSending'
    <3> SUFFICES ASSUME NEW v \in Workers, Sending(v)', NEW m \in Numbers,
                        m < ticket'[v], attempts'[job'[v]][m] = "ambiguous"
                 PROVE  Settled(job[v], m)'
      BY <2>3 DEF ResolvedSending
    <3>1. Sending(v) /\ job'[v] = job[v] /\ ticket'[v] = ticket[v]
      BY <2>3
    <3>2. job[v] \in Intents /\ ticket[v] <= attemptCount[job[v]] /\ ticket[v] \in Nat
          /\ attemptCount[job[v]] \in Nat
      BY <1>3, <3>1 DEF Sending, Numbers
    <3>3. m # attemptCount[job[v]]
      BY <3>1, <3>2 DEF Numbers
    <3>4. attempts[job[v]][m] = "ambiguous"
      BY <2>4, <3>1, <3>2, <3>3
    <3>5. QED
      BY <1>1, <1>2, <3>1, <3>2, <3>4 DEF ResolvedSending
  <2>6. ResolvedSent'
    <3> SUFFICES ASSUME NEW i \in Intents, NEW m \in Numbers, NEW n \in Numbers, m < n,
                        attempts'[i][m] = "ambiguous", attempts'[i][n] = "retryable" \/ request[i][n] # "none"
                 PROVE  Settled(i, m)'
      BY <2>1 DEF ResolvedSent
    <3>1. n <= attemptCount[i]
      BY <1>3, <2>1, <2>4 DEF NothingBeyondCount, TypeOK, Numbers
    <3>2. attempts[i][m] = "ambiguous"
      <4>1. attemptCount[i] \in Nat /\ m \in Nat /\ n \in Nat
        BY <1>3 DEF TypeOK, Numbers
      <4>2. m # attemptCount[i]
        BY <3>1, <4>1
      <4>3. QED
        BY <2>4, <4>2
    <3>3. CASE i = job[w] /\ n = attemptCount[i] /\ attempts'[i][n] = "retryable"
      <4>1. Sending(w)
        BY <2>1, <2>4, <3>3 DEF Sending
      <4>2. QED
        BY <1>1, <1>2, <2>2, <3>2, <3>3, <4>1 DEF ResolvedSending
    <3>4. CASE ~(i = job[w] /\ n = attemptCount[i] /\ attempts'[i][n] = "retryable")
      BY <1>1, <1>2, <2>4, <3>2, <3>4 DEF ResolvedSent
    <3>5. QED
      BY <3>3, <3>4
  <2>7. QED
    BY <1>1, <2>1, <2>5, <2>6
<1>12. ASSUME NEW w \in Workers, RecordFails(w) \/ Notify(w) \/ Crash(w) PROVE Goal
  <2>1. UNCHANGED <<attempts, request, alive>> /\ Done(w)
    BY <1>12 DEF RecordFails, Notify, Crash, rowVars
  <2>2. \A v \in Workers : Followed(v)
    BY <1>3, <2>1 DEF Done, Sending, TypeOK
  <2>3. QED
    BY <1>1, <1>4, <2>1, <2>2
<1>13. ASSUME NEW w \in Workers, CancelContext(w) \/ Restart(w) PROVE Goal
  BY <1>1, <1>13 DEF CancelContext, Restart, Spend, ReadsSucceed
<1>14. CASE UNCHANGED vars
  BY <1>1, <1>4, <1>14 DEF vars, rowVars, workerVars, Sending
<1>15. QED
  BY <1>5, <1>6, <1>7, <1>8, <1>9, <1>10, <1>11, <1>12, <1>13, <1>14
     DEF Next, WorkerStep, Claim, ClaimByID

\* With distinct worker ids, no write recorded as ambiguous is sent again
\* before reconciliation reached a verdict, as long as no context is cancelled
\* and no read fails; crashes, overruns and late effects included.
THEOREM ReplaysResolved ==
  ASSUME DistinctWorkerIds
  PROVE  Spec => []NoBlindReplay
<1>1. Init => ReplayInv
  BY DEF Init, ReplayInv, ResolvedSending, ResolvedSent, Sending
<1>2. OutboxInv /\ OwnedClaimIsCurrent /\ ReplayInv /\ [Next]_vars => ReplayInv'
  BY ReplayStep
<1>3. ReplayInv => NoBlindReplay
  BY DEF ReplayInv, ReadsSucceed, ResolvedSent, NoBlindReplay, NeverReplayedBlindly
<1>4. QED
  BY Invariance, ClaimsAreCurrent, <1>1, <1>2, <1>3, PTL DEF Spec
-----------------------------------------------------------------------------
(* One application at most while every failure is one a worker learns of. *)

Honest == happened \subseteq Truthful

\* A worker has a claim in hand.
Active(w) == pc[w] \in {"resolve", "execute", "calling", "reconcile", "record"}

\* The claim of a worker at work is the row's own, and lives, unless the row
\* was cancelled under it.
ClaimsHeld ==
  \A w \in Workers : Active(w) =>
    \/ status[job[w]] \in Terminal
    \/ /\ status[job[w]] = "claimed" /\ claimLive[job[w]]
       /\ claimOwner[job[w]] = WorkerId[w] /\ ticket[w] = attemptCount[job[w]]

\* A row is in the hands of one worker at most, and a claimed one of one.
OneAtWork == \A v, w \in Workers : Active(v) /\ Active(w) /\ job[v] = job[w] => v = w
ClaimsManned == \A i \in Intents : status[i] = "claimed" => \E w \in Workers : Active(w) /\ job[w] = i

\* What a worker is about to do tells what the provider can have applied.
HandOf(w) ==
  /\ pc[w] = "resolve" /\ Landed(job[w]) => LastAttemptOutcome(job[w], "ambiguous")
  /\ pc[w] = "execute" => ~Landed(job[w])
  /\ pc[w] = "calling" => \A n \in Numbers : n # ticket[w] => request[job[w]][n] # "applied"
  /\ pc[w] = "record" /\ result[w] \in {"retryable", "notApplied"} => ~Landed(job[w])

InHand == \A w \in Workers : HandOf(w)

\* And so does the status of a row nobody has in hand.
AtRest ==
  \A i \in Intents :
    /\ status[i] \in {"absent", "pending", "retrying"} => ~Landed(i)
    /\ status[i] = "reconciling" => LastAttemptOutcome(i, "ambiguous")

TruthInv ==
  Honest => /\ \A w \in Workers : alive[w]
            /\ ClaimsHeld /\ OneAtWork /\ ClaimsManned
            /\ InHand /\ AtRest /\ AppliedAtMostOnce

\* Every step keeps the claims manned and what is known of the provider true.
LEMMA TruthStep ==
  ASSUME OutboxInv, OutboxInv', TruthInv, [Next]_vars
  PROVE  TruthInv'
<1> USE OutboxAssumption
<1> DEFINE Parts == /\ \A w \in Workers : alive[w]
                    /\ ClaimsHeld /\ OneAtWork /\ ClaimsManned
                    /\ InHand /\ AtRest /\ AppliedAtMostOnce
<1> SUFFICES ASSUME Honest' PROVE Parts'
  BY DEF TruthInv
<1>1. (\A w \in Workers : alive[w]) /\ ClaimsHeld /\ OneAtWork /\ ClaimsManned
      /\ InHand /\ AtRest /\ AppliedAtMostOnce
  BY FaultsRemembered DEF TruthInv, Honest
<1>2. \A kind : Spend(kind) => kind \in Truthful
  BY DEF Spend, Honest
<1>3. /\ TypeOK /\ NothingBeyondCount /\ NotYetSent /\ AttemptNumberIsFresh
      /\ \A w \in Workers : pc[w] # "idle" => job[w] \in Intents /\ ticket[w] \in Numbers
  BY DEF OutboxInv, TicketsTaken, Busy, TypeOK, Numbers
<1>4. \A i \in Intents : attempts'[i] = attempts[i] =>
        (LastAttemptOutcome(i, "ambiguous")' <=> LastAttemptOutcome(i, "ambiguous"))
  BY DEF LastAttemptOutcome, Recorded
<1> DEFINE SameEffects == \A i \in Intents, n \in Numbers :
                            request'[i][n] = "applied" <=> request[i][n] = "applied"
<1>5. SameEffects => (\A i \in Intents : Landed(i)' <=> Landed(i)) /\ AppliedAtMostOnce'
  BY <1>1 DEF Landed, AppliedAtMostOnce
<1> DEFINE SameWorker(v) == /\ pc'[v] = pc[v] /\ job'[v] = job[v]
                            /\ ticket'[v] = ticket[v] /\ result'[v] = result[v]
<1> DEFINE SameRow(i) == /\ status'[i] = status[i] /\ claimLive'[i] = claimLive[i]
                         /\ claimOwner'[i] = claimOwner[i] /\ attemptCount'[i] = attemptCount[i]
                         /\ attempts'[i] = attempts[i]
<1>6. ASSUME SameEffects, NEW v \in Workers, SameWorker(v), Active(v), attempts'[job[v]] = attempts[job[v]]
      PROVE  HandOf(v)'
  <2>1. HandOf(v) /\ job[v] \in Intents
    BY <1>1, <1>3, <1>6 DEF InHand, Active
  <2>2. \A n \in Numbers : request'[job'[v]][n] = "applied" <=> request[job[v]][n] = "applied"
    BY <1>6, <2>1
  <2>3. attempts'[job'[v]] = attempts[job[v]]
    BY <1>6
  <2>4. QED
    BY <1>6, <2>1, <2>2, <2>3 DEF HandOf, Landed, LastAttemptOutcome, Recorded
<1>7. ASSUME NEW v \in Workers, ~Active(v) PROVE HandOf(v)
  BY <1>7 DEF HandOf, Active
\* A worker at work goes on; no row changes, no effect appears.
<1>8. ASSUME NEW w \in Workers, Active(w), Active(w)', UNCHANGED <<rowVars, job, ticket, alive>>,
             SameEffects, \A v \in Workers : v # w => SameWorker(v), HandOf(w)'
      PROVE  Parts'
  <2>1. \A v \in Workers : (Active(v)' <=> Active(v)) /\ job'[v] = job[v] /\ ticket'[v] = ticket[v]
    BY <1>8 DEF Active
  <2>2. ClaimsHeld' /\ OneAtWork' /\ ClaimsManned'
    BY <1>1, <1>8, <2>1 DEF ClaimsHeld, OneAtWork, ClaimsManned, rowVars
  <2>3. InHand'
    <3> SUFFICES ASSUME NEW v \in Workers, v # w PROVE HandOf(v)'
      BY <1>8 DEF InHand
    <3>1. CASE Active(v)
      BY <1>6, <1>8, <3>1 DEF rowVars
    <3>2. CASE ~Active(v)
      BY <1>8, <3>2 DEF HandOf, Active
    <3>3. QED
      BY <3>1, <3>2
  <2>4. AtRest'
    BY <1>1, <1>4, <1>5, <1>8 DEF AtRest, rowVars
  <2>5. QED
    BY <1>1, <1>5, <1>8, <2>2, <2>3, <2>4
\* A worker stops working on a row that is not claimed.
<1>9. ASSUME NEW w \in Workers, Done(w), UNCHANGED <<rowVars, request, alive>>,
             Active(w) => status[job[w]] # "claimed"
      PROVE  Parts'
  <2>1. /\ \A v \in Workers : v # w => SameWorker(v)
        /\ pc'[w] = "idle"
    BY <1>3, <1>9 DEF Done, TypeOK
  <2>2. ~Active(w)' /\ \A v \in Workers : v # w => (Active(v)' <=> Active(v))
    BY <2>1 DEF Active
  <2>3. ClaimsHeld' /\ OneAtWork'
    BY <1>1, <1>9, <2>1, <2>2 DEF ClaimsHeld, OneAtWork, rowVars
  <2>4. ClaimsManned'
    BY <1>1, <1>9, <2>1, <2>2 DEF ClaimsManned, rowVars
  <2>5. InHand'
    <3> SUFFICES ASSUME NEW v \in Workers PROVE HandOf(v)'
      BY DEF InHand
    <3>1. CASE v # w /\ Active(v)
      BY <1>6, <1>9, <2>1, <3>1 DEF rowVars
    <3>2. CASE v = w \/ ~Active(v)
      <4>1. ~Active(v)'
        BY <2>2, <3>2
      <4>2. QED
        BY <4>1 DEF HandOf, Active
    <3>3. QED
      BY <3>1, <3>2
  <2>6. AtRest'
    BY <1>1, <1>4, <1>5, <1>9 DEF AtRest, rowVars
  <2>7. QED
    BY <1>1, <1>5, <1>9, <2>3, <2>4, <2>5, <2>6
<1>10. ASSUME NEW i \in Intents, Enqueue(i) \/ Cancel(i) \/ BackoffElapses(i) PROVE Parts'
  <2>1. /\ UNCHANGED <<attemptCount, attempts, request, alive, pc, job, ticket, result>>
        /\ \A j \in Intents \ {i} : SameRow(j)
    <3>1. CASE Enqueue(i)
      BY <1>3, <3>1 DEF Enqueue, workerVars, TypeOK
    <3>2. CASE Cancel(i)
      BY <1>3, <3>2 DEF Cancel, workerVars, TypeOK
    <3>3. CASE BackoffElapses(i)
      BY <3>3 DEF BackoffElapses, workerVars
    <3>4. QED
      BY <1>10, <3>1, <3>2, <3>3
  <2>2. \/ status[i] = "absent" /\ status'[i] = "pending"
        \/ status'[i] = "cancelled"
        \/ SameRow(i)
    <3>1. CASE Enqueue(i)
      BY <1>3, <3>1 DEF Enqueue, TypeOK
    <3>2. CASE Cancel(i)
      BY <1>3, <3>2 DEF Cancel, TypeOK
    <3>3. CASE BackoffElapses(i)
      BY <3>3 DEF BackoffElapses
    <3>4. QED
      BY <1>10, <3>1, <3>2, <3>3
  <2>3. \A v \in Workers : /\ SameWorker(v) /\ (Active(v)' <=> Active(v))
                           /\ Active(v) => job[v] \in Intents
    BY <1>3, <2>1 DEF Active
  <2>4. ClaimsHeld'
    BY <1>1, <2>1, <2>2, <2>3 DEF ClaimsHeld, Terminal
  <2>5. OneAtWork' /\ ClaimsManned'
    BY <1>1, <2>1, <2>2, <2>3 DEF OneAtWork, ClaimsManned
  <2>6. InHand'
    <3> SUFFICES ASSUME NEW v \in Workers PROVE HandOf(v)'
      BY DEF InHand
    <3>1. CASE Active(v)
      BY <1>6, <2>1, <2>3, <3>1
    <3>2. CASE ~Active(v)
      BY <2>3, <3>2 DEF HandOf, Active
    <3>3. QED
      BY <3>1, <3>2
  <2>7. AtRest'
    BY <1>1, <1>4, <1>5, <2>1, <2>2 DEF AtRest
  <2>8. QED
    BY <1>1, <1>5, <2>1, <2>4, <2>5, <2>6, <2>7
\* Whoever has the row is at work, so its claim cannot run out unnoticed.
<1>11. ASSUME NEW i \in Intents, LeaseExpires(i) PROVE FALSE
  <2>1. status[i] = "claimed" /\ ~Working(i)
    BY <1>2, <1>11 DEF LeaseExpires, Truthful
  <2>2. PICK w \in Workers : Active(w) /\ job[w] = i
    BY <1>1, <2>1 DEF ClaimsManned
  <2>3. ticket[w] = attemptCount[i] /\ pc[w] # "idle"
    BY <1>1, <2>1, <2>2 DEF ClaimsHeld, Terminal, Active
  <2>4. QED
    BY <2>1, <2>2, <2>3 DEF Working
<1>12. ASSUME NEW i \in Intents, NEW n \in Numbers, ProviderApplies(i, n) PROVE Parts'
  <2>1. PICK w \in Workers : pc[w] = "calling" /\ job[w] = i /\ ticket[w] = n
    BY <1>2, <1>12 DEF ProviderApplies, Truthful, Waiting
  <2>2. /\ UNCHANGED <<rowVars, pc, job, ticket, result, alive>>
        /\ request' = [request EXCEPT ![i][n] = "applied"]
    BY <1>12 DEF ProviderApplies, workerVars
  <2>3. \A j \in Intents, m \in Numbers :
          request'[j][m] = IF j = i /\ m = n THEN "applied" ELSE request[j][m]
    BY <1>3, <2>2 DEF TypeOK
  <2>4. \A m \in Numbers : m # n => request[i][m] # "applied"
    BY <1>1, <2>1 DEF InHand, HandOf
  <2>5. Active(w) /\ \A v \in Workers : v # w /\ Active(v) => job[v] # i
    BY <1>1, <2>1 DEF OneAtWork, Active
  <2>6. \A j \in Intents : j # i => (Landed(j)' <=> Landed(j))
    BY <2>3 DEF Landed
  <2>7. ClaimsHeld' /\ OneAtWork' /\ ClaimsManned'
    BY <1>1, <2>2 DEF ClaimsHeld, OneAtWork, ClaimsManned, Active, rowVars
  <2>8. InHand'
    <3> SUFFICES ASSUME NEW v \in Workers, Active(v) PROVE HandOf(v)'
      BY <2>2 DEF InHand, HandOf, Active
    <3>1. CASE v = w
      BY <2>1, <2>2, <2>3, <2>4, <3>1 DEF HandOf
    <3>2. CASE v # w
      <4>1. job[v] \in Intents /\ job[v] # i /\ HandOf(v)
        BY <1>1, <1>3, <2>5, <3>2 DEF Active, InHand
      <4>2. \A m \in Numbers : request'[job[v]][m] = request[job[v]][m]
        BY <2>3, <4>1
      <4>3. QED
        BY <2>2, <4>1, <4>2 DEF HandOf, Landed, LastAttemptOutcome, Recorded, rowVars
    <3>3. QED
      BY <3>1, <3>2
  <2>9. AtRest'
    <3>1. status[i] \in Terminal \/ status[i] = "claimed"
      BY <1>1, <2>1, <2>5 DEF ClaimsHeld
    <3>2. QED
      BY <1>1, <1>4, <2>2, <2>6, <3>1 DEF AtRest, Terminal, rowVars
  <2>10. AppliedAtMostOnce'
    BY <1>1, <2>3, <2>4 DEF AppliedAtMostOnce
  <2>11. QED
    BY <1>1, <2>2, <2>7, <2>8, <2>9, <2>10
<1>13. ASSUME NEW i \in Intents, NEW n \in Numbers, ProviderRejects(i, n) PROVE Parts'
  <2>1. /\ UNCHANGED <<rowVars, pc, job, ticket, result, alive>>
        /\ request[i][n] = "flying" /\ request' = [request EXCEPT ![i][n] = "rejected"]
    BY <1>13 DEF ProviderRejects, workerVars
  <2>2. SameEffects
    BY <1>3, <2>1 DEF TypeOK
  <2>3. PICK w \in Workers : pc[w] = "calling"
    BY <1>13 DEF ProviderRejects, Waiting
  <2>4. Active(w) /\ Active(w)' /\ UNCHANGED rowVars
    BY <2>1, <2>3 DEF Active
  <2>5. HandOf(w)'
    BY <1>6, <2>1, <2>2, <2>4 DEF rowVars
  <2>6. QED
    BY <1>8, <2>1, <2>2, <2>4, <2>5
<1>14. ASSUME NEW w \in Workers, NEW i \in Intents, TakeClaim(w, i) PROVE Parts'
  <2>1. status[i] \in {"pending", "retrying", "reconciling"}
    <3>1. ~(status[i] = "claimed" /\ ~claimLive[i])
      BY <1>1 DEF ClaimsManned, ClaimsHeld, Terminal
    <3>2. QED
      BY <1>14, <3>1 DEF TakeClaim, Claimable
  <2>2. \A v \in Workers : Active(v) => job[v] # i
    BY <1>1, <2>1 DEF ClaimsHeld, Terminal
  <2>3. /\ \A j \in Intents \ {i} : SameRow(j)
        /\ status'[i] = "claimed" /\ claimLive'[i] = TRUE /\ claimOwner'[i] = WorkerId[w]
        /\ UNCHANGED <<attempts, request, alive, result>>
        /\ \A v \in Workers : v # w => SameWorker(v)
        /\ pc[w] = "idle" /\ pc'[w] = "resolve" /\ job'[w] = i /\ ticket'[w] = attemptCount'[i]
    BY <1>3, <1>14 DEF TakeClaim, TypeOK
  <2>4. /\ ~Active(w) /\ Active(w)'
        /\ \A v \in Workers : v # w => /\ Active(v)' <=> Active(v)
                                       /\ Active(v) => job[v] \in Intents \ {i}
    BY <1>3, <2>2, <2>3 DEF Active
  <2>5. ClaimsHeld'
    BY <1>1, <2>3, <2>4 DEF ClaimsHeld
  <2>6. OneAtWork' /\ ClaimsManned'
    BY <1>1, <2>3, <2>4 DEF OneAtWork, ClaimsManned
  <2>7. InHand'
    <3> SUFFICES ASSUME NEW v \in Workers PROVE HandOf(v)'
      BY DEF InHand
    <3>1. CASE v = w
      <4>1. Landed(i) => LastAttemptOutcome(i, "ambiguous")
        BY <1>1, <2>1 DEF AtRest
      <4>2. QED
        BY <2>3, <3>1, <4>1 DEF HandOf, Landed, LastAttemptOutcome, Recorded
    <3>2. CASE v # w /\ Active(v)
      BY <1>6, <2>3, <3>2
    <3>3. CASE v # w /\ ~Active(v)
      BY <2>4, <3>3 DEF HandOf, Active
    <3>4. QED
      BY <3>1, <3>2, <3>3
  <2>8. AtRest'
    BY <1>1, <1>4, <1>5, <2>3 DEF AtRest
  <2>9. QED
    BY <1>1, <1>5, <2>3, <2>5, <2>6, <2>7, <2>8
<1>15. ASSUME NEW w \in Workers, Resolve(w) \/ ExecuteUnavailable(w) \/ CallReturns(w) \/ Reconcile(w)
      PROVE  Parts'
  <2>1. /\ \E s \in {"reconcile", "execute", "record"} : pc' = [pc EXCEPT ![w] = s]
        /\ UNCHANGED result \/ \E r \in Outcomes : result' = [result EXCEPT ![w] = r]
    BY <1>15 DEF Resolve, ExecuteUnavailable, CallReturns, Reconcile, Classify, ReconcileVerdict, Outcomes
  <2>2. Active(w) /\ UNCHANGED <<rowVars, request, alive, job, ticket>>
    BY <1>15 DEF Resolve, ExecuteUnavailable, CallReturns, Reconcile, Active
  <2>3. Active(w)' /\ \A v \in Workers : v # w => SameWorker(v)
    BY <1>3, <2>1, <2>2 DEF Active, TypeOK
  <2>4. /\ HandOf(w) /\ alive[w] /\ job[w] \in Intents /\ ticket[w] \in Numbers
        /\ Landed(job'[w]) <=> Landed(job[w])
    BY <1>1, <1>3, <2>2 DEF InHand, Active
  <2>5. \/ pc'[w] = "reconcile"
        \/ pc'[w] = "record" /\ result'[w] \in {"succeeded", "ambiguous"}
        \/ pc'[w] \in {"execute", "record"} /\ ~Landed(job[w])
    <3>1. CASE Resolve(w)
      <4>1. ~Spend("dbRead")
        BY <1>2 DEF Truthful
      <4>2. pc[w] = "resolve"
            /\ pc'[w] = IF LastAttemptOutcome(job[w], "ambiguous") THEN "reconcile" ELSE "execute"
        BY <1>3, <2>4, <3>1, <4>1 DEF Resolve, CancelledOr, TypeOK
      <4>3. QED
        BY <2>4, <4>2 DEF HandOf
    <3>2. CASE ExecuteUnavailable(w)
      BY <1>3, <2>4, <3>2 DEF ExecuteUnavailable, HandOf, TypeOK
    <3>3. CASE CallReturns(w)
      <4>1. pc'[w] = "record" /\ pc[w] = "calling"
        BY <1>3, <3>3 DEF CallReturns, TypeOK
      <4>2. ~Spend("adapterExit")
        BY <1>2 DEF Truthful
      <4>3. result'[w] \in {"succeeded", "ambiguous"} \/ request[job[w]][ticket[w]] = "rejected"
        BY <1>3, <3>3, <4>2 DEF CallReturns, TypeOK
      <4>4. request[job[w]][ticket[w]] = "rejected" => ~Landed(job[w])
        BY <2>4, <4>1 DEF HandOf, Landed
      <4>5. QED
        BY <4>1, <4>3, <4>4
    <3>4. CASE Reconcile(w)
      BY <1>3, <3>4 DEF Reconcile, ReconcileVerdict, TypeOK
    <3>5. QED
      BY <1>15, <3>1, <3>2, <3>3, <3>4
  <2>6. HandOf(w)'
    BY <2>2, <2>5 DEF HandOf, Landed
  <2>7. QED
    BY <1>8, <2>2, <2>3, <2>6
<1>16. ASSUME NEW w \in Workers, Execute(w) PROVE Parts'
  <2>1. /\ pc[w] = "execute" /\ pc' = [pc EXCEPT ![w] = "calling"]
        /\ request' = [request EXCEPT ![job[w]][ticket[w]] = "flying"]
        /\ UNCHANGED <<rowVars, job, ticket, result, alive>>
    BY <1>16 DEF Execute, SendWrite
  <2>2. /\ Active(w) /\ Active(w)' /\ pc'[w] = "calling"
        /\ \A v \in Workers : v # w => SameWorker(v)
    BY <1>3, <2>1 DEF Active, TypeOK
  <2>3. /\ request[job[w]][ticket[w]] = "none" /\ job[w] \in Intents /\ ticket[w] \in Numbers
        /\ ~Landed(job[w])
    BY <1>1, <1>3, <2>1 DEF NotYetSent, InHand, HandOf
  <2>4. SameEffects
    BY <1>3, <2>1, <2>3 DEF TypeOK
  <2>5. HandOf(w)'
    BY <2>1, <2>2, <2>3, <2>4 DEF HandOf, Landed
  <2>6. QED
    BY <1>8, <2>1, <2>2, <2>4, <2>5
<1>17. ASSUME NEW w \in Workers, Succeed(w) \/ Retry(w) \/ MarkAmbiguous(w) PROVE Parts'
  <2>1. PICK to \in Statuses, outcome \in Outcomes :
          /\ ResolveClaim(w, to, outcome)
          /\ \/ to = "succeeded"
             \/ to = "retrying" /\ outcome \in {"retryable", "notApplied"}
             \/ to = "reconciling" /\ outcome = "ambiguous"
    BY <1>17 DEF Succeed, Retry, MarkAmbiguous, Statuses, Outcomes
  <2>2. /\ pc[w] = "record" /\ result[w] = outcome /\ Active(w) /\ job[w] \in Intents
        /\ attemptCount[job[w]] \in Numbers
    BY <1>3, <2>1 DEF ResolveClaim, VerifyOwnedClaim, AttemptNumberIsFresh, Active
  <2>3. /\ status'[job[w]] = to /\ attempts'[job[w]][attemptCount[job[w]]] = outcome
        /\ \A j \in Intents \ {job[w]} : SameRow(j)
        /\ \A n \in Numbers : n # attemptCount[job[w]] => attempts'[job[w]][n] = attempts[job[w]][n]
        /\ UNCHANGED <<attemptCount, request, alive>>
    BY <1>3, <2>1, <2>2 DEF ResolveClaim, TypeOK
  <2>4. ~Active(w)' /\ \A v \in Workers : v # w => SameWorker(v)
    <3>1. (pc' = [pc EXCEPT ![w] = "notify"] /\ UNCHANGED <<job, ticket, result>>) \/ Done(w)
      BY <1>17 DEF Succeed, Retry, MarkAmbiguous
    <3>2. QED
      BY <1>3, <3>1 DEF Done, Active, TypeOK
  <2>5. \A v \in Workers : v # w => /\ Active(v)' <=> Active(v)
                                    /\ Active(v) => job[v] \in Intents \ {job[w]}
    BY <1>1, <1>3, <2>2, <2>4 DEF Active, OneAtWork
  <2>6. to # "claimed"
    BY <2>1
  <2>7. ClaimsHeld'
    BY <1>1, <2>3, <2>4, <2>5 DEF ClaimsHeld
  <2>8. OneAtWork'
    BY <1>1, <2>4, <2>5 DEF OneAtWork
  <2>9. ClaimsManned'
    <3> SUFFICES ASSUME NEW i \in Intents, status'[i] = "claimed"
                 PROVE  \E v \in Workers : Active(v)' /\ job'[v] = i
      BY DEF ClaimsManned
    <3>1. i # job[w] /\ status[i] = "claimed"
      BY <2>3, <2>6
    <3>2. PICK v \in Workers : Active(v) /\ job[v] = i
      BY <1>1, <3>1 DEF ClaimsManned
    <3>3. QED
      BY <2>4, <2>5, <3>1, <3>2
  <2>10. InHand'
    <3> SUFFICES ASSUME NEW v \in Workers PROVE HandOf(v)'
      BY DEF InHand
    <3>1. CASE v # w /\ Active(v)
      BY <1>6, <2>3, <2>4, <2>5, <3>1
    <3>2. CASE v = w \/ ~Active(v)
      <4>1. ~Active(v)'
        BY <2>4, <2>5, <3>2
      <4>2. QED
        BY <4>1 DEF HandOf, Active
    <3>3. QED
      BY <3>1, <3>2
  <2>11. AtRest'
    <3>1. \A i \in Intents : Landed(i)' <=> Landed(i)
      BY <1>5, <2>3
    <3>2. to = "retrying" => ~Landed(job[w])
      BY <1>1, <2>1, <2>2 DEF InHand, HandOf
    <3>3. ASSUME NEW i \in Intents, i = job[w], to = "reconciling"
          PROVE  LastAttemptOutcome(i, "ambiguous")'
      <4>1. attempts'[i][attemptCount[i]] = "ambiguous" /\ attemptCount[i] \in Numbers
        BY <2>1, <2>2, <2>3, <3>3
      <4>2. ASSUME NEW m \in Numbers, attempts'[i][m] # "none" PROVE m <= attemptCount[i]
        <5>1. CASE m = attemptCount[i]
          BY <5>1 DEF Numbers
        <5>2. CASE m # attemptCount[i]
          BY <1>3, <2>3, <3>3, <4>2, <5>2 DEF NothingBeyondCount
        <5>3. QED
          BY <5>1, <5>2
      <4>3. QED
        BY <4>1, <4>2 DEF LastAttemptOutcome, Recorded
    <3>4. ASSUME NEW i \in Intents
          PROVE  /\ status'[i] \in {"absent", "pending", "retrying"} => ~Landed(i)'
                 /\ status'[i] = "reconciling" => LastAttemptOutcome(i, "ambiguous")'
      <4>1. CASE i = job[w]
        BY <2>1, <2>3, <3>1, <3>2, <3>3, <4>1
      <4>2. CASE i # job[w]
        BY <1>1, <1>4, <2>3, <3>1, <4>2 DEF AtRest
      <4>3. QED
        BY <4>1, <4>2
    <3>5. QED
      BY <3>4 DEF AtRest
  <2>12. QED
    BY <1>1, <1>5, <2>3, <2>7, <2>8, <2>9, <2>10, <2>11
<1>18. ASSUME NEW w \in Workers, RecordFails(w) PROVE Parts'
  <2>1. Active(w) /\ job[w] \in Intents /\ ~VerifyOwnedClaim(w)
    BY <1>1, <1>2, <1>3, <1>18 DEF RecordFails, Truthful, Active
  <2>2. status[job[w]] # "claimed"
    BY <1>1, <1>3, <2>1 DEF ClaimsHeld, VerifyOwnedClaim, AttemptNumberIsFresh, Terminal
  <2>3. QED
    BY <1>9, <1>18, <2>2 DEF RecordFails
<1>19. ASSUME NEW w \in Workers, Notify(w) PROVE Parts'
  BY <1>9, <1>19 DEF Notify, Active
<1>20. ASSUME NEW w \in Workers, Crash(w) \/ CancelContext(w) \/ Restart(w) PROVE FALSE
  BY <1>1, <1>2, <1>20 DEF Crash, CancelContext, Restart, Truthful
<1>21. CASE UNCHANGED vars
  <2>1. UNCHANGED <<rowVars, request, alive, pc, job, ticket, result>>
    BY <1>21 DEF vars, workerVars
  <2>2. QED
    BY <1>1, <2>1 DEF ClaimsHeld, OneAtWork, ClaimsManned, InHand, AtRest, AppliedAtMostOnce, HandOf,
                      Active, Landed, LastAttemptOutcome, Recorded, rowVars
<1>22. QED
  BY <1>10, <1>11, <1>12, <1>13, <1>14, <1>15, <1>16, <1>17, <1>18, <1>19, <1>20, <1>21
     DEF Next, WorkerStep, Claim, ClaimByID

\* A write is applied at most once, whoever shares an id, while no process
\* dies or overruns its lease, the database answers, and the adapter reports
\* what happened or that it does not know.
THEOREM OnceIfTruthful == Spec => []AppliedOnceIfTruthful
<1>1. Init => TruthInv
  BY DEF Init, TruthInv, ClaimsHeld, OneAtWork, ClaimsManned, InHand, HandOf, AtRest,
         AppliedAtMostOnce, Active, Landed
<1>2. OutboxInv /\ OutboxInv' /\ TruthInv /\ [Next]_vars => TruthInv'
  BY TruthStep
<1>3. TruthInv => AppliedOnceIfTruthful
  BY DEF TruthInv, Honest, AppliedOnceIfTruthful
<1>4. QED
  BY Invariance, <1>1, <1>2, <1>3, PTL DEF Spec
=============================================================================
