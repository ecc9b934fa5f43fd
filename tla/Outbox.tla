------------------------------- MODULE Outbox -------------------------------
(***************************************************************************)
(* The durable provider-write outbox: the rows of provider_write_intents   *)
(* and provider_write_attempts (internal/outbox), the workers that claim   *)
(* and resolve them (internal/providerwrite), the adapter call they make   *)
(* and the provider at its far end.                                        *)
(*                                                                         *)
(* Time is abstracted to what the claim predicate compares: a claim is     *)
(* live until LeaseExpires, a retry is not due until BackoffElapses.       *)
(* An intent stands for its operation fingerprint.  Every kind of failure  *)
(* is named in Faults, so a run states exactly which ones it admits, and   *)
(* MaxFaults bounds how many of them one behaviour contains.               *)
(***************************************************************************)
EXTENDS Naturals, FiniteSets

CONSTANTS
  Intents,        \* operation fingerprints
  PoolWorkers,    \* goroutines of the daemon's Pool
  SyncCallers,    \* requests running ExecuteNow
  Ids,            \* worker id strings
  WorkerId,       \* the id each worker puts in claim_owner
  Reconcilable,   \* intents whose operation has a registered reconciler
  Faults,         \* the failures that may happen
  MaxFaults,      \* how many of them may happen
  MaxAttempts,    \* bound on attempt_count
  NoOwner,        \* claim_owner = ''
  NoIntent        \* a worker that holds nothing

Workers == PoolWorkers \cup SyncCallers

FaultKinds ==
  { "crash",         \* the process that runs a worker dies
    "overrun",       \* a lease expires while its owner is still at work
    "cancel",        \* a worker's context is cancelled
    "dbRead",        \* a read of the database fails
    "dbWrite",       \* a write transaction fails and rolls back
    "gate",          \* the adapter cannot be reached before the call
    "rejected",      \* the provider refuses the write
    "responseLost",  \* the transport reports that the answer was lost
    "adapterExit",   \* the adapter dies, or its answer cannot be read
    "late",          \* a request nobody waits for is applied after all
    "unknown" }      \* reconciliation fails or cannot tell

ASSUME OutboxAssumption ==
  /\ IsFiniteSet(Intents)
  /\ PoolWorkers \cap SyncCallers = {}
  /\ WorkerId \in [Workers -> Ids]
  /\ Reconcilable \subseteq Intents
  /\ Faults \subseteq FaultKinds
  /\ MaxFaults \in Nat
  /\ MaxAttempts \in Nat
  /\ NoOwner \notin Ids
  /\ NoIntent \notin Intents

VARIABLES
  status,         \* provider_write_intents.status, "absent" before the insert
  claimOwner,     \* claim_owner
  claimLive,      \* claim_until > now
  retryDue,       \* next_attempt_at <= now
  attemptCount,   \* attempt_count
  created,        \* rank of created_at, id among the rows
  attempts,       \* provider_write_attempts: outcome per attempt number
  request,        \* at the provider: the write sent under each attempt number
  pc,             \* what each worker does next
  job,            \* the intent a worker claimed
  ticket,         \* the attempt_count its claim returned
  result,         \* what it is about to record
  alive,          \* its context is not cancelled
  notified,       \* intents whose SuccessObserver was called
  faultsLeft,     \* failures this behaviour may still contain
  happened        \* the kinds of failure it contained so far

rowVars == <<status, claimOwner, claimLive, retryDue, attemptCount, created, attempts>>
workerVars == <<pc, job, ticket, result, alive>>
faultVars == <<faultsLeft, happened>>
vars == <<rowVars, request, workerVars, notified, faultVars>>

Statuses == {"absent", "pending", "claimed", "retrying", "succeeded", "cancelled", "reconciling"}
Terminal == {"succeeded", "cancelled"}
Numbers == 1 .. MaxAttempts
\* Retry writes outcome "retryable" for both of its callers; the model keeps
\* apart the one that records reconciliation's verdict "not applied".
Outcomes == {"succeeded", "retryable", "notApplied", "ambiguous"}
RequestStates == {"none", "flying", "applied", "rejected"}
Steps == {"idle", "resolve", "execute", "calling", "reconcile", "record", "notify"}

TypeOK ==
  /\ status \in [Intents -> Statuses]
  /\ claimOwner \in [Intents -> Ids \cup {NoOwner}]
  /\ claimLive \in [Intents -> BOOLEAN]
  /\ retryDue \in [Intents -> BOOLEAN]
  /\ attemptCount \in [Intents -> 0 .. MaxAttempts]
  /\ created \in [Intents -> Nat]
  /\ attempts \in [Intents -> [Numbers -> Outcomes \cup {"none"}]]
  /\ request \in [Intents -> [Numbers -> RequestStates]]
  /\ pc \in [Workers -> Steps]
  /\ job \in [Workers -> Intents \cup {NoIntent}]
  /\ ticket \in [Workers -> 0 .. MaxAttempts]
  /\ result \in [Workers -> Outcomes \cup {"none"}]
  /\ alive \in [Workers -> BOOLEAN]
  /\ notified \in SUBSET Intents
  /\ faultsLeft \in 0 .. MaxFaults
  /\ happened \in SUBSET Faults

Init ==
  /\ status = [i \in Intents |-> "absent"]
  /\ claimOwner = [i \in Intents |-> NoOwner]
  /\ claimLive = [i \in Intents |-> FALSE]
  /\ retryDue = [i \in Intents |-> FALSE]
  /\ attemptCount = [i \in Intents |-> 0]
  /\ created = [i \in Intents |-> 0]
  /\ attempts = [i \in Intents |-> [n \in Numbers |-> "none"]]
  /\ request = [i \in Intents |-> [n \in Numbers |-> "none"]]
  /\ pc = [w \in Workers |-> "idle"]
  /\ job = [w \in Workers |-> NoIntent]
  /\ ticket = [w \in Workers |-> 0]
  /\ result = [w \in Workers |-> "none"]
  /\ alive = [w \in Workers |-> TRUE]
  /\ notified = {}
  /\ faultsLeft = MaxFaults
  /\ happened = {}

-----------------------------------------------------------------------------
(* Failures and small helpers. *)

Spend(kind) ==
  /\ kind \in Faults
  /\ faultsLeft > 0
  /\ faultsLeft' = faultsLeft - 1
  /\ happened' = happened \cup {kind}

\* The call fails because its context is cancelled, or for the given reason.
CancelledOr(w, kind) ==
  \/ ~alive[w] /\ UNCHANGED faultVars
  \/ Spend(kind)

Recorded(i) == {n \in Numbers : attempts[i][n] # "none"}

\* RunOnce or ExecuteNow returns: the worker keeps nothing of its claim.
Done(w) ==
  /\ pc' = [pc EXCEPT ![w] = "idle"]
  /\ job' = [job EXCEPT ![w] = NoIntent]
  /\ ticket' = [ticket EXCEPT ![w] = 0]
  /\ result' = [result EXCEPT ![w] = "none"]

\* The effect of i exists at the provider.
Landed(i) == \E n \in Numbers : request[i][n] = "applied"

\* Some worker is blocked in the adapter call of attempt n of i.
Waiting(i, n) == \E w \in Workers : pc[w] = "calling" /\ job[w] = i /\ ticket[w] = n

\* A worker is still at work under i's current claim.
Working(i) == \E w \in Workers : pc[w] # "idle" /\ job[w] = i /\ ticket[w] = attemptCount[i]

-----------------------------------------------------------------------------
(* internal/outbox/store.go *)

\* Enqueue: INSERT ... ON CONFLICT(operation_fingerprint) DO NOTHING; a second
\* Enqueue of the same fingerprint changes nothing and returns the row.
Enqueue(i) ==
  /\ status[i] = "absent"
  /\ status' = [status EXCEPT ![i] = "pending"]
  /\ created' = [created EXCEPT ![i] = Cardinality({j \in Intents : status[j] # "absent"}) + 1]
  /\ UNCHANGED <<claimOwner, claimLive, retryDue, attemptCount, attempts, request, workerVars,
                 notified, faultVars>>

\* Variant: a live claim does not exclude other workers.
ClaimableIgnoringLease(i) ==
  \/ status[i] \in {"pending", "claimed", "reconciling"}
  \/ status[i] = "retrying" /\ retryDue[i]

\* Variant: an expired claim is never taken over.
ClaimableNeverExpired(i) ==
  \/ status[i] \in {"pending", "reconciling"}
  \/ status[i] = "retrying" /\ retryDue[i]

\* The WHERE clause Claim and ClaimByID share.
Claimable(i) ==
  \/ status[i] = "pending"
  \/ status[i] = "retrying" /\ retryDue[i]
  \/ status[i] = "claimed" /\ ~claimLive[i]
  \/ status[i] = "reconciling"

\* Variant: reclaiming an expired claim leaves claim_owner as it was.
TakeClaimKeepingOwner(w, i) ==
  /\ pc[w] = "idle"
  /\ alive[w]
  /\ Claimable(i)
  /\ attemptCount[i] < MaxAttempts
  /\ status' = [status EXCEPT ![i] = "claimed"]
  /\ claimOwner' = [claimOwner EXCEPT ![i] = IF @ = NoOwner THEN WorkerId[w] ELSE @]
  /\ claimLive' = [claimLive EXCEPT ![i] = TRUE]
  /\ attemptCount' = [attemptCount EXCEPT ![i] = @ + 1]
  /\ pc' = [pc EXCEPT ![w] = "resolve"]
  /\ job' = [job EXCEPT ![w] = i]
  /\ ticket' = [ticket EXCEPT ![w] = attemptCount[i] + 1]
  /\ UNCHANGED <<retryDue, created, attempts, request, result, alive, notified, faultVars>>

\* Variant: only the first claim counts as an attempt.
TakeClaimSameAttempt(w, i) ==
  /\ pc[w] = "idle"
  /\ alive[w]
  /\ Claimable(i)
  /\ attemptCount[i] < MaxAttempts
  /\ status' = [status EXCEPT ![i] = "claimed"]
  /\ claimOwner' = [claimOwner EXCEPT ![i] = WorkerId[w]]
  /\ claimLive' = [claimLive EXCEPT ![i] = TRUE]
  /\ attemptCount' = [attemptCount EXCEPT ![i] = IF @ = 0 THEN 1 ELSE @]
  /\ pc' = [pc EXCEPT ![w] = "resolve"]
  /\ job' = [job EXCEPT ![w] = i]
  /\ ticket' = [ticket EXCEPT ![w] = attemptCount'[i]]
  /\ UNCHANGED <<retryDue, created, attempts, request, result, alive, notified, faultVars>>

TakeClaim(w, i) ==
  /\ pc[w] = "idle"
  /\ alive[w]
  /\ Claimable(i)
  /\ attemptCount[i] < MaxAttempts
  /\ status' = [status EXCEPT ![i] = "claimed"]
  /\ claimOwner' = [claimOwner EXCEPT ![i] = WorkerId[w]]
  /\ claimLive' = [claimLive EXCEPT ![i] = TRUE]
  /\ attemptCount' = [attemptCount EXCEPT ![i] = @ + 1]
  /\ pc' = [pc EXCEPT ![w] = "resolve"]
  /\ job' = [job EXCEPT ![w] = i]
  /\ ticket' = [ticket EXCEPT ![w] = attemptCount[i] + 1]
  /\ UNCHANGED <<retryDue, created, attempts, request, result, alive, notified, faultVars>>

\* Claim: ORDER BY created_at, id LIMIT 1.
Claim(w) ==
  /\ w \in PoolWorkers
  /\ \E i \in Intents :
       /\ Claimable(i)
       /\ \A j \in Intents : Claimable(j) => created[i] <= created[j]
       /\ TakeClaim(w, i)

ClaimByID(w, i) ==
  /\ w \in SyncCallers
  /\ TakeClaim(w, i)

\* verifyOwnedClaim, and the primary key of provider_write_attempts that
\* insertAttempt must not meet a second time.
VerifyOwnedClaim(w) ==
  /\ status[job[w]] = "claimed"
  /\ claimOwner[job[w]] = WorkerId[w]
  /\ attempts[job[w]][attemptCount[job[w]]] = "none"

\* LastAttemptOutcome(i) = outcome: ORDER BY attempt DESC LIMIT 1.
LastAttemptOutcome(i, outcome) ==
  \E n \in Recorded(i) : attempts[i][n] = outcome /\ \A m \in Recorded(i) : m <= n

\* What Succeed, Retry and MarkAmbiguous have in common: one transaction that
\* checks the claim, gives it up, moves the row and inserts the attempt.
ResolveClaim(w, to, outcome) ==
  /\ pc[w] = "record"
  /\ result[w] = outcome
  /\ alive[w]
  /\ VerifyOwnedClaim(w)
  /\ status' = [status EXCEPT ![job[w]] = to]
  /\ claimOwner' = [claimOwner EXCEPT ![job[w]] = NoOwner]
  /\ claimLive' = [claimLive EXCEPT ![job[w]] = FALSE]
  /\ attempts' = [attempts EXCEPT ![job[w]][attemptCount[job[w]]] = outcome]
  /\ UNCHANGED <<attemptCount, created, request, alive, notified, faultVars>>

Succeed(w) ==
  /\ ResolveClaim(w, "succeeded", "succeeded")
  /\ retryDue' = [retryDue EXCEPT ![job[w]] = FALSE]
  /\ IF w \in PoolWorkers
       THEN pc' = [pc EXCEPT ![w] = "notify"] /\ UNCHANGED <<job, ticket, result>>
       ELSE Done(w)

Retry(w) ==
  /\ \E outcome \in {"retryable", "notApplied"} : ResolveClaim(w, "retrying", outcome)
  /\ retryDue' = [retryDue EXCEPT ![job[w]] = FALSE]
  /\ Done(w)

\* Variant: an ambiguous attempt fails the row.
MarkFailed(w) ==
  /\ ResolveClaim(w, "failed", "ambiguous")
  /\ UNCHANGED retryDue
  /\ Done(w)

\* next_attempt_at keeps its value.
MarkAmbiguous(w) ==
  /\ ResolveClaim(w, "reconciling", "ambiguous")
  /\ UNCHANGED retryDue
  /\ Done(w)

\* The transaction fails: the context it runs under is cancelled, the claim
\* is no longer this worker's, or SQLite reports an error.  Every caller
\* drops the error.
RecordFails(w) ==
  /\ pc[w] = "record"
  /\ \/ (~alive[w] \/ ~VerifyOwnedClaim(w)) /\ UNCHANGED faultVars
     \/ Spend("dbWrite")
  /\ Done(w)
  /\ UNCHANGED <<rowVars, request, alive, notified>>

\* Variant: a succeeded row can be cancelled.
CancelAnything(i) ==
  /\ status[i] \notin {"absent", "cancelled"}
  /\ status' = [status EXCEPT ![i] = "cancelled"]
  /\ claimOwner' = [claimOwner EXCEPT ![i] = NoOwner]
  /\ claimLive' = [claimLive EXCEPT ![i] = FALSE]
  /\ retryDue' = [retryDue EXCEPT ![i] = FALSE]
  /\ UNCHANGED <<attemptCount, created, attempts, request, workerVars, notified, faultVars>>

\* Cancel: any row but a succeeded or cancelled one, also one that a worker
\* is executing.
Cancel(i) ==
  /\ status[i] \notin Terminal \cup {"absent"}
  /\ status' = [status EXCEPT ![i] = "cancelled"]
  /\ claimOwner' = [claimOwner EXCEPT ![i] = NoOwner]
  /\ claimLive' = [claimLive EXCEPT ![i] = FALSE]
  /\ retryDue' = [retryDue EXCEPT ![i] = FALSE]
  /\ UNCHANGED <<attemptCount, created, attempts, request, workerVars, notified, faultVars>>

-----------------------------------------------------------------------------
(* internal/providerwrite/worker.go *)

\* Variant: the attempt history is not consulted.
ResolveIgnoringHistory(w) ==
  /\ pc[w] = "resolve"
  /\ pc' = [pc EXCEPT ![w] = "execute"]
  /\ UNCHANGED <<rowVars, request, job, ticket, result, alive, notified, faultVars>>

\* resolve: the attempt history decides between reconcile and execute; a
\* history that cannot be read counts as one without ambiguity.
Resolve(w) ==
  /\ pc[w] = "resolve"
  /\ \/ /\ alive[w]
        /\ pc' = [pc EXCEPT ![w] = IF LastAttemptOutcome(job[w], "ambiguous")
                                     THEN "reconcile" ELSE "execute"]
        /\ UNCHANGED faultVars
     \/ /\ CancelledOr(w, "dbRead")
        /\ pc' = [pc EXCEPT ![w] = "execute"]
  /\ UNCHANGED <<rowVars, request, job, ticket, result, alive, notified>>

\* The operation's executor decodes the payload and writes one request line to
\* the adapter.  The line goes out before the context is looked at, so a worker
\* whose context is cancelled sends it too.
SendWrite(w) == request' = [request EXCEPT ![job[w]][ticket[w]] = "flying"]

\* execute, up to the adapter call.
Execute(w) ==
  /\ pc[w] = "execute"
  /\ pc' = [pc EXCEPT ![w] = "calling"]
  /\ SendWrite(w)
  /\ UNCHANGED <<rowVars, job, ticket, result, alive, notified, faultVars>>

\* No executor for the operation, or no Gate for the adapter: retry.
ExecuteUnavailable(w) ==
  /\ pc[w] = "execute"
  /\ Spend("gate")
  /\ pc' = [pc EXCEPT ![w] = "record"]
  /\ result' = [result EXCEPT ![w] = "retryable"]
  /\ UNCHANGED <<rowVars, request, job, ticket, alive, notified>>

\* classify: any error under a cancelled context is ambiguous.
Classify(w, outcome) == IF alive[w] THEN outcome ELSE "ambiguous"

\* The adapter call returns; execute decides what to record.
CallReturns(w) ==
  /\ pc[w] = "calling"
  /\ LET sent == request[job[w]][ticket[w]]
     IN  \/ /\ sent = "applied"
            /\ result' = [result EXCEPT ![w] = "succeeded"]
            /\ UNCHANGED faultVars
         \/ /\ sent = "rejected"
            /\ result' = [result EXCEPT ![w] = Classify(w, "retryable")]
            /\ UNCHANGED faultVars
         \/ /\ CancelledOr(w, "responseLost")
            /\ result' = [result EXCEPT ![w] = "ambiguous"]
         \/ /\ Spend("adapterExit")
            /\ result' = [result EXCEPT ![w] = Classify(w, "retryable")]
  /\ pc' = [pc EXCEPT ![w] = "record"]
  /\ UNCHANGED <<rowVars, request, job, ticket, alive, notified>>

\* Variant: the reconciler's verdict is inverted.
ReconcileVerdictInverted(i) == IF Landed(i) THEN "notApplied" ELSE "succeeded"

\* What an operation's reconciler reads back from the provider.
ReconcileVerdict(i) == IF Landed(i) THEN "succeeded" ELSE "notApplied"

Reconcile(w) ==
  /\ pc[w] = "reconcile"
  /\ \/ /\ job[w] \in Reconcilable
        /\ result' = [result EXCEPT ![w] = ReconcileVerdict(job[w])]
        /\ UNCHANGED faultVars
     \/ /\ \/ job[w] \notin Reconcilable /\ UNCHANGED faultVars
           \/ CancelledOr(w, "unknown")
        /\ result' = [result EXCEPT ![w] = "ambiguous"]
  /\ pc' = [pc EXCEPT ![w] = "record"]
  /\ UNCHANGED <<rowVars, request, job, ticket, alive, notified>>

\* The SuccessObserver call that follows a recorded success.
Notify(w) ==
  /\ pc[w] = "notify"
  /\ notified' = notified \cup {job[w]}
  /\ Done(w)
  /\ UNCHANGED <<rowVars, request, alive, faultVars>>

-----------------------------------------------------------------------------
(* The provider, the clock and the processes. *)

\* The provider applies or refuses a request.  It may do so after the worker
\* stopped waiting only where "late" is admitted.
ProviderApplies(i, n) ==
  /\ request[i][n] = "flying"
  /\ request' = [request EXCEPT ![i][n] = "applied"]
  /\ \/ Waiting(i, n) /\ UNCHANGED faultVars
     \/ ~Waiting(i, n) /\ Spend("late")
  /\ UNCHANGED <<rowVars, workerVars, notified>>

ProviderRejects(i, n) ==
  /\ request[i][n] = "flying"
  /\ Waiting(i, n)
  /\ Spend("rejected")
  /\ request' = [request EXCEPT ![i][n] = "rejected"]
  /\ UNCHANGED <<rowVars, workerVars, notified>>

\* claim_until passes.  The claim of a worker that is still at work expires
\* only where "overrun" is admitted.
LeaseExpires(i) ==
  /\ status[i] = "claimed"
  /\ claimLive[i]
  /\ claimLive' = [claimLive EXCEPT ![i] = FALSE]
  /\ \/ ~Working(i) /\ UNCHANGED faultVars
     \/ Working(i) /\ Spend("overrun")
  /\ UNCHANGED <<status, claimOwner, retryDue, attemptCount, created, attempts, request,
                 workerVars, notified>>

\* next_attempt_at = now + retryBackoff(attempt_count) passes.
BackoffElapses(i) ==
  /\ status[i] = "retrying"
  /\ ~retryDue[i]
  /\ retryDue' = [retryDue EXCEPT ![i] = TRUE]
  /\ UNCHANGED <<status, claimOwner, claimLive, attemptCount, created, attempts, request,
                 workerVars, notified, faultVars>>

\* The process dies with whatever the worker held in memory.
Crash(w) ==
  /\ pc[w] # "idle"
  /\ Spend("crash")
  /\ Done(w)
  /\ UNCHANGED <<rowVars, request, alive, notified>>

\* Pool.Stop, the daemon's shutdown, or the end of the caller's request.
CancelContext(w) ==
  /\ alive[w]
  /\ pc[w] # "idle"
  /\ Spend("cancel")
  /\ alive' = [alive EXCEPT ![w] = FALSE]
  /\ UNCHANGED <<rowVars, request, pc, job, ticket, result, notified>>

\* Pool.Start of the next process, or the next request of a caller.
Restart(w) ==
  /\ ~alive[w]
  /\ pc[w] = "idle"
  /\ alive' = [alive EXCEPT ![w] = TRUE]
  /\ UNCHANGED <<rowVars, request, pc, job, ticket, result, notified, faultVars>>

-----------------------------------------------------------------------------
WorkerStep(w) ==
  \/ Resolve(w) \/ Execute(w) \/ ExecuteUnavailable(w) \/ CallReturns(w) \/ Reconcile(w)
  \/ Succeed(w) \/ Retry(w) \/ MarkAmbiguous(w) \/ RecordFails(w) \/ Notify(w)

Next ==
  \/ \E i \in Intents :
       Enqueue(i) \/ Cancel(i) \/ LeaseExpires(i) \/ BackoffElapses(i)
  \/ \E i \in Intents, n \in Numbers : ProviderApplies(i, n) \/ ProviderRejects(i, n)
  \/ \E w \in Workers : Claim(w) \/ WorkerStep(w) \/ Crash(w) \/ CancelContext(w) \/ Restart(w)
  \/ \E w \in Workers, i \in Intents : ClaimByID(w, i)

Spec == Init /\ [][Next]_vars

\* Every goroutine the runtime keeps scheduling makes progress, the provider
\* answers a caller that waits, and time passes.  Nothing is assumed of the
\* callers of Enqueue, Cancel and ExecuteNow.
Fairness ==
  /\ \A w \in Workers : WF_vars(Claim(w)) /\ WF_vars(WorkerStep(w)) /\ WF_vars(Restart(w))
  /\ \A i \in Intents : WF_vars(LeaseExpires(i)) /\ WF_vars(BackoffElapses(i))
  /\ \A i \in Intents, n \in Numbers : WF_vars(Waiting(i, n) /\ ProviderApplies(i, n))

FairSpec == Spec /\ Fairness

-----------------------------------------------------------------------------
(* Properties. *)

\* A worker that passes verifyOwnedClaim resolves the claim it took itself,
\* never a newer one of the same intent: a worker whose lease expired and was
\* taken over can no longer change the row (store.go, "A worker may only
\* resolve a row its own claim owns").
OwnedClaimIsCurrent ==
  \A w \in Workers :
    /\ pc[w] # "idle"
    /\ status[job[w]] = "claimed"
    /\ claimOwner[job[w]] = WorkerId[w]
    => ticket[w] = attemptCount[job[w]]

\* The attempt row a resolution inserts never collides with an existing one,
\* so a worker that owns its claim can always record its outcome.
AttemptNumberIsFresh ==
  \A i \in Intents : status[i] = "claimed" =>
    attemptCount[i] \in Numbers /\ attempts[i][attemptCount[i]] = "none"

\* No write is acknowledged, or announced to the observer, whose effect the
\* provider does not have.
SucceededHasLanded ==
  \A i \in Intents :
    /\ status[i] = "succeeded" => Landed(i)
    /\ i \in notified => status[i] = "succeeded"

\* Reconciliation reached a verdict after attempt m was recorded ambiguous.
Settled(i, m) ==
  \E k \in Numbers : k > m /\ attempts[i][k] \in {"notApplied", "succeeded"}

\* A lost response never causes a blind replay: a write sent under a claim
\* newer than an ambiguous attempt was preceded by a reconciliation verdict
\* (the comment on MarkAmbiguous).
NeverReplayedBlindly ==
  \A i \in Intents : \A m, n \in Numbers :
    m < n /\ attempts[i][m] = "ambiguous" /\ request[i][n] # "none" => Settled(i, m)

\* The same, as far as the code keeps it: resolve executes when it cannot read
\* the attempt history, so the promise holds while every read succeeded.
NoBlindReplay == happened \cap {"cancel", "dbRead"} = {} => NeverReplayedBlindly

\* A write is applied at most once at the provider (types.go, "a write can be
\* applied exactly once even though workers crash, processes restart, and
\* remote responses go missing").
AppliedAtMostOnce ==
  \A i \in Intents : \A m, n \in Numbers :
    request[i][m] = "applied" /\ request[i][n] = "applied" => m = n

\* Failures a live worker learns of and records.
Truthful == {"gate", "rejected", "responseLost", "unknown"}

\* The same, as far as the code keeps it: ambiguity and reconciliation protect
\* a write from lost responses, refusals and unreachable adapters.
AppliedOnceIfTruthful == happened \subseteq Truthful => AppliedAtMostOnce

\* Succeeded and cancelled rows never change status again, and a recorded
\* attempt is never rewritten.
HistoryIsFinal ==
  [][\A i \in Intents :
       /\ status[i] \in Terminal => status'[i] = status[i]
       /\ \A n \in Numbers : attempts[i][n] # "none" => attempts'[i][n] = attempts[i][n]]_vars

\* Every admitted write is eventually acknowledged or withdrawn.
EventuallyResolved ==
  \A i \in Intents : (status[i] # "absent") ~> (status[i] \in Terminal)

\* What a caller can see of a row.
Phase(i) ==
  IF status[i] \in Terminal \cup {"absent"} THEN status[i] ELSE "open"

\* The outbox implements the promise made to its callers.
Promise == INSTANCE ProviderWrites WITH
  phase <- [i \in Intents |-> Phase(i)],
  landed <- [i \in Intents |-> Landed(i)]

\* Every step of the outbox is a step of ProviderWrites or changes nothing a
\* caller can see.
ImplementsPromise == Promise!Spec
=============================================================================
