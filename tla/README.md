# Punakawan: formal models

Punakawan is an orchestration server for software deliveries. An agent talks to
it over MCP; it keeps the state of each delivery in one SQLite database, keeps
several agents from stepping on each other, and writes to Jira and GitHub
through adapter processes. This directory holds TLA+ models of the parts whose
correctness depends on the order of events, the TLC runs that check them on
small instances, and TLAPS proofs of what matters most for instances of any
size. Paths below are relative to `src/internal/`.

## The system

All durable state is in one SQLite database. `storage.DB.Write` runs every
change as a transaction of a single serialized writer, under an idempotency key
that makes a second call with the same key a duplicate. Interleaving therefore
happens *between* transactions, and between a transaction and the outside world:
a caller that reads, thinks and writes back; a worker that claims a row, calls a
provider and records what it heard; a process that dies in between.

| part | state | operations | hard behaviour |
| --- | --- | --- | --- |
| provider-write outbox (`outbox`) | rows of writes with status, claim, attempt count; history of attempts | Enqueue, Claim, ClaimByID, Succeed, Retry, MarkAmbiguous, Cancel | leases that expire under a working owner, competing claims, cancel in flight |
| workers (`providerwrite`) | what a goroutine holds: a claimed row, its attempt number, its context | Worker.RunOnce (resolve, execute or reconcile, classify, record, observe), Pool, ExecuteNow | crash at any step, lost answers, cancelled context, retries |
| adapters (`adapters`, `packages/*`) | child processes, pending calls | Registry.Gate, Client.Call | replies lost or late, death during a call |
| task graph (`delivery/parenttasks.go`, `graph.go`) | parent tasks, their routing, dependency edges | CreateParentTask, RouteParentTask, AddDependencyEdge, RemoveDependencyEdge | histories of legal edits that form a cycle or cross projects |
| lanes (`delivery/scheduler.go`, `rolestage.go`, `repair.go`, `reduce.go`, `store.go`) | event log per orchestration, lane state replayed from it: status, lease, stage records, repair count | CreateLane, SyncFrontier, GrantLease, Heartbeat, CompleteLease, RejectLease, ExpireLeases, RecordRoleStage, StartRepairCycle, UpdateLaneStatus | callers with stale revisions and stale tokens, several leases in a lane's life, limits shared by all lanes |
| lane completion (`delivery/lanecompletion.go`) | none of its own | CompleteLaneWork: up to seven transactions under derived keys | interrupted in the middle, called again with the same or another key |
| lifetimes (`delivery/lifetime.go`, `execution.go`) | delivery cases, executions, sessions | StartOrResolveExecution, CompleteOrchestration, CancelOrchestration, StartSession, CheckpointSession | concurrent starts of one issue, adoption of an organisation, starts repeated with their key |
| deliveryservice (`service.go`, `reconcile.go`) | none of its own | StartOrResolve with reconcile, Complete, Cancel | a chain of idempotent steps, retried, with reads outside the transactions |
| daemon (`daemon/`, `../cmd/punakawand`) | lock file, port file, the bound port | AcquireSingleton, Run, Shutdown, Lock.Release; ensureRunning of its clients | starters, stoppers and crashes between any two system calls |
| panel runtime pool (`panel/runtime`) | loaded projects with use counts, idle timer | Acquire, Release, Invalidate, CloseIdle, SetMaxActive, Close | load outside the mutex, release by name, eviction against late users |
| telemetry spool | spool files | WriteSpoolRecord, DrainSpool | a record that never ingests, two drains |

Jira and GitHub hooks and services are clients of the outbox: they enqueue, run
`ExecuteNow` in the request, and may cancel. The MCP tool for finishing a lane
calls CompleteLaneWork (`mcpserver/tools_lane.go`); `deliveryservice/reconcile.go`
creates and routes tasks, creates lanes and synchronises the frontier. The other
lane operations are exported API of the store, used through CompleteLaneWork and
by tests. Everything else (plans, workflow definitions, knowledge stores,
policy, panel views, transcripts, installers, generated types) is validation,
queries or I/O; `PROJECT.json` lists each part with the reason it is left out.

What makes each part correct: the outbox must not lose or falsely acknowledge a
write, must not repeat one it knows to be in doubt, and must get every write to
an end. The graph must stay acyclic. Lanes must respect one mutating lane per
project and the global cap, open only behind accepted predecessors, stay fenced
by lease tokens and keep the order of role stages. An issue must have one active
delivery, a lifetime one running execution, an execution one open session,
however often a start is repeated. The pool must not close what is used, must
forget nothing it loaded and must come back for what is idle. The lock must admit
one daemon, and a daemon that serves must be found.

## Modules

| module | models |
| --- | --- |
| `ProviderWrites` | abstract specification: what the outbox promises its callers |
| `Outbox` | rows, attempts, workers, adapter call, provider; implements `ProviderWrites` |
| `MCOutbox` | instances of it for TLC |
| `OutboxProofs` | inductive invariant and theorems about `Outbox` |
| `OutboxRefinement` | proof that `Outbox` implements `ProviderWrites` |
| `TaskOrder` | abstract specification: an order of tasks that dependencies extend and release |
| `TaskGraph` | parent tasks, routing, dependency edges, frontier; implements `TaskOrder` |
| `TaskGraphProofs` | theorems about `TaskGraph` |
| `ProjectSlots` | abstract specification: who works for which project, under which lease |
| `LaneScheduler` | extends `TaskGraph` with lanes, leases, stages, repair and the callers; implements `ProjectSlots` |
| `MCLanes` | instances of it |
| `LaneProofs` | theorems about `LaneScheduler` |
| `LaneClosing` | abstract specification: how one request closes a lane |
| `LaneCompletion` | extends `LaneScheduler` with calls of CompleteLaneWork and their idempotency keys; implements `LaneScheduler` and `LaneClosing` |
| `MCCompletion` | an instance of it |
| `CompletionProofs` | theorems about `LaneCompletion`, both refinements among them |
| `Deliveries` | abstract specification: what a start_delivery call may be told and may cause |
| `Lifetime` | delivery lifetimes, executions, sessions and the start_delivery calls that open them; implements `Deliveries` |
| `MCLifetime`, `LifetimeProofs` | an instance of it; theorems about it |
| `AppHandles` | abstract specification: what holders of a project's App rely on |
| `RuntimePool` | the panel's pool of loaded projects; implements `AppHandles` |
| `MCRuntimePool`, `RuntimePoolProofs` | an instance of it; theorems about it |
| `OneDaemon` | abstract specification: one process on duty, until one is robbed of its file |
| `Daemon` | daemon processes, their lock, port and port file, and clients that look for them; implements `OneDaemon` |
| `MCDaemon`, `DaemonProofs` | an instance of it; theorems about it |

### Outbox

One row per operation fingerprint, so Enqueue of a known fingerprint is no step.
Each field of a row that decides anything is a variable. Time is reduced to what
the claim predicate compares: `claimLive` (claim_until > now) and `retryDue`
(next_attempt_at <= now), cleared and set by `LeaseExpires` and `BackoffElapses`.
A worker's program counter follows `Worker.RunOnce`: claim, resolve (read the
last attempt), execute or reconcile, call, record, notify. Each of these is one
action because each is one transaction, one read or one call; between them other
workers, the clock, the provider and failures may act. `request[i][n]` is what
the provider knows of the write sent under attempt `n`: it may apply it before,
or where "late" is admitted after, the worker stopped waiting.

`Faults` names the failures a run admits, `MaxFaults` bounds how many there are
in one behaviour, and `happened` remembers which ones: a guarantee that holds
only without some failure says so (`NoBlindReplay`, `AppliedOnceIfTruthful`).
`MaxAttempts` bounds claims.

What is abstracted: the eleven provider operations are one write without
payload; reconciliation returns the truth at the moment it reads, or cannot
tell; rows without fingerprint and the text of errors are left out. `Retry`
writes outcome "retryable" for both of its callers and the model keeps the
reconciliation verdict apart as "notApplied".

### TaskGraph and LaneScheduler

State is what the reducers replay from the event log. Every operation is one
transaction and one action. A lane's `revision` counts its events; a lease token
and a stage record are ids of their own in the code and are named here by the
revision that created them, which is unique within the lane and keeps their
order. `view[c]` is what a caller last saw of a lane (from GetLane or the result
of its own last operation), `held[c]` the lease token it acts under, granted to it
or read from the lane; both may be
stale when the caller acts, which is what the expected revision and the token are
for. `Reachable` says of the depth-first search in `graph.go` what it computes.

What is abstracted: worktrees, commits, pull requests, verification and CI
records only move a lane's revision (`Annotate`); the work-log condition of
CompleteLease; the lane returned by an operation is that of its own transaction;
an unexpired lease's length. `lease.cancelled` and the task status "cancelled"
are reduced by the code but never emitted, so no action produces them.

`TaskOrder` says what the edits of the graph are for. Its state is `Waits`, which
task waits for which over one edge or several. A new edge makes what is behind it
wait for what is ahead of it and changes nothing else; a removed edge frees only
those that waited through it. A cycle would be a pair the order does not admit, and
routing, closing and all lane operations must leave it alone.

`ProjectSlots` says what the leases are for. A slot is a project of an
orchestration; the mapping (`LeasesOf`) reads from the lanes who works for it and
under which token, and takes a lane's revision for its clock. A lane that is
granted, started, renewed, completed, rejected, expired and repaired is then one
slot taken and freed. `NoStandstill` is the other side, that the scheduler's
caution never blocks everything: in an orchestration whose lanes are as
SyncFrontier leaves them (`Settled`) and that has a lane for each task, some
unresolved task has a lane that can be, or has been, worked on. Which lane
stands for a task that has several is left open (`LanePicks`), as it is in the
code.

### LaneCompletion

CompleteLaneWork is a process over the scheduler: `step[c]` is where caller c's
call is, `key[c]` its base key, `todo[c]` the verifications it still has to
record. Each of its transactions is an action built from the `LaneScheduler`
action of the operation it calls. `committed` is the part of `audit_log` that
matters: a write whose derived key is in it is a replay, which changes nothing and
lets the chain go on. Each GetLane in between (`Look`) is an action of its own, as other
calls act between a transaction and the read that follows it; the call goes on
from the revision it finds there, and after a grant from the token it finds
there. `GiveUp` ends a call anywhere: an error, a cancelled request, a dead
process. `recorded` and `conclusion` remember which key wrote what BuildVerificationMatrix
and GetLatestReviewConclusion would show.

`Elsewhere` is what else moves lanes in the program: reconciliation creates and
synchronises them. It also contains ExpireLeases and the graph's edges, which have
no caller yet and belong to the design. Heartbeat, RejectLease, the role stages and
repair have no caller that could act on a lane in the middle of a completion, so
they are left to `LaneScheduler`. A base key stands for one request. The code does
not check that: a key sent again with another outcome replays what the first
request wrote and goes on with its own. The model assumes that no caller does so,
and no property speaks of it. A call may add the override reason another
call with its key left out.

`LaneClosing` is what all the calls together look like from outside: a request
reports its verifications, claims the lane, reviews it and closes it. The mapping
reads all four from the writes that are committed, the conclusion on record and
the lane's status, none of them from where a call is.

### Lifetime

A start_delivery call is a process: resolve the organisation, open or resolve
lifetime and execution in one transaction under the call's key, read lifetime and
execution back outside it, open a session (perhaps one that continues an ended
one) in a second transaction under a key derived from it. It may stop after any of these and be made again. `StartDuplicate`
is what storage.DB.Write answers a repeated key: the call goes on to the reads. A
lifetime that names no organisation is adopted by the first start that names one
(`Adopted`); a start that names none takes any. `Complete`, `Cancel`, `OpenSession`
and `HandOff` are what agents do meanwhile. Rows are numbered in the order of
their creation, which is what created_at is read for.

What is abstracted: the organisation a host answers is any, also none (hosts
without a credential store); the revisions Complete and Cancel are called with
only refuse calls; usage, budgets and checkpoints without a recipient are rows
nothing else reads; hooks that are dispatched after a commit; the reconcile chain
between the reads and the session.

`Deliveries` is what a caller can rely on, without rows: a start happens at
once, somewhere between call and answer, and with one key once. The mapping takes
the executions of a lifetime for its rounds, the running one for the round under
way, open sessions for its staff, and what a call has read for what it was told.
What the code does not promise is allowed there too: that a repeated call is told
of what became of its issue since, that a cancelled delivery still takes a
session, that a call begun stays unanswered.

### RuntimePool

What the manager does while it holds `m.mu` is one step, loading and closing an
App are steps of their own, as they happen outside it. `Settle` ends a critical
section: what was chosen leaves the pool, its Apps will be closed, and the idle
timer is scheduled for what is left. Time is reduced to what the manager reads
from it: the order of lastUsedAt (`recent`) and the idle runtimes that have expired
when the timer fires (`due`). Between the firing and the mutex others act, and a
runtime used or dropped meanwhile is in `due` no more, as CloseIdle looks at the
deadlines only then. SetIdleTimeout only schedules the timer again, which changes
no variable. A release names the project, not the App it was for: after Close
there may be nothing to release (`ReleaseVanished`), or, if a late caller has
loaded the project again, somebody else's runtime; hence Close at shutdown is the
exception in `HeldStaysOpen` and in `AppHandles`, as the code documents it.

`AppHandles` keeps of all this which App serves a project, what became of each App
and who has which. It allows an App to be taken away at any time, but not from
somebody who has it, and its states have no App that is open and serves nothing.

### Daemon

Each system call on the lock file, the port or the port file is a step, and a
process can end between any two. The pid is read from the lock in one step and
looked up in another, so a stale lock can be removed by a process that has read
it before it was replaced. `Run` undoes on failure what it has done so far
(`RunFails`, `CloseFailed`), `Shutdown` stops transport, pool and store, removes
the port file and releases the lock last. A client that finds no live pid asks the
canonical address all the same and restores the port file of a daemon that
answers, or starts one. `robbed` is a history variable: some process has removed
the lock file of a live one. What the lock promises holds until then, and
`OnlyStaleRemovalRobs` says how it can come about.

`OneDaemon` keeps of this whom the file names, whom each process has read there, who
holds, serves and has retired, and whether daemons can be found. A claim needs an
empty file and, unrobbed, finds no holder; serving needs a claim, the file and the
port file; a process that leaves takes its own file or none; a file is swept away
only by a process that has read the name of one that is gone; the port file goes
only when nobody serves. The mapping reads the sets from the steps the processes
are at.

Pids are not reused and all daemons are given the same port. A client that finds
a live pid only waits, which is no step. The process registry is reconciled at
start, but nothing in the program registers with it.

## Runs

| run | question |
| --- | --- |
| `outbox_safety` | two pool workers and an ExecuteNow caller, one write, any three failures of eleven kinds: types, claim ownership, fresh attempt numbers, no false success, at most one application under failures a live worker learns of, no blind replay while reads succeed, final history, refinement of `ProviderWrites` |
| `outbox_live` | one worker, two writes, any two failures: each write is acknowledged or withdrawn in the end |
| `outbox_exactly_once` | violated: "applied exactly once even though workers crash" |
| `outbox_blind_replay` | violated: a lost response "can never cause a blind replay" |
| `lanes_frontier` | three lanes for two tasks and a changing graph: refinement of `TaskOrder`, that is no cycle and no side effect of an edit; what SyncFrontier opens, and that some lane can always be worked on |
| `lanes_capacity` | three lanes, two projects, two orchestrations, cap one: refinement of `ProjectSlots`, that is mutual exclusion, the cap and fresh tokens |
| `lanes_stages` | one lane, two callers with stale views: revision, repair budget, stage order, fencing |
| `completion` | two callers, two requests with opposite outcomes for one lane, any interruption, repetition and expiry: refinement of `LaneClosing`, that is one request closes the lane; and it can be resumed until it has |
| `completion_superseded` | violated: closing a superseded view "is never silently accepted" |
| `lifetime` | two starts for one issue at two organisations or none, and for work without an issue, stopped and repeated, against complete, cancel and hand-off: one delivery, one running execution, one execution per key, one open session, nothing revived, refinement of `Deliveries` |
| `runtime_pool` | two callers, three projects, caps one and two: refinement of `AppHandles`, that is what is held stays open and no App is forgotten; the cap, invalidation, and the idle runtimes reclaimed in the end |
| `daemon` | three processes and two clients, any crash: refinement of `OneDaemon`, that is one holder, named and published while it serves; one pool, the port file, who robs whom, and a lost daemon found again |

The bounds: a stale owner, its successor and a third party need three workers; a
fault, its recovery and a fault in the recovery need two or three failures; two
edge ids close a cycle of two tasks and remove and add an edge again (longer
cycles are left to the proof); two lanes contend for a
project and a third for the cap; two callers suffice for every stale view of one
lane; the revisions allow a lane two leases with stages in both (`lanes_stages`,
nine events) or a grant, a return and a second grant (`lanes_capacity`); in
`completion` ten events are the whole chain with both verifications, after a
first lease that ran out. In `lifetime` the second row of each table is the one
that must not be there, or must follow the first; two organisations and none are
the cases of adoption. In `runtime_pool` two projects beside the primary are a
victim and a survivor, two callers race for one load, and four Apps are the
pooled ones and a redundant one. In `daemon` robbing takes an owner that died, a
process that replaced its lock and one that read it before; two attempts
are a failed and a repeated one.
`OpenedSpec` starts where SyncFrontier has opened every lane, and `FrontierSpec`
leaves leases out and concludes only lanes that were open to work, as
CompleteLaneWork does; both are restrictions of `Spec` that keep the runs small.
Symmetry is used only where the instance treats the values alike, and never with
a liveness property. Deadlock is not checked: bounds end every behaviour, and an
outbox, an orchestration or a daemon may simply be finished.

Fairness. In `outbox_live`, a worker that can claim or take its next step
eventually does and a stopped pool is started again (goroutines of a live
process, a supervised daemon), clocks pass, and a provider answers a caller that
waits. Nothing is assumed of callers. Every operation has a reconciler in this
run; the code registers none for some operations, and a row of such an operation
that became ambiguous stays so for ever (see the hazards). In `runtime_pool`, a
pending timer fires and the goroutine it starts gets the mutex; scheduling a timer
again does not put a deadline off, because the deadline is the runtime's own
last use plus the timeout. In `daemon`, a live process takes its next step and
clients keep coming, which is an assumption on the environment; nothing is
assumed of starts, crashes, failures and signals. Lanes have no liveness
property: nothing in the program calls ExpireLeases, so no fairness of it can be
claimed. Nor have lifetimes: every step is a caller's.

## Findings

1. `outbox_exactly_once`: `types.go` and a comment in `worker.go` promise one
   application across crashes. A worker that dies between the provider's effect
   and its record leaves no attempt, and the next claim executes again.
2. `outbox_blind_replay`: `resolve` treats an unreadable history as none. A row
   recorded ambiguous is sent again, without reconciliation, by a worker whose
   context was cancelled.
3. `completion_superseded`: expected_revision is to refuse the closing of a
   superseded view, and later steps are to use the revision the step before
   produced. CompleteLaneWork reads the lane again between its transactions, so
   it takes over the revision another call produced in between, and closes the
   lane over a matrix that shows the other call's report.

Observations: sentences of the repository that the models show to be too
strong and that no run is kept for.

- Ownership of a claim is decided by the worker id, and requests of `ExecuteNow`
  may share one ("jira-worklog-retry"): a request whose lease expired can resolve
  the claim another has taken since. `ClaimsAreCurrent` has distinct ids as its
  hypothesis.
- The pool's ids (`pool-%d`) are the same in every daemon process. Two pools run at
  once only beside a daemon that was robbed and is being stopped (`OneWorks`), and
  then their workers share ids too.
- CreateLane promises that a lane's project never diverges from its task's
  routing (`store.go:839-840`); RouteParentTask routes again at any time.
- "Exactly one" starter wins (`lock.go:42-43`) until a stale lock is removed
  twice: a process that read the dead pid removes the file of the one that
  has replaced it. `robbed` marks this, and the port then keeps one pool running.
- A crash between creating the lock and writing the pid leaves an empty file,
  which every later start refuses; `lock.go:45-47` says no manual cleanup is
  needed.
- "No client can observe a lock held with storage closed" (`daemon.go:205-206`),
  yet Shutdown closes the store before it releases the lock.
- CompleteOrchestration dispatches delivery.completed again when its write was a
  duplicate (`execution.go:167`), unlike start and cancel.

## Proofs

TLAPS proves the theorems below for all values of the constants that satisfy the
modules' assumptions: `OutboxAssumption` (finitely many intents, pool workers
distinct from synchronous callers, markers that are no ids), `TaskGraphAssumption`
and `EdgeAssumption` (finitely many tasks, each in one orchestration, markers that
are no projects or edges), `LaneAssumption` (finitely many lanes, numeric limits,
required stages among the stages there are, markers that are no lanes or tasks), `LifetimeAssumption` (markers that are no issues, organisations
or keys, each key a source, table sizes that are numbers), `PoolAssumption`
(finitely many projects and callers, caps of at least one), `DaemonAssumption` (a
marker that is no pid, at least one attempt).
TLC evaluates each of them in the runs. The bounds
(`MaxAttempts`, `MaxFaults`, `MaxRevision`, `MaxCases`, `MaxExecs`, `MaxSessions`) are arbitrary numbers in the proofs.

**Outbox** (`OutboxProofs`, `OutboxRefinement`). `OutboxInv` adds to the checked
invariants what makes them inductive: a worker that is not idle holds an intent
and a ticket no greater than its attempt count; two workers on one intent hold
different tickets; nothing is recorded or sent beyond the attempt count; a worker
that has not made the call has sent nothing; and a worker about to record success
knows of an effect that exists. Fresh attempt numbers and true success follow
whatever fails. That a claim owner is the newest claimant (`ClaimsAreCurrent`)
needs the hypothesis that no two workers share an id. The pool's workers do not
(`pool-%d`), requests of `ExecuteNow` may: what happens then is under Observations.

`NoBlindReplay` rests on `ClaimsAreCurrent`, and so on distinct ids. `ReplayInv` says
that while no context is cancelled and no read fails all contexts are alive, and
that every ambiguous attempt below the ticket of a worker about to send, or
below an attempt that was sent or may be retried, has been settled. It is kept because
`resolve` reads the attempt with the greatest number, and only the newest claimant
can add one. `AppliedOnceIfTruthful` needs no distinct ids. As long as only
failures happen that a live worker learns of, claims are held and do not
expire, a row has at most one worker and a claimed row has one; `TruthInv` then says, for
what each worker is about to do and for the status of each row, what the provider can
have applied by then.

For the refinement
(`KeepsPromise`) one fact more is needed, that a row that was not inserted was
never claimed; then each step is one of the four abstract steps or shows none of
them, and `ProviderApplies` may show none, when an effect lands twice.

**Task graph** (`TaskGraphProofs`). `Reachable` is stated without recursion: no
set of tasks closed under edges contains the one and not the other. Adding an
edge from f to t when t does not reach f keeps acyclicity: let T be closed, contain
t and exclude f, and let S be closed and separate the ends of an old edge. If the
edge starts in T, the intersection of S and T separates its ends and is closed in
the new graph, having no f; if not, their union does, having t. Removing an edge only widens the choice of closed sets.
`NeverWedged` takes, among the unaccepted tasks, one with the fewest
dependencies: a predecessor of it that is unaccepted would have fewer still,
because in an acyclic graph it cannot reach back.

For the refinement of `TaskOrder` (`KeepsOrder`) the same two constructions say
exactly what an edit does to `Reachable`: with the edge from f to t, a reaches b if
it did before, or if a reaches f and t reaches b (`AddReaches`); without it, a still
reaches b unless both hold (`RemoveReaches`). In a graph without cycles `Waits` is
`Reachable` between different tasks (`WaitsIsReachable`), so acyclicity, before and
after, carries both over. `OrderIsStrict` closes the circle: whatever `TaskOrder`
allows is a strict partial order. The run checks two tasks and two edges; longer
paths and cycles are the theorem's.

**Lanes** (`LaneProofs`). `SchedulerInv` says of each lane that its records name
past revisions, later stages by later ones, that required stages are recorded in
order, and that the repair count is within budget; of each caller, that its view
is the lane's past, and its present if the revisions agree; and of all lanes, one
mutating lane per project and the cap. The view's part is what makes the
revision check sufficient for `StartRepairCycle`, which decides before its
transaction. Each lane's event is shown to keep the lane's own part, and one
lemma per operation says which lanes it changes and how; the limits then need an
argument for `GrantLease` alone, the only step that makes a lane mutating. The
action properties `LeaseFenced` and `OpenedAfterPredecessors` follow from the
same shape lemmas. `GraphPart` makes every behaviour of the
scheduler one of the graph, which carries acyclicity and the order over
(`GraphUndisturbed`, `SchedulerKeepsOrder`).

For the refinement of `ProjectSlots` (`KeepsSlots`) every operation but the grant
keeps the leases of a slot or empties it: a lane that stays leased or running
keeps project and token, and no other lane takes one. At the grant the scan of all
lanes has found the slot free and the cap not reached, and the invariant gives
that a slot has one lease at most, so a return empties it. `NoStandstill`
(`WorkRemains`) is no invariant of single steps but a consequence of three: edges
stay within an orchestration; the graph is acyclic; and a settled lane waits only
if its task has an unresolved predecessor. `NeverWedged`, applied to the resolved
tasks of this orchestration together with all tasks of the others, yields a task
whose predecessors are all resolved. That the condition is one the scheduler
reaches is a lemma, `SyncSettles`: after SyncFrontier the lanes it chose are
settled.

**Lane completion** (`CompletionProofs`, under `CompletionAssumption`: each key
has a request for a lane, dimensions are not named like other steps). Every step
of a call is a step of the scheduler or changes nothing there
(`CompletionSchedules`), so `SchedulerInv` comes for nothing. `CompletionInv` adds
three things. A call knows of the writes behind it (`ChainInv`), which stays true
because writes are never taken back. The writes of a key imply each other in the
order of the chain, and say what the lane looks like (`KeyInv`). A lane whose
lease is completed has a key that completed it, and only one (`ClosedByKey`,
`OneCompleter`): when CompleteLease commits the lane is leased, so no key had
completed it, and nothing leads from review back to a lease. From these
`OneStory` and `Resumable` follow.

The refinement of `LaneClosing` (`KeepsStory`) needs one fact more, that a review
on record was written by a key that wrote it (`ReviewedByKey`). A write of a call
is then one abstract step: a verification is recorded before its key has
completed the lease or concluded anything, CompleteLease when nobody owns the
lane yet, the review and the final status by the one who does. A replay, a look,
another operation of the scheduler shows nothing. Because `CompletionSchedules`
makes every behaviour of the chains one of the scheduler, what is proved there
holds here as well (`CompletionInherits`).

**Lifetimes** (`LifetimeProofs`). The properties are not inductive alone. The
invariant adds how the tables refer to each other: an execution that is there
belongs to a lifetime that is there, and its key is one whose start has committed
(`ExecRows`); a lifetime has an execution (`CaseRows`); sessions are numbered
without a gap (`SessionRows`); what a call in flight has read still exists
(`CallRows`). `Ordered` is `OnlyLastRuns` without CHOOSE. One delivery per issue then rests on
`ActiveLifetime`: if it finds none, no active lifetime of the issue could be the
same delivery, and adoption names an organisation for a lifetime only when none
has that organisation already.

The refinement of `Deliveries` (`DeliveriesHonoured`) puts a start at its
transaction: it joins the running execution, or begins the next one of the
lifetime it found, or opens a lifetime. What a call reads afterwards is what it is
told. Two facts are needed that the properties do not state. At most one
execution of a lifetime is not completed (`OneCancelled`): a cancelled one is the
last, since its lifetime takes no further starts; so the sessions of a lifetime are
those of one execution and a delivery is staffed or not, whatever hand-offs do in
between. And a call past its transaction has a key whose start is recorded
(`CallsBegun`), so a repeated start is told of the delivery without opening one.

**Runtime pool** (`RuntimePoolProofs`). The use count of a project is the number of
callers that use it, after Close at most that number; a caller that uses a
project holds the App pooled for it. A critical section changes the pool and
then removes idle runtimes; one lemma (`RemovalFits`) treats the removal for all
of them. A mark says that the runtime is in use, and what a fired timer found
expired is still idle. The cap rests on a count (`EvictionsEnough`): an idle runtime
goes if fewer idle ones than the surplus over the cap were used before it; so
if an idle runtime stays, all that were used before it have gone, and they are at least the
surplus. `TimerCovers` is part of the invariant; `IdleReclaimed`
rests on it, and it is proved only, not checked by a run of its own.

In the refinement of `AppHandles` (`HandlesHonoured`) the steps that load, wait or
reschedule show nothing, and each critical section is a change of who has what
followed by `Retire`, with the projects `Settle` removed. What is removed is idle,
that is, its use count is zero; the count is the number of callers, so nobody has
the App, neither before nor after the step. That an App closing is no longer
served, and one opening was not, comes from the Apps of pooled projects being
open and distinct.

**Daemon** (`DaemonProofs`). `OneHolder` is itself almost inductive: as long as
nobody was robbed, whoever is between create and release wrote the file that is
there, so a release finds its own file, and only the removal of a stale lock can
rob. `OneListens` holds robbed or not, because binding the port looks at all
processes; `StaysPublished` adds that the port file of a daemon that has published
is there, and `Counted` that a process that claims the lock has an attempt left.

The refinement of `OneDaemon` (`DutyRefinement`) needs two invariants more. `Owned`: the
lock file is of a process that has claimed it or of one that has ended, so a removal
robs, in the sense of the code's liveness check, exactly when the file is a
holder's. `SeenNames`: a pid that was written or read is of a process that was
started, and one found stale is of a process that has ended, and stays so until
the file is removed; `OnlyStaleRobs` rests on it too. Each step moves one process, and `Moves` says what that does to holders,
servers and retired; looking at the owner, opening, binding and draining show nothing. `DutyIsOnes`
shows from the abstract specification alone that it means one holder, whom the file
names and who serves only while published, until one is robbed.

| theorem | states |
| --- | --- |
| `OutboxProofs!FreshAttempts`, `SuccessesLanded`, `FinalHistory`, `ClaimsAreCurrent` | `AttemptNumberIsFresh`, `SucceededHasLanded`, `HistoryIsFinal`, `OwnedClaimIsCurrent` |
| `OutboxProofs!ReplaysResolved`, `OnceIfTruthful` | `NoBlindReplay`, `AppliedOnceIfTruthful` |
| `OutboxRefinement!KeepsPromise` | the outbox implements `ProviderWrites` |
| `TaskGraphProofs!AlwaysAcyclic`, `AlwaysWork` | `Acyclic`, `NeverWedged` |
| `TaskGraphProofs!KeepsOrder`, `LaneProofs!SchedulerKeepsOrder` | graph and scheduler implement `TaskOrder` |
| `TaskGraphProofs!OrderIsStrict` | `TaskOrder` implies `StrictOrder` |
| `LaneProofs!MutualExclusion`, `CapRespected`, `RevisionSuffices`, `BudgetRespected` | `OneMutatingLane`, `GlobalCap`, `RevisionPinsState`, `RepairBudget` |
| `LaneProofs!StagesOrdered`, `ReviewsComplete`, `CompletionFenced`, `OpenedInOrder` | `StagesInOrder`, `EngagedReviewIsComplete`, `LeaseFenced`, `OpenedAfterPredecessors` |
| `LaneProofs!GraphUndisturbed` | `Acyclic` in every behaviour of the scheduler |
| `LaneProofs!KeepsSlots` | the scheduler implements `ProjectSlots` |
| `LaneProofs!WorkRemains` | `NoStandstill` |
| `CompletionProofs!CompletionSchedules` | `LaneCompletion` implements `LaneScheduler` |
| `CompletionProofs!KeepsStory` | `LaneCompletion` implements `LaneClosing` |
| `CompletionProofs!CompletionInherits` | `ImplementsSlots`, `ImplementsOrder`, `LeaseFenced`, `OpenedAfterPredecessors` and `NoStandstill` for the chains |
| `CompletionProofs!ClosedByOne`, `AlwaysResumable` | `OneStory`, `Resumable` |
| `LifetimeProofs!OneDeliveryPerIssue`, `LastRunsAlone`, `OneExecutionPerKey` | `OneDelivery`, `OnlyLastRuns`, `KeyOpensOnce` |
| `LifetimeProofs!SessionsEndTogether`, `ResumesEnded`, `NothingRevived` | `ClosedTogether`, `HandoffChain`, `NeverRevived` |
| `LifetimeProofs!DeliveriesHonoured` | `Lifetime` implements `Deliveries` |
| `RuntimePoolProofs!HandlesHonoured` | the pool implements `AppHandles` |
| `RuntimePoolProofs!HeldIsOpen`, `AppsAccounted`, `StaleGoes`, `TimerNeverMissing` | `HeldStaysOpen`, `Accounted`, `StaleOnlyWhileUsed`, `TimerCovers` |
| `RuntimePoolProofs!CapKept` | `OverCapOnlyWhileBusy` |
| `DaemonProofs!DutyRefinement` | the daemon implements `OneDaemon` |
| `DaemonProofs!DutyIsOnes` | `OneDaemon` implies `OneOnDuty` |
| `DaemonProofs!SingletonUnlessRobbed`, `PortFencesPools` | `OneHolder`, `OneWorks` |
| `DaemonProofs!PublishedWhileServing`, `OnlyStaleRobs` | `ServingIsPublished`, `OnlyStaleRemovalRobs` |

and the types (`TypeCorrect` in `OutboxProofs` and `LaneProofs`,
`CompletionTypeCorrect`, `LifetimeTypes`, `PoolTypes`, `DaemonTypes`).

Model-checked only: the liveness properties `EventuallyResolved`, `IdleReclaimed`
and `LostDaemonFound`, which rest on fairness and on ENABLED. Every invariant,
every action property and the seven refinements that the passing runs check are
proved. `Acyclic`, `OneMutatingLane`, `GlobalCap`, `OneStory`, `HeldStaysOpen`,
`Accounted` and `OneHolder` are proved on their own and checked by the runs as part of the
refinement that contains them.

## Not modelled

- Requirements, artifacts, sources, knowledge stores, plans, usage and pricing:
  records that are appended or replaced in single transactions and read by
  queries; what could be wrong with them is in the mapping of data, which tests
  reach. The telemetry spool is one file per record, written and removed by name;
  what could go wrong is that a record which can be decoded but not ingested stops
  every drain (`spool.go:236`) and keeps those behind it. No module covers that.
- Checkouts, worktrees, publication and the janitor: git and file-system effects
  whose outcome depends on repositories on disk. A lane only records that they
  happened (`Annotate`).
- Projections and hooks: derived from the event log after the commit; nothing
  reads them back to decide.
- The adapters' registry (spawn and handshake) and the supervision of child
  processes: operating-system behaviour. To the outbox an adapter is the faults
  of one call.
- The reconcile chain of deliveryservice: store operations of `TaskGraph` and
  `LaneScheduler` under derived keys, repeated as a whole by the next start; its
  steps are modelled, their chaining is not.
- HTTP routes, MCP tool handlers, commands, configuration, policy, summaries,
  transcripts, the TypeScript adapters, the web client, generated types and
  installers: translation, validation and presentation.
