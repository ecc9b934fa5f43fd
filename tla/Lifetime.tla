------------------------------- MODULE Lifetime -------------------------------
(***************************************************************************)
(* Delivery lifetimes, executions and sessions                             *)
(* (internal/delivery/lifetime.go, execution.go, and their caller,         *)
(* internal/deliveryservice/service.go).  A start_delivery call resolves   *)
(* the organisation that holds the Jira issue, opens or resolves lifetime  *)
(* and execution in one transaction, reads both back outside it, and opens *)
(* a session in a second transaction.  Every read and every transaction is *)
(* a step: calls interleave, stop anywhere and are made again with their   *)
(* idempotency key, while agents complete, cancel and hand off what the    *)
(* starts have opened.                                                     *)
(*                                                                         *)
(* A row is known by a number; a later row has a higher one, which stands  *)
(* for created_at where the code orders by it.  The revision Complete and  *)
(* Cancel are called with only refuses calls and is left out.              *)
(***************************************************************************)
EXTENDS Integers, FiniteSets

CONSTANTS
  Issues,       \* Jira issue keys
  Adhoc,        \* the source of a delivery without an issue
  Orgs,         \* Jira organisations
  NoOrg,        \* the tenant of a host that distinguishes none
  Keys,         \* idempotency keys of start_delivery
  SourceOf,     \* the source a key's request names
  Callers,      \* start_delivery calls in flight
  MaxCases,     \* bound: rows of delivery_cases
  MaxExecs,     \* bound: rows of delivery_executions
  MaxSessions,  \* bound: rows of delivery_sessions
  NoKey         \* the key of a row that is not there

CaseIds == 1..MaxCases
ExecIds == 1..MaxExecs
SessionIds == 1..MaxSessions
Sources == Issues \cup {Adhoc}
Tenants == Orgs \cup {NoOrg}

ASSUME LifetimeAssumption ==
  /\ Adhoc \notin Issues /\ NoOrg \notin Orgs /\ NoKey \notin Keys
  /\ SourceOf \in [Keys -> Sources]
  /\ MaxCases \in Nat /\ MaxExecs \in Nat /\ MaxSessions \in Nat

VARIABLES
  cases,       \* delivery_cases: source, tenant, opening key, status
  execs,       \* delivery_executions, each with the status of its orchestration
  sessions,    \* delivery_sessions
  applied,     \* idempotency keys of committed writes, starts and sessions
  call         \* start_delivery call -> what it knows

vars == <<cases, execs, sessions, applied, call>>

AbsentCase == [source |-> Adhoc, org |-> NoOrg, key |-> NoKey, status |-> "absent"]
AbsentExec == [case |-> 0, ordinal |-> 0, status |-> "absent", orch |-> "absent", key |-> NoKey]
AbsentSession == [exec |-> 0, from |-> 0, status |-> "absent"]
Idle == [at |-> "idle", key |-> NoKey, org |-> NoOrg, case |-> 0, exec |-> 0]

\* The next unused number of a table.
Fresh(rows, n) ==
  /\ rows[n].status = "absent"
  /\ \A m \in DOMAIN rows : m < n => rows[m].status # "absent"

Newest(S) == CHOOSE x \in S : \A y \in S : y <= x

\* Mutant: A lifetime that names no organisation matches only itself.
ActiveLifetimeExact(i, org) ==
  LET match == {x \in CaseIds : cases[x].status = "active" /\ cases[x].source = i /\ cases[x].org = org}
  IN  IF match = {} THEN 0 ELSE Newest(match)

\* Mutant: The lookup forgets that a cancelled lifetime is over.
ActiveLifetimeAny(i, org) ==
  LET match == {x \in CaseIds : cases[x].status # "absent" /\ cases[x].source = i /\ cases[x].org = org}
  IN  IF match = {} THEN 0 ELSE Newest(match)

\* getActiveJiraLifetime: the organisation's own lifetime, else one that
\* names none, else (if the caller names none either) any; 0 if there is none.
ActiveLifetime(i, org) ==
  LET match == {x \in CaseIds : /\ cases[x].status = "active" /\ cases[x].source = i
                                /\ org = NoOrg \/ cases[x].org \in {org, NoOrg}}
      exact == {x \in match : cases[x].org = org}
  IN  IF match = {} THEN 0 ELSE Newest(IF exact # {} THEN exact ELSE match)

Of(x) == {e \in ExecIds : execs[e].case = x}

\* ORDER BY ordinal DESC LIMIT 1
Last(x) == CHOOSE e \in Of(x) : \A d \in Of(x) : execs[d].ordinal <= execs[e].ordinal

Open(e) == {s \in SessionIds : sessions[s].exec = e /\ sessions[s].status = "active"}

Init ==
  /\ cases = [x \in CaseIds |-> AbsentCase]
  /\ execs = [e \in ExecIds |-> AbsentExec]
  /\ sessions = [s \in SessionIds |-> AbsentSession]
  /\ applied = {}
  /\ call = [c \in Callers |-> Idle]

-----------------------------------------------------------------------------
(* start_delivery: StartOrResolve. *)

\* ActiveJiraOrgForKey: the organisation an active lifetime already names.
Remembered(i) == IF ActiveLifetime(i, NoOrg) = 0 THEN NoOrg ELSE cases[ActiveLifetime(i, NoOrg)].org

\* The host's answer: the organisation that was named; if none was, the one
\* it finds the issue at, or none on a host that distinguishes none.
Located(wanted) == IF wanted = NoOrg THEN Tenants ELSE {wanted}

ResolveOrg(c, k, named) ==
  LET wanted == IF named = NoOrg THEN Remembered(SourceOf[k]) ELSE named
  IN  /\ call[c].at = "idle"
      /\ SourceOf[k] # Adhoc
      /\ \E org \in Located(wanted) :
           call' = [call EXCEPT ![c] = [Idle EXCEPT !.at = "located", !.key = k, !.org = org]]
      /\ UNCHANGED <<cases, execs, sessions, applied>>

StartAdhoc(c, k) ==
  /\ call[c].at = "idle"
  /\ SourceOf[k] = Adhoc
  /\ call' = [call EXCEPT ![c] = [Idle EXCEPT !.at = "located", !.key = k]]
  /\ UNCHANGED <<cases, execs, sessions, applied>>

\* Mutant: The key of a start is recorded under its session's name.
FirstStartMisfiled(c) ==
  /\ <<call[c].key, "start">> \notin applied
  /\ applied' = applied \cup {<<call[c].key, "session">>}

\* storage.DB.Write: the key is new, and is recorded with the write.
FirstStart(c) ==
  /\ <<call[c].key, "start">> \notin applied
  /\ applied' = applied \cup {<<call[c].key, "start">>}

Written(c) == call' = [call EXCEPT ![c].at = "written"]

\* ErrDuplicateWrite: an earlier call with this key has committed.
StartDuplicate(c) ==
  /\ call[c].at = "located"
  /\ <<call[c].key, "start">> \in applied
  /\ Written(c)
  /\ UNCHANGED <<cases, execs, sessions, applied>>

Found(c) == IF SourceOf[call[c].key] = Adhoc THEN 0 ELSE ActiveLifetime(SourceOf[call[c].key], call[c].org)

\* A lifetime that names no organisation is claimed by the first that does.
Adopted(x, org) == IF org # NoOrg THEN [cases EXCEPT ![x].org = org] ELSE cases

\* Active lifetime, its last execution running: nothing is opened.
ResumeRunning(c) ==
  LET x == Found(c)
  IN  /\ call[c].at = "located" /\ FirstStart(c)
      /\ x # 0 /\ execs[Last(x)].orch = "running"
      /\ cases' = Adopted(x, call[c].org)
      /\ Written(c)
      /\ UNCHANGED <<execs, sessions>>

Opened(x, n, k) == [case |-> x, ordinal |-> n, status |-> "active", orch |-> "running", key |-> k]

\* Mutant: The next ordinal is opened without looking at the last.
OpenNextEagerly(c, e) ==
  LET x == Found(c)
      last == Last(x)
  IN  /\ call[c].at = "located" /\ FirstStart(c)
      /\ x # 0
      /\ Fresh(execs, e)
      /\ cases' = Adopted(x, call[c].org)
      /\ execs' = [execs EXCEPT ![e] = Opened(x, execs[last].ordinal + 1, call[c].key)]
      /\ Written(c)
      /\ UNCHANGED sessions

\* Active lifetime, its last execution over: the next ordinal.
OpenNext(c, e) ==
  LET x == Found(c)
      last == Last(x)
  IN  /\ call[c].at = "located" /\ FirstStart(c)
      /\ x # 0 /\ execs[last].orch # "running"
      /\ Fresh(execs, e)
      /\ cases' = [Adopted(x, call[c].org) EXCEPT ![x].status = "active"]
      /\ execs' = [execs EXCEPT ![last].status = execs[last].orch,
                                ![e] = Opened(x, execs[last].ordinal + 1, call[c].key)]
      /\ Written(c)
      /\ UNCHANGED sessions

\* No active lifetime, or an ad-hoc source: a lifetime and its first execution.
OpenLifetime(c, x, e) ==
  /\ call[c].at = "located" /\ FirstStart(c)
  /\ Found(c) = 0
  /\ Fresh(cases, x) /\ Fresh(execs, e)
  /\ cases' = [cases EXCEPT ![x] = [source |-> SourceOf[call[c].key], org |-> call[c].org,
                                    key |-> call[c].key, status |-> "active"]]
  /\ execs' = [execs EXCEPT ![e] = Opened(x, 1, call[c].key)]
  /\ Written(c)
  /\ UNCHANGED sessions

\* The lifetime is looked up again after the commit: a Jira one by its issue,
\* an ad-hoc one by the id derived from the key.
Lookup(c) ==
  LET k == call[c].key
  IN  IF SourceOf[k] = Adhoc THEN {x \in CaseIds : cases[x].key = k}
      ELSE {ActiveLifetime(SourceOf[k], call[c].org)} \ {0}

ReadLifetime(c) ==
  /\ call[c].at = "written"
  /\ \E x \in Lookup(c) : call' = [call EXCEPT ![c].at = "read", ![c].org = NoOrg, ![c].case = x]
  /\ UNCHANGED <<cases, execs, sessions, applied>>

\* GetExecutionByCase: the last execution there is by now.
ReadExecution(c) ==
  /\ call[c].at = "read"
  /\ call' = [call EXCEPT ![c].at = "resolved", ![c].case = 0, ![c].exec = Last(call[c].case)]
  /\ UNCHANGED <<cases, execs, sessions, applied>>

\* resumed_from: an ended session of the same execution.
MayResume(e, r) == r # 0 => sessions[r].exec = e /\ sessions[r].status \in {"handed_off", "closed"}

\* StartSession with the call's own session key: opens a session, which may
\* continue an ended one, or returns the one that is open.
StartSession(c) ==
  LET e == call[c].exec
  IN  /\ call[c].at = "resolved"
      /\ <<call[c].key, "session">> \notin applied
      /\ execs[e].status = "active"
      /\ applied' = applied \cup {<<call[c].key, "session">>}
      /\ \/ /\ Open(e) # {}
            /\ UNCHANGED sessions
         \/ /\ Open(e) = {}
            /\ \E s \in SessionIds, r \in SessionIds \cup {0} :
                 /\ MayResume(e, r)
                 /\ Fresh(sessions, s)
                 /\ sessions' = [sessions EXCEPT ![s] = [exec |-> e, from |-> r, status |-> "active"]]
      /\ call' = [call EXCEPT ![c] = Idle]
      /\ UNCHANGED <<cases, execs>>

\* The call ends: an error (the session it is to continue has not ended, for
\* one), its process is gone, no session was asked for, or the session's key is
\* a repeat and the open session is only read.
Stop(c) ==
  /\ call[c].at # "idle"
  /\ call' = [call EXCEPT ![c] = Idle]
  /\ UNCHANGED <<cases, execs, sessions, applied>>

-----------------------------------------------------------------------------
(* What agents do to an execution they know. *)

\* Mutant: Completion marks the execution and leaves its sessions open.
CompleteAlone(e) ==
  /\ execs[e].orch = "running"
  /\ execs' = [execs EXCEPT ![e].orch = "completed", ![e].status = "completed"]
  /\ UNCHANGED <<cases, sessions, applied, call>>

\* Mutant: Completion gives the execution the status of its sessions.
CompleteAsClosed(e) ==
  /\ execs[e].orch = "running"
  /\ execs' = [execs EXCEPT ![e].orch = "completed", ![e].status = "closed"]
  /\ sessions' = [s \in SessionIds |-> IF s \in Open(e) THEN [sessions[s] EXCEPT !.status = "closed"] ELSE sessions[s]]
  /\ UNCHANGED <<cases, applied, call>>

\* CompleteOrchestration: execution and open sessions with it; the lifetime stays.
Complete(e) ==
  /\ execs[e].orch = "running"
  /\ execs' = [execs EXCEPT ![e].orch = "completed", ![e].status = "completed"]
  /\ sessions' = [s \in SessionIds |-> IF s \in Open(e) THEN [sessions[s] EXCEPT !.status = "closed"] ELSE sessions[s]]
  /\ UNCHANGED <<cases, applied, call>>

\* CancelOrchestration: the lifetime with it; execution row and sessions stay.
Cancel(e) ==
  /\ execs[e].orch = "running"
  /\ execs' = [execs EXCEPT ![e].orch = "cancelled"]
  /\ cases' = [cases EXCEPT ![execs[e].case].status = "cancelled"]
  /\ UNCHANGED <<sessions, applied, call>>

\* StartSession by start_delivery_session, under a key of its own.
OpenSession(e, r, s) ==
  /\ execs[e].status = "active"
  /\ Open(e) = {}
  /\ r \in SessionIds \cup {0} /\ MayResume(e, r)
  /\ Fresh(sessions, s)
  /\ sessions' = [sessions EXCEPT ![s] = [exec |-> e, from |-> r, status |-> "active"]]
  /\ UNCHANGED <<cases, execs, applied, call>>

\* CheckpointSession with a recipient.
HandOff(s) ==
  /\ sessions[s].status = "active"
  /\ sessions' = [sessions EXCEPT ![s].status = "handed_off"]
  /\ UNCHANGED <<cases, execs, applied, call>>

StartStep(c) ==
  \/ \E k \in Keys : StartAdhoc(c, k) \/ \E named \in Tenants : ResolveOrg(c, k, named)
  \/ StartDuplicate(c)
  \/ ResumeRunning(c)
  \/ \E e \in ExecIds : OpenNext(c, e) \/ \E x \in CaseIds : OpenLifetime(c, x, e)
  \/ ReadLifetime(c)
  \/ ReadExecution(c)
  \/ StartSession(c)
  \/ Stop(c)

Next ==
  \/ \E c \in Callers : StartStep(c)
  \/ \E e \in ExecIds : Complete(e) \/ Cancel(e)
  \/ \E e \in ExecIds, r \in SessionIds \cup {0}, s \in SessionIds : OpenSession(e, r, s)
  \/ \E s \in SessionIds : HandOff(s)

Spec == Init /\ [][Next]_vars

-----------------------------------------------------------------------------
(* Properties. *)

\* Every variable has its type; 0 is the id of no row (DeliveryLifetime,
\* DeliveryExecution, DeliverySession).
LifetimeTypeOK ==
  /\ cases \in [CaseIds -> [source : Sources, org : Tenants, key : Keys \cup {NoKey},
                            status : {"absent", "active", "cancelled"}]]
  /\ execs \in [ExecIds -> [case : CaseIds \cup {0}, ordinal : 0..MaxExecs, status : {"absent", "active", "completed"},
                            orch : {"absent", "running", "completed", "cancelled"}, key : Keys \cup {NoKey}]]
  /\ sessions \in [SessionIds -> [exec : ExecIds \cup {0}, from : SessionIds \cup {0},
                                  status : {"absent", "active", "handed_off", "closed"}]]
  /\ applied \subseteq Keys \X {"start", "session"}
  /\ call \in [Callers -> [at : {"idle", "located", "written", "read", "resolved"}, key : Keys \cup {NoKey},
                           org : Tenants, case : CaseIds \cup {0}, exec : ExecIds \cup {0}]]

\* An issue has one active lifetime per organisation, and one that names no
\* organisation stands alone: no start opens a second delivery beside it
\* (lifetime.go:73-78; the unique index of migration 0035 never has to refuse).
OneDelivery ==
  \A x, y \in CaseIds :
    /\ x # y /\ cases[x].status = "active" /\ cases[y].status = "active"
    /\ cases[x].source \in Issues /\ cases[x].source = cases[y].source
    => cases[x].org # cases[y].org /\ cases[x].org # NoOrg

\* Of the executions of a lifetime only the last can be running, and only
\* while the lifetime is active; their ordinals count from 1 without a gap
\* (lifetime.go:210-252).
OnlyLastRuns ==
  \A e \in ExecIds : execs[e].status # "absent" =>
    /\ execs[e].ordinal \in 1..Cardinality(Of(execs[e].case))
    /\ \A d \in Of(execs[e].case) : d # e => execs[d].ordinal # execs[e].ordinal
    /\ execs[e].orch = "running" => /\ e = Last(execs[e].case)
                                    /\ cases[execs[e].case].status = "active"

\* However often a start is made again with its key, it opens at most one
\* execution (service.go:201, lifetime.go:183).
KeyOpensOnce ==
  \A d, e \in ExecIds : execs[d].key # NoKey /\ execs[d].key = execs[e].key => d = e

\* An execution has at most one open session; a completed one has none, and
\* its row says completed exactly when its orchestration does
\* (execution.go:112-115, 197-198).
ClosedTogether ==
  \A e \in ExecIds :
    /\ \A s, t \in Open(e) : s = t
    /\ execs[e].status = "completed" <=> execs[e].orch = "completed"
    /\ execs[e].status = "completed" => Open(e) = {}

\* A session resumes one that ended in the same execution, never itself
\* (execution.go:232-240).
HandoffChain ==
  \A s \in SessionIds : sessions[s].from # 0 =>
    LET r == sessions[s].from
    IN  r < s /\ sessions[r].exec = sessions[s].exec /\ sessions[r].status \in {"handed_off", "closed"}

LifetimesKept ==
  \A x \in CaseIds : /\ cases[x].status = "cancelled" => cases'[x].status = "cancelled"
                     /\ cases[x].status # "absent" => /\ cases'[x].source = cases[x].source
                                                      /\ cases[x].org # NoOrg => cases'[x].org = cases[x].org
ExecutionsKept ==
  \A e \in ExecIds : execs[e].orch \in {"completed", "cancelled"} => execs'[e].orch = execs[e].orch
SessionsKept ==
  \A s \in SessionIds : sessions[s].status \in {"handed_off", "closed"} => sessions'[s] = sessions[s]

\* What is over stays over: no start revives a cancelled lifetime, a finished
\* orchestration or an ended session, and a lifetime that names its
\* organisation and source keeps them (lifetime.go:36-39, 126).
NeverRevived == [][LifetimesKept /\ ExecutionsKept /\ SessionsKept]_vars

Running == {execs[e].case : e \in {d \in ExecIds : execs[d].orch = "running"}}
Staffed == {execs[sessions[s].exec].case : s \in {t \in SessionIds : sessions[t].status = "active"}}
Begun == {k \in Keys : <<k, "start">> \in applied}

\* What calls know between their first read and their end.
Told == {<<call[c].key, call[c].case>> : c \in {d \in Callers : call[d].at = "read"}} \cup
        {<<call[c].key, execs[call[c].exec].case>> : c \in {d \in Callers : call[d].at = "resolved"}}

Promise == INSTANCE Deliveries WITH
  delivery <- cases,
  rounds <- [x \in CaseIds |-> Cardinality(Of(x))],
  running <- Running,
  staffed <- Staffed,
  begun <- Begun,
  told <- Told

\* A start of three transactions and reads, interrupted anywhere and made
\* again, is to its callers one that happens at once and once, in the middle
\* of agents who complete, cancel and hand off (service.go:201-271,
\* lifetime.go:73-78, 183-252, execution.go:217-240).
ImplementsDeliveries == Promise!Spec
=============================================================================
