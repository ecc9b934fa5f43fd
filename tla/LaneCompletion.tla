--------------------------- MODULE LaneCompletion ---------------------------
(***************************************************************************)
(* CompleteLaneWork (lanecompletion.go): the one call by which an agent    *)
(* closes a lane, a chain of transactions of the store under keys derived  *)
(* from the request's idempotency key.  The chain may stop after any of    *)
(* them, be called again with the same key or another one, and interleave  *)
(* with other calls for the same lane.                                     *)
(*                                                                         *)
(* A base key stands for its request: whoever sends a key again sends the  *)
(* same outcome and the same verifications with it.  Only the reason that  *)
(* overrides the independence of the review may be added in a later call.  *)
(***************************************************************************)
EXTENDS LaneScheduler

CONSTANTS
  Keys,           \* base idempotency keys
  Dims,           \* verification dimensions
  Asked,          \* the request made under each key
  NoKey           \* no request

Chain == {"lease", "complete", "review", "terminal"}

Request == [lane : Lanes, outcome : Concluded, dims : SUBSET Dims]

ASSUME CompletionAssumption ==
  /\ Asked \in [Keys -> Request]
  /\ NoKey \notin Keys
  /\ Dims \cap Chain = {}

VARIABLES
  step,           \* where each caller's call of CompleteLaneWork is
  key,            \* the base key it was called with
  override,       \* whether it states an independence override reason
  todo,           \* the verifications it has not recorded yet
  committed,      \* audit_log: the derived keys that were committed
  recorded,       \* the key that recorded each dimension of a lane last
  conclusion      \* the key that recorded each lane's latest review conclusion

callVars == <<step, key, override, todo>>
historyVars == <<committed, recorded, conclusion>>
completionVars == <<vars, callVars, historyVars>>

\* A call is about to write, or has written and reads the lane again.
Steps == {"idle", "lease", "leased", "verify", "verified", "completed", "review", "reviewed",
          "terminal"}

CompletionTypeOK ==
  /\ step \in [Callers -> Steps]
  /\ key \in [Callers -> Keys \cup {NoKey}]
  /\ override \in [Callers -> BOOLEAN]
  /\ todo \in [Callers -> SUBSET Dims]
  /\ committed \in SUBSET (Keys \X (Dims \cup Chain))
  /\ recorded \in [Lanes -> [Dims -> Keys \cup {NoKey}]]
  /\ conclusion \in [Lanes -> Keys \cup {NoKey}]

NoCalls ==
  /\ step = [c \in Callers |-> "idle"]
  /\ key = [c \in Callers |-> NoKey]
  /\ override = [c \in Callers |-> FALSE]
  /\ todo = [c \in Callers |-> {}]
  /\ committed = {}
  /\ recorded = [l \in Lanes |-> [d \in Dims |-> NoKey]]
  /\ conclusion = [l \in Lanes |-> NoKey]

-----------------------------------------------------------------------------
(* One write of the chain.  db.Write runs it if its derived key is new and *)
(* leaves everything alone if it is not; the chain goes on either way.     *)

Fresh(c, s) == <<key[c], s>> \notin committed

Replayed(c, s) ==
  /\ <<key[c], s>> \in committed
  /\ UNCHANGED vars

\* Variant: the derived key names where the chain goes on, not what was written.
WrittenMisnamed(c, s, next) ==
  /\ committed' = committed \cup {<<key[c], next>>}
  /\ step' = [step EXCEPT ![c] = next]
  /\ UNCHANGED <<key, override>>

Written(c, s, next) ==
  /\ committed' = committed \cup {<<key[c], s>>}
  /\ step' = [step EXCEPT ![c] = next]
  /\ UNCHANGED <<key, override>>

\* The call returns.
Returned(c) ==
  /\ step' = [step EXCEPT ![c] = "idle"]
  /\ key' = [key EXCEPT ![c] = NoKey]
  /\ override' = [override EXCEPT ![c] = FALSE]
  /\ todo' = [todo EXCEPT ![c] = {}]

\* The lane as GetLane reads it, with the token of its lease to go on with.
TakeToken(c, l) ==
  /\ GetLane(c, l)
  /\ lane[l].token # 0
  /\ held' = [held EXCEPT ![c] = [id |-> l, token |-> lane[l].token]]

\* CompleteLaneWork is called and reads the lane: at the expected revision,
\* not terminal, and either runnable or leased by whoever.
StartWork(c, k, overridden) ==
  LET l == Asked[k].lane
  IN  /\ step[c] = "idle"
      /\ view[c].id = l
      /\ Current(c)
      /\ lane[l].status \notin Concluded
      /\ \/ /\ lane[l].status = "runnable"
            /\ GetLane(c, l) /\ UNCHANGED held
            /\ step' = [step EXCEPT ![c] = "lease"]
         \/ /\ lane[l].status # "runnable"
            /\ TakeToken(c, l)
            /\ step' = [step EXCEPT ![c] = "verify"]
      /\ key' = [key EXCEPT ![c] = k]
      /\ override' = [override EXCEPT ![c] = overridden]
      /\ todo' = [todo EXCEPT ![c] = Asked[k].dims]
      /\ UNCHANGED historyVars

Lease(c) ==
  /\ step[c] = "lease"
  /\ \/ Fresh(c, "lease") /\ GrantLease(c)
     \/ Replayed(c, "lease")
  /\ Written(c, "lease", "leased")
  /\ UNCHANGED <<todo, recorded, conclusion>>

\* RecordVerificationDimension.
Verify(c, d) ==
  /\ step[c] = "verify"
  /\ d \in todo[c]
  /\ \/ /\ Fresh(c, d) /\ Annotate(c)
        /\ recorded' = [recorded EXCEPT ![view[c].id][d] = key[c]]
     \/ Replayed(c, d) /\ UNCHANGED recorded
  /\ Written(c, d, "verified")
  /\ todo' = [todo EXCEPT ![c] = @ \ {d}]
  /\ UNCHANGED conclusion

\* Variant: the verifications follow the lease instead of preceding its end.
CompleteEarly(c) ==
  /\ step[c] = "verify"
  /\ \/ Fresh(c, "complete") /\ CompleteLease(c)
     \/ Replayed(c, "complete")
  /\ Written(c, "complete", "completed")
  /\ UNCHANGED <<todo, recorded, conclusion>>

Complete(c) ==
  /\ step[c] = "verify"
  /\ todo[c] = {}
  /\ \/ Fresh(c, "complete") /\ CompleteLease(c)
     \/ Replayed(c, "complete")
  /\ Written(c, "complete", "completed")
  /\ UNCHANGED <<todo, recorded, conclusion>>

\* RecordReviewConclusion: the session that did the work reviews it, so the
\* request must say why.
Review(c) ==
  /\ step[c] = "review"
  /\ override[c]
  /\ \/ /\ Fresh(c, "review") /\ Annotate(c)
        /\ conclusion' = [conclusion EXCEPT ![view[c].id] = key[c]]
     \/ Replayed(c, "review") /\ UNCHANGED conclusion
  /\ Written(c, "review", "reviewed")
  /\ UNCHANGED <<todo, recorded>>

\* UpdateLaneStatus; the call returns the lane.
Terminal(c) ==
  /\ step[c] = "terminal"
  /\ \/ Fresh(c, "terminal") /\ UpdateLaneStatus(c, Asked[key[c]].outcome)
     \/ Replayed(c, "terminal")
  /\ committed' = committed \cup {<<key[c], "terminal">>}
  /\ Returned(c)
  /\ UNCHANGED <<recorded, conclusion>>

\* GetLane after a write: the chain goes on from the lane as it is now, whoever
\* wrote last.
Look(c) ==
  /\ \/ /\ step[c] = "leased"
        /\ TakeToken(c, view[c].id)
        /\ step' = [step EXCEPT ![c] = "verify"]
     \/ /\ step[c] \in {"verified", "completed", "reviewed"}
        /\ GetLane(c, view[c].id) /\ UNCHANGED held
        /\ step' = [step EXCEPT ![c] = CASE @ = "verified" -> "verify"
                                         [] @ = "completed" -> "review"
                                         [] @ = "reviewed" -> "terminal"]
  /\ UNCHANGED <<key, override, todo, historyVars>>

\* A write is refused or fails, the request is cancelled, the process dies:
\* what was committed stays.
GiveUp(c) ==
  /\ step[c] # "idle"
  /\ Returned(c)
  /\ UNCHANGED <<vars, historyVars>>

-----------------------------------------------------------------------------
Call(c) ==
  \/ \E k \in Keys, overridden \in BOOLEAN : StartWork(c, k, overridden)
  \/ Lease(c) \/ Look(c) \/ Complete(c) \/ Review(c) \/ Terminal(c) \/ GiveUp(c)
  \/ \E d \in Dims : Verify(c, d)

\* What else happens to tasks and lanes: the delivery is reconciled, agents
\* look at lanes, leases run out.  No other operation of a leased lane has a
\* caller in the program.
Elsewhere ==
  /\ \/ GraphNext /\ UNCHANGED laneVars
     \/ \E l \in Lanes, p \in Projects, t \in Tasks : CreateLane(l, p, t)
     \/ \E o \in Orchestrations : SyncFrontier(o) \/ ExpireLeases(o)
     \/ \E l \in Lanes : LeaseRunsOut(l)
     \/ \E c \in Callers, l \in Lanes : step[c] = "idle" /\ GetLane(c, l) /\ UNCHANGED held
  /\ UNCHANGED <<callVars, historyVars>>

CompletionNext == Elsewhere \/ \E c \in Callers : Call(c)

CompletionSpec == Init /\ NoCalls /\ [][CompletionNext]_completionVars

-----------------------------------------------------------------------------
(* Properties. *)

Did(k, s) == <<k, s>> \in committed

\* A lane is closed by one request, whose calls completed its lease, recorded
\* all their verifications and the review conclusion before, however many
\* calls for the lane interleave, stop and are made again: the outcome never
\* belongs to one agent and the review to another.
OneStory ==
  /\ \A j, k \in Keys :
       Did(j, "complete") /\ Did(k, "complete") /\ Asked[j].lane = Asked[k].lane => j = k
  /\ \A l \in Lanes : lane[l].status \in Concluded =>
       \E k \in Keys : /\ Asked[k].lane = l /\ Asked[k].outcome = lane[l].status
                       /\ conclusion[l] = k
                       /\ \A s \in Asked[k].dims \cup {"complete", "review", "terminal"} : Did(k, s)

\* A call that stopped after it completed the lease can be made again: the
\* lane stays in review with the token the call looks for, and every write of
\* the chain is one it did or may do ("recoverable by calling again with the
\* lane's current revision", lanecompletion.go).
Resumable ==
  \A k \in Keys :
    LET r == lane[Asked[k].lane]
    IN  Did(k, "complete") /\ r.status \notin Concluded =>
          /\ r.status = "review" /\ r.token # 0
          /\ \A d \in Asked[k].dims : Did(k, d)
          /\ ~Did(k, "terminal")

\* The matrix of a closed lane shows what the request that closed it reported
\* ("so closing an already-superseded view is never silently accepted",
\* tools_lane.go; "later steps use the revision each preceding step produced",
\* lanecompletion.go).
ClosesWhatItSaw ==
  \A l \in Lanes, k \in Keys :
    lane[l].status \in Concluded /\ conclusion[l] = k =>
      \A d \in Asked[k].dims : recorded[l][d] = k

Story == INSTANCE LaneClosing WITH
  reported <- committed \cap (Keys \X Dims),
  owners <- {k \in Keys : Did(k, "complete")},
  reviewer <- conclusion,
  outcome <- [l \in Lanes |-> IF lane[l].status \in Concluded THEN lane[l].status ELSE "open"]

\* Seen from outside, the chains of all calls together are one story per lane:
\* a request reports, then claims the lane, reviews it and closes it, each once,
\* although each of these is a transaction of its own and any call may stop
\* between two of them (lanecompletion.go).
ImplementsClosing == Story!Spec
=============================================================================
