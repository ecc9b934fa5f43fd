----------------------------- MODULE LaneClosing -----------------------------
(***************************************************************************)
(* What CompleteLaneWork promises of a lane, whatever calls are made,      *)
(* stopped and made again for it: one request claims the lane, after it    *)
(* has reported all it has to report; that request alone reviews it and    *)
(* closes it, with its own outcome; and nothing changes once it is closed. *)
(***************************************************************************)
CONSTANTS
  Keys,           \* requests
  Dims,           \* what a request may report
  Lanes,
  Asked,          \* the lane, the reports and the outcome of each request
  NoKey           \* nobody

VARIABLES
  reported,       \* the reports that were made, with the request that made them
  owners,         \* the requests that claimed their lane
  reviewer,       \* who reviewed each lane
  outcome         \* how it was closed, "open" until then

vars == <<reported, owners, reviewer, outcome>>

Init ==
  /\ reported = {}
  /\ owners = {}
  /\ reviewer = [l \in Lanes |-> NoKey]
  /\ outcome = [l \in Lanes |-> "open"]

IsOpen(k) == outcome[Asked[k].lane] = "open"

Report(k, d) ==
  /\ IsOpen(k)
  /\ <<k, d>> \notin reported
  /\ d \in Asked[k].dims
  /\ reported' = reported \cup {<<k, d>>}
  /\ UNCHANGED <<owners, reviewer, outcome>>

Claim(k) ==
  /\ IsOpen(k)
  /\ \A j \in owners : Asked[j].lane # Asked[k].lane
  /\ \A d \in Asked[k].dims : <<k, d>> \in reported
  /\ owners' = owners \cup {k}
  /\ UNCHANGED <<reported, reviewer, outcome>>

Conclude(k) ==
  /\ IsOpen(k)
  /\ k \in owners
  /\ reviewer[Asked[k].lane] = NoKey
  /\ reviewer' = [reviewer EXCEPT ![Asked[k].lane] = k]
  /\ UNCHANGED <<reported, owners, outcome>>

Close(k) ==
  /\ IsOpen(k)
  /\ k \in owners
  /\ reviewer[Asked[k].lane] = k
  /\ outcome' = [outcome EXCEPT ![Asked[k].lane] = Asked[k].outcome]
  /\ UNCHANGED <<reported, owners, reviewer>>

Next ==
  \E k \in Keys :
    \/ \E d \in Dims : Report(k, d)
    \/ Claim(k) \/ Conclude(k) \/ Close(k)

Spec == Init /\ [][Next]_vars
=============================================================================
