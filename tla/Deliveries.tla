------------------------------ MODULE Deliveries ------------------------------
(***************************************************************************)
(* What start_delivery promises to those who call it, with rows, ordinals  *)
(* and the steps of a call left out.  Somewhere between its call and its   *)
(* answer a start happens at once and, with one key, once: it joins the    *)
(* delivery that may be meant, or opens one if there is none.  A delivery  *)
(* is worked on in rounds, the next one only when the last is over, by one *)
(* session at a time.  A call is told of no delivery but its own issue's,  *)
(* and a cancelled delivery is nobody's to join.                           *)
(***************************************************************************)
EXTENDS Naturals

CONSTANTS
  Adhoc,          \* the source of a delivery without an issue
  NoOrg,          \* the organisation of who names none
  NoKey,
  Orgs,
  Keys,           \* the requests
  SourceOf,       \* the issue a request asks for, or Adhoc
  CaseIds         \* deliveries

VARIABLES
  delivery,       \* each delivery's source, organisation, opening key, status
  rounds,         \* how often it was begun
  running,        \* those with a round under way
  staffed,        \* those with a session open
  begun,          \* the keys whose start has happened
  told            \* the keys whose call was told of a delivery, with it

vars == <<delivery, rounds, running, staffed, begun, told>>

Init ==
  /\ delivery = [x \in CaseIds |-> [source |-> Adhoc, org |-> NoOrg, key |-> NoKey, status |-> "absent"]]
  /\ rounds = [x \in CaseIds |-> 0]
  /\ running = {} /\ staffed = {} /\ begun = {} /\ told = {}

\* Who names an organisation may mean the delivery that names none, and the
\* other way round.
MayMean(i, org) ==
  {x \in CaseIds : /\ delivery[x].status = "active" /\ delivery[x].source = i
                   /\ org = NoOrg \/ delivery[x].org \in {org, NoOrg}}

Join(k, org, x) ==
  /\ SourceOf[k] # Adhoc /\ x \in MayMean(SourceOf[k], org)
  /\ delivery' = IF org # NoOrg THEN [delivery EXCEPT ![x].org = org] ELSE delivery
  /\ running' = running \cup {x}
  /\ rounds' = IF x \in running THEN rounds ELSE [rounds EXCEPT ![x] = @ + 1]

Open(k, org, x) ==
  /\ SourceOf[k] # Adhoc => MayMean(SourceOf[k], org) = {}
  /\ delivery[x].status = "absent"
  /\ delivery' = [delivery EXCEPT ![x] = [source |-> SourceOf[k], org |-> org, key |-> k, status |-> "active"]]
  /\ running' = running \cup {x}
  /\ rounds' = [rounds EXCEPT ![x] = 1]

Start(k) ==
  /\ begun' = begun \cup {k}
  /\ \E org \in Orgs \cup {NoOrg}, x \in CaseIds : Join(k, org, x) \/ Open(k, org, x)
  /\ UNCHANGED <<staffed, told>>

\* A repeated call may be told of what became of its issue since.
Tell(k, x) ==
  /\ k \in begun
  /\ IF SourceOf[k] = Adhoc THEN delivery[x].key = k
     ELSE delivery[x].status = "active" /\ delivery[x].source = SourceOf[k]
  /\ told' = told \cup {<<k, x>>}
  /\ UNCHANGED <<delivery, rounds, running, staffed, begun>>

\* A cancelled delivery still takes a session.
TakesSession(x) == x \in running \/ delivery[x].status = "cancelled"

Attend(u) ==
  /\ TakesSession(u[2])
  /\ staffed' = staffed \cup {u[2]}
  /\ told' \in {told, told \ {u}}
  /\ UNCHANGED <<delivery, rounds, running, begun>>

Forget(u) ==
  /\ told' = told \ {u}
  /\ UNCHANGED <<delivery, rounds, running, staffed, begun>>

Staff(x) ==
  /\ x \notin staffed /\ TakesSession(x)
  /\ staffed' = staffed \cup {x}
  /\ UNCHANGED <<delivery, rounds, running, begun, told>>

Leave(x) ==
  /\ staffed' = staffed \ {x}
  /\ UNCHANGED <<delivery, rounds, running, begun, told>>

Finish(x) ==
  /\ x \in running /\ delivery[x].status = "active"
  /\ running' = running \ {x}
  /\ staffed' = staffed \ {x}
  /\ UNCHANGED <<delivery, rounds, begun, told>>

Withdraw(x) ==
  /\ x \in running /\ delivery[x].status = "active"
  /\ delivery' = [delivery EXCEPT ![x].status = "cancelled"]
  /\ running' = running \ {x}
  /\ UNCHANGED <<rounds, staffed, begun, told>>

Next ==
  \/ \E k \in Keys \ begun : Start(k)
  \/ \E u \in told' : Tell(u[1], u[2])
  \/ \E u \in told : Attend(u) \/ Forget(u)
  \/ \E x \in CaseIds : Staff(x) \/ Leave(x) \/ Finish(x) \/ Withdraw(x)

Spec == Init /\ [][Next]_vars
=============================================================================
