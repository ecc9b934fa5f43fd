--------------------------- MODULE LifetimeProofs ----------------------------
(***************************************************************************)
(* Proofs about Lifetime, for any issues, organisations, keys, calls and   *)
(* numbers of rows: one delivery per issue and organisation, one running   *)
(* execution per lifetime, one execution per key, sessions closed with     *)
(* their execution, and nothing that is over revived.                      *)
(*                                                                         *)
(* The inductive invariant adds to the properties how the tables refer to  *)
(* each other: every execution has its lifetime, every lifetime has an     *)
(* execution, the key that opened an execution is recorded, and what a     *)
(* call has read between its transactions still exists.                    *)
(***************************************************************************)
EXTENDS Lifetime, FiniteSetTheorems, WellFoundedInduction, TLAPS

USE LifetimeAssumption

CaseType == [source : Sources, org : Tenants, key : Keys \cup {NoKey}, status : {"absent", "active", "cancelled"}]
ExecType == [case : CaseIds \cup {0}, ordinal : 0..MaxExecs, status : {"absent", "active", "completed"},
             orch : {"absent", "running", "completed", "cancelled"}, key : Keys \cup {NoKey}]
SessionType == [exec : ExecIds \cup {0}, from : SessionIds \cup {0},
                status : {"absent", "active", "handed_off", "closed"}]
CallType == [at : {"idle", "located", "written", "read", "resolved"}, key : Keys \cup {NoKey},
             org : Tenants, case : CaseIds \cup {0}, exec : ExecIds \cup {0}]

\* Every execution belongs to a lifetime and was opened by a recorded start;
\* a cancelled one has taken its lifetime with it.
ExecRows ==
  \A e \in ExecIds :
    /\ execs[e].status = "absent" => /\ execs[e].orch = "absent"
                                     /\ execs[e].case = 0 /\ execs[e].key = NoKey
    /\ execs[e].status # "absent" => /\ execs[e].orch # "absent"
                                     /\ execs[e].case \in CaseIds
                                     /\ cases[execs[e].case].status # "absent"
                                     /\ <<execs[e].key, "start">> \in applied
    /\ execs[e].orch = "cancelled" => cases[execs[e].case].status = "cancelled"

\* Every lifetime has an execution, and the key that opened it.
CaseRows ==
  \A x \in CaseIds :
    /\ cases[x].status # "absent" => Of(x) # {} /\ cases[x].key # NoKey
    /\ cases[x].status = "absent" => cases[x].key = NoKey

\* The last execution of a lifetime, without CHOOSE.
Ordered ==
  \A e \in ExecIds : execs[e].status # "absent" =>
    /\ execs[e].ordinal \in 1..Cardinality(Of(execs[e].case))
    /\ \A d \in Of(execs[e].case) : d # e => execs[d].ordinal # execs[e].ordinal
    /\ execs[e].orch = "running" => /\ \A d \in Of(execs[e].case) : execs[d].ordinal <= execs[e].ordinal
                                    /\ cases[execs[e].case].status = "active"

\* Sessions are numbered from 1 without a gap; each is of an execution.
SessionRows ==
  /\ \A r, s \in SessionIds : r < s /\ sessions[s].status # "absent" => sessions[r].status # "absent"
  /\ \A s \in SessionIds : sessions[s].status # "absent" => /\ sessions[s].exec \in ExecIds
                                                            /\ execs[sessions[s].exec].status # "absent"

CallRows ==
  \A c \in Callers :
    /\ call[c].at # "idle" => call[c].key \in Keys
    /\ call[c].at = "read" => call[c].case \in CaseIds /\ cases[call[c].case].status # "absent"
    /\ call[c].at = "resolved" => call[c].exec \in ExecIds /\ execs[call[c].exec].status # "absent"

LifetimeInv ==
  /\ LifetimeTypeOK
  /\ ExecRows /\ CaseRows /\ SessionRows /\ CallRows
  /\ OneDelivery /\ Ordered /\ KeyOpensOnce /\ ClosedTogether /\ HandoffChain

-----------------------------------------------------------------------------
(* The newest and the last. *)

\* A bounded set of numbers that is not empty has a largest.
LEMMA Largest ==
  ASSUME NEW n \in Nat, NEW S \in SUBSET (0..n), S # {}
  PROVE  \E x \in S : \A y \in S : y <= x
  <1>. DEFINE T == {n - y : y \in S}
  <1>1. T \subseteq Nat /\ T # {}
    <2>1. \A y \in S : n - y \in Nat
      OBVIOUS
    <2>2. PICK y \in S : TRUE
      OBVIOUS
    <2>3. n - y \in T
      OBVIOUS
    <2>. QED
      BY <2>1, <2>3
  <1>2. PICK m \in T : \A k \in T : ~(<<k, m>> \in OpToRel(<, Nat))
    <2>. HIDE DEF T
    <2>. QED
      BY <1>1, NatLessThanWellFounded, WFMin
  <1>3. PICK x \in S : m = n - x
    OBVIOUS
  <1>4. ASSUME NEW y \in S PROVE y <= x
    <2>1. n - y \in T /\ n - y \in Nat /\ m \in Nat
      BY <1>1
    <2>2. ~(n - y < m)
      BY <1>2, <2>1 DEF OpToRel
    <2>. QED
      BY <1>3, <2>2
  <1>. QED
    BY <1>4

LEMMA NewestIsIn ==
  ASSUME NEW S \in SUBSET CaseIds, S # {}
  PROVE  Newest(S) \in S
  <1>1. S \in SUBSET (0..MaxCases) /\ MaxCases \in Nat
    BY DEF CaseIds
  <1>2. \E x \in S : \A y \in S : y <= x
    BY <1>1, Largest
  <1>. QED
    BY <1>2 DEF Newest

\* What getActiveJiraLifetime finds: an active lifetime of the issue under
\* the organisation, or under none if nothing else matches.
LEMMA ActiveFound ==
  ASSUME NEW i, NEW org \in Tenants
  PROVE  LET x == ActiveLifetime(i, org)
         IN  /\ x \in CaseIds \cup {0}
             /\ x # 0 => /\ cases[x].status = "active" /\ cases[x].source = i
                         /\ org # NoOrg => cases[x].org \in {org, NoOrg}
             /\ x = 0 => \A y \in CaseIds : cases[y].status = "active" /\ cases[y].source = i =>
                                            org # NoOrg /\ cases[y].org # org /\ cases[y].org # NoOrg
  <1>. DEFINE match == {x \in CaseIds : /\ cases[x].status = "active" /\ cases[x].source = i
                                        /\ org = NoOrg \/ cases[x].org \in {org, NoOrg}}
              exact == {x \in match : cases[x].org = org}
              best == IF exact # {} THEN exact ELSE match
              x == ActiveLifetime(i, org)
  <1>1. x = IF match = {} THEN 0 ELSE Newest(best)
    BY DEF ActiveLifetime
  <1>2. match # {} => best \in SUBSET CaseIds /\ best # {} /\ best \subseteq match
    OBVIOUS
  <1>3. match # {} => Newest(best) \in match
    <2>. HIDE DEF best, match
    <2>. QED
      BY <1>2, NewestIsIn
  <1>4. \A y \in CaseIds : y # 0
    BY DEF CaseIds
  <1>5. CASE match = {}
    BY <1>1, <1>5, <1>4
  <1>6. CASE match # {}
    <2>1. x \in match
      BY <1>1, <1>3, <1>6
    <2>. QED
      BY <2>1, <1>4
  <1>. QED
    BY <1>5, <1>6

LEMMA LastIsIn ==
  ASSUME LifetimeTypeOK, NEW x, Of(x) # {}
  PROVE  /\ Last(x) \in Of(x)
         /\ \A d \in Of(x) : execs[d].ordinal <= execs[Last(x)].ordinal
  <1>. DEFINE S == {execs[e].ordinal : e \in Of(x)}
  <1>1. S \in SUBSET (0..MaxExecs) /\ S # {} /\ MaxExecs \in Nat
    <2>1. \A e \in Of(x) : execs[e].ordinal \in 0..MaxExecs
      BY DEF LifetimeTypeOK, Of
    <2>2. PICK e \in Of(x) : TRUE
      OBVIOUS
    <2>3. execs[e].ordinal \in S
      OBVIOUS
    <2>. QED
      BY <2>1, <2>3
  <1>2. \E m \in S : \A n \in S : n <= m
    <2>. HIDE DEF S
    <2>. QED BY <1>1, Largest
  <1>3. PICK e \in Of(x) : \A n \in S : n <= execs[e].ordinal
    BY <1>2
  <1>4. \A d \in Of(x) : execs[d].ordinal <= execs[e].ordinal
    BY <1>3
  <1>. QED
    BY <1>4 DEF Last

LEMMA ExecsFinite ==
  ASSUME NEW S \in SUBSET ExecIds
  PROVE  /\ IsFiniteSet(S) /\ Cardinality(S) \in Nat
         /\ Cardinality(S) <= MaxExecs
  <1>1. IsFiniteSet(1..MaxExecs) /\ Cardinality(1..MaxExecs) = MaxExecs
    <2>1. MaxExecs \in Nat /\ 1 \in Int /\ MaxExecs \in Int
      OBVIOUS
    <2>2. IsFiniteSet(1..MaxExecs) /\ Cardinality(1..MaxExecs) = IF 1 > MaxExecs THEN 0 ELSE MaxExecs - 1 + 1
      BY <2>1, FS_Interval
    <2>. QED
      BY <2>1, <2>2
  <1>. QED
    BY <1>1, FS_Subset, FS_CardinalityType DEF ExecIds

-----------------------------------------------------------------------------
(* The parts of a step. *)

\* Lifetimes and executions stay where they are.
RowsStay ==
  /\ \A x \in CaseIds : cases[x].status # "absent" => cases'[x].status # "absent"
  /\ \A e \in ExecIds : execs[e].status # "absent" => execs'[e].status # "absent"

\* A call goes on to "written", ends, or is left alone by the step.
CallsGoOn ==
  /\ call' \in [Callers -> CallType]
  /\ \A c \in Callers : \/ call'[c] = call[c]
                        \/ call'[c].at = "idle"
                        \/ call'[c].at = "written" /\ call[c].at # "idle" /\ call'[c].key = call[c].key

LEMMA CallsKeep ==
  ASSUME LifetimeInv, RowsStay, CallsGoOn
  PROVE  CallRows'
  BY DEF LifetimeInv, CallRows, RowsStay, CallsGoOn

LEMMA WrittenGoesOn ==
  ASSUME LifetimeInv, NEW c \in Callers, call[c].at = "located", Written(c)
  PROVE  CallsGoOn
  <1>1. call \in [Callers -> CallType]
    BY DEF LifetimeInv, LifetimeTypeOK, CallType
  <1>2. call' = [call EXCEPT ![c].at = "written"]
    BY DEF Written
  <1>3. call' \in [Callers -> CallType]
    BY <1>1, <1>2 DEF CallType
  <1>4. call'[c].at = "written" /\ call'[c].key = call[c].key
    BY <1>1, <1>2 DEF CallType
  <1>5. \A d \in Callers \ {c} : call'[d] = call[d]
    BY <1>1, <1>2
  <1>. QED
    BY <1>3, <1>4, <1>5 DEF CallsGoOn

LEMMA IdleGoesOn ==
  ASSUME LifetimeInv, NEW c \in Callers, call' = [call EXCEPT ![c] = Idle]
  PROVE  CallsGoOn
  <1>1. Idle \in CallType /\ Idle.at = "idle"
    BY DEF Idle, CallType, Tenants
  <1>. QED
    BY <1>1 DEF LifetimeInv, LifetimeTypeOK, CallsGoOn, CallType

LEMMA SameGoesOn ==
  ASSUME LifetimeInv, UNCHANGED call
  PROVE  CallsGoOn
  BY DEF LifetimeInv, LifetimeTypeOK, CallsGoOn, CallType

\* Nothing but the calls changes.
LEMMA CallOnlyKeeps ==
  ASSUME LifetimeInv, UNCHANGED <<cases, execs, sessions, applied>>,
         call' \in [Callers -> CallType], CallRows'
  PROVE  LifetimeInv'
  <1>1. \A x : Of(x)' = Of(x) /\ Open(x)' = Open(x)
    BY DEF Of, Open
  <1>2. LifetimeTypeOK'
    BY DEF LifetimeInv, LifetimeTypeOK, CallType
  <1>3. ExecRows' /\ SessionRows' /\ OneDelivery' /\ KeyOpensOnce' /\ HandoffChain'
    BY DEF LifetimeInv, ExecRows, SessionRows, OneDelivery, KeyOpensOnce, HandoffChain
  <1>4. CaseRows' /\ Ordered' /\ ClosedTogether'
    BY <1>1 DEF LifetimeInv, CaseRows, Ordered, ClosedTogether
  <1>. QED
    BY <1>2, <1>3, <1>4 DEF LifetimeInv

\* A lifetime is claimed by the organisation it is resolved for; it stays
\* the only one of its issue there.
LEMMA AdoptedKeeps ==
  ASSUME LifetimeInv, NEW i \in Issues, NEW org \in Tenants, NEW x, x = ActiveLifetime(i, org), x # 0,
         cases' = Adopted(x, org)
  PROVE  /\ x \in CaseIds /\ cases[x].status = "active"
         /\ cases' \in [CaseIds -> CaseType]
         /\ \A y \in CaseIds : /\ cases'[y].source = cases[y].source
                               /\ cases'[y].status = cases[y].status
                               /\ cases'[y].key = cases[y].key
                               /\ cases[y].org # NoOrg => cases'[y].org = cases[y].org
         /\ OneDelivery'
  <1>1. /\ x \in CaseIds /\ cases[x].status = "active" /\ cases[x].source = i
        /\ org # NoOrg => cases[x].org \in {org, NoOrg}
    BY ActiveFound
  <1>2. cases \in [CaseIds -> CaseType]
    BY DEF LifetimeInv, LifetimeTypeOK, CaseType
  <1>3. CASE org = NoOrg
    <2>1. cases' = cases
      BY <1>3 DEF Adopted
    <2>. QED
      BY <1>1, <1>2, <2>1 DEF LifetimeInv, OneDelivery
  <1>4. CASE org # NoOrg
    <2>1. cases' = [cases EXCEPT ![x].org = org]
      BY <1>4 DEF Adopted
    <2>2. /\ cases' \in [CaseIds -> CaseType]
          /\ cases'[x].org = org
          /\ \A y \in CaseIds \ {x} : cases'[y] = cases[y]
          /\ cases'[x].source = cases[x].source /\ cases'[x].status = cases[x].status /\ cases'[x].key = cases[x].key
      BY <1>1, <1>2, <2>1 DEF CaseType
    <2>3. OneDelivery'
      <3>. SUFFICES ASSUME NEW y \in CaseIds, NEW z \in CaseIds, y # z,
                           cases'[y].status = "active", cases'[z].status = "active",
                           cases'[y].source \in Issues, cases'[y].source = cases'[z].source
                    PROVE  cases'[y].org # cases'[z].org /\ cases'[y].org # NoOrg
        BY DEF OneDelivery
      <3>1. /\ cases[y].status = "active" /\ cases[z].status = "active"
            /\ cases[y].source \in Issues /\ cases[y].source = cases[z].source
        BY <2>2
      <3>2. cases[y].org # cases[z].org /\ cases[y].org # NoOrg /\ cases[z].org # NoOrg
        BY <3>1 DEF LifetimeInv, OneDelivery
      \* x has company, so it named its organisation before.
      <3>3. cases'[y].org = cases[y].org /\ cases'[z].org = cases[z].org
        BY <1>1, <1>4, <2>2, <3>2
      <3>. QED
        BY <3>2, <3>3
    <2>4. \A y \in CaseIds : cases[y].org # NoOrg => cases'[y].org = cases[y].org
      BY <1>1, <1>4, <2>2
    <2>. QED
      BY <1>1, <2>2, <2>3, <2>4
  <1>. QED
    BY <1>3, <1>4

\* What a located call has found.
LEMMA FoundIs ==
  ASSUME LifetimeInv, NEW c \in Callers, call[c].at = "located"
  PROVE  /\ call[c].key \in Keys /\ call[c].org \in Tenants
         /\ Found(c) # 0 => /\ SourceOf[call[c].key] \in Issues
                            /\ Found(c) = ActiveLifetime(SourceOf[call[c].key], call[c].org)
  <1>1. call[c].key \in Keys /\ call[c].org \in Tenants
    BY DEF LifetimeInv, LifetimeTypeOK, CallRows
  <1>2. SourceOf[call[c].key] \in Sources
    BY <1>1
  <1>. QED
    BY <1>1, <1>2 DEF Found, Sources

\* The key of a start is new, so no execution was opened with it.
LEMMA FirstIs ==
  ASSUME LifetimeInv, NEW c \in Callers, call[c].at = "located", FirstStart(c)
  PROVE  /\ applied' \subseteq Keys \X {"start", "session"}
         /\ applied \subseteq applied' /\ <<call[c].key, "start">> \in applied'
         /\ \A e \in ExecIds : execs[e].key # call[c].key
  <1>1. call[c].key \in Keys
    BY FoundIs
  <1>2. applied \subseteq Keys \X {"start", "session"}
    BY DEF LifetimeInv, LifetimeTypeOK
  <1>3. applied' = applied \cup {<<call[c].key, "start">>} /\ <<call[c].key, "start">> \notin applied
    BY DEF FirstStart
  <1>4. \A e \in ExecIds : execs[e].status # "absent" => <<execs[e].key, "start">> \in applied
    BY DEF LifetimeInv, ExecRows
  <1>5. \A e \in ExecIds : execs[e].status = "absent" => execs[e].key = NoKey
    BY DEF LifetimeInv, ExecRows
  <1>. QED
    BY <1>1, <1>2, <1>3, <1>4, <1>5

LEMMA ResumeKeeps ==
  ASSUME LifetimeInv, NEW c \in Callers, ResumeRunning(c)
  PROVE  LifetimeInv'
  <1>. DEFINE x == Found(c)
  <1>1. /\ call[c].at = "located" /\ FirstStart(c) /\ x # 0
        /\ cases' = Adopted(x, call[c].org) /\ Written(c)
        /\ UNCHANGED <<execs, sessions>>
    BY DEF ResumeRunning
  <1>2. /\ cases' \in [CaseIds -> CaseType]
        /\ \A y \in CaseIds : cases'[y].status = cases[y].status /\ cases'[y].key = cases[y].key
        /\ OneDelivery'
    BY <1>1, FoundIs, AdoptedKeeps
  <1>3. /\ applied' \subseteq Keys \X {"start", "session"} /\ applied \subseteq applied'
    BY <1>1, FirstIs
  <1>4. CallsGoOn
    BY <1>1, WrittenGoesOn
  <1>5. CallRows'
    BY <1>1, <1>2, <1>4, CallsKeep DEF RowsStay
  <1>6. \A y : Of(y)' = Of(y)
    BY <1>1 DEF Of
  <1>7. \A e : Open(e)' = Open(e)
    BY <1>1 DEF Open
  <1>8. LifetimeTypeOK'
    BY <1>1, <1>2, <1>3, <1>4 DEF LifetimeInv, LifetimeTypeOK, CaseType, CallsGoOn, CallType
  <1>9. ExecRows' /\ CaseRows'
    <2>1. \A e \in ExecIds : execs[e].orch = "cancelled" => execs[e].case \in CaseIds
      BY DEF LifetimeInv, ExecRows
    <2>2. ExecRows'
      BY <1>1, <1>2, <1>3, <2>1 DEF LifetimeInv, ExecRows
    <2>3. CaseRows'
      BY <1>1, <1>2, <1>6 DEF LifetimeInv, CaseRows
    <2>. QED
      BY <2>2, <2>3
  <1>10. SessionRows' /\ HandoffChain' /\ KeyOpensOnce'
    BY <1>1 DEF LifetimeInv, SessionRows, HandoffChain, KeyOpensOnce
  <1>11. ClosedTogether'
    BY <1>1, <1>7 DEF LifetimeInv, ClosedTogether
  <1>12. Ordered'
    <2>1. \A e \in ExecIds : execs[e].status # "absent" => execs[e].case \in CaseIds
      BY DEF LifetimeInv, ExecRows
    <2>. QED
      BY <1>1, <1>2, <1>6, <2>1 DEF LifetimeInv, Ordered
  <1>. QED
    BY <1>2, <1>5, <1>8, <1>9, <1>10, <1>11, <1>12 DEF LifetimeInv

\* One more execution, the last of its lifetime and running (OpenNext and
\* OpenLifetime): what the execution table says of itself.
Appends(e, x, n, k) ==
  /\ e \in ExecIds /\ execs[e].status = "absent"
  /\ x \in CaseIds /\ k \in Keys /\ n \in 1..(Cardinality(Of(x)) + 1)
  /\ \A d \in Of(x) : execs[d].ordinal < n /\ execs[d].orch # "running" /\ execs[d].orch # "cancelled"
  /\ \A d \in ExecIds : execs[d].key # k
  /\ execs' = [execs EXCEPT ![e] = Opened(x, n, k)]
  /\ cases'[x].status = "active" /\ cases'[x].key \in Keys
  /\ cases' \in [CaseIds -> CaseType]
  /\ \A y \in CaseIds \ {x} : cases'[y].status = cases[y].status /\ cases'[y].key = cases[y].key
  /\ applied \subseteq applied' /\ <<k, "start">> \in applied'
  /\ UNCHANGED sessions

LEMMA AppendedKeeps ==
  ASSUME LifetimeInv, NEW e, NEW x, NEW n, NEW k, Appends(e, x, n, k)
  PROVE  /\ execs' \in [ExecIds -> ExecType]
         /\ ExecRows' /\ CaseRows' /\ Ordered' /\ KeyOpensOnce' /\ ClosedTogether' /\ SessionRows' /\ HandoffChain'
  <1>. DEFINE new == Opened(x, n, k)
  <1>0. /\ e \in ExecIds /\ execs[e].status = "absent"
        /\ x \in CaseIds /\ k \in Keys /\ n \in 1..(Cardinality(Of(x)) + 1)
        /\ \A d \in Of(x) : execs[d].ordinal < n /\ execs[d].orch # "running" /\ execs[d].orch # "cancelled"
        /\ \A d \in ExecIds : execs[d].key # k
        /\ execs' = [execs EXCEPT ![e] = Opened(x, n, k)]
        /\ cases'[x].status = "active" /\ cases'[x].key \in Keys
        /\ cases' \in [CaseIds -> CaseType]
        /\ \A y \in CaseIds \ {x} : cases'[y].status = cases[y].status /\ cases'[y].key = cases[y].key
        /\ applied \subseteq applied' /\ <<k, "start">> \in applied'
        /\ UNCHANGED sessions
    BY DEF Appends
  <1>. USE <1>0
  <1>1. execs \in [ExecIds -> ExecType]
    BY DEF LifetimeInv, LifetimeTypeOK, ExecType
  <1>2. /\ new.case = x /\ new.ordinal = n /\ new.status = "active" /\ new.orch = "running" /\ new.key = k
    BY DEF Opened
  <1>3. /\ execs'[e] = new
        /\ \A d \in ExecIds \ {e} : execs'[d] = execs[d]
    BY <1>1
  <1>4. execs[e].case = 0 /\ 0 \notin CaseIds
    <2>1. execs[e].case = 0
      BY DEF LifetimeInv, ExecRows
    <2>. QED
      BY <2>1 DEF CaseIds
  <1>5. /\ Of(x)' = Of(x) \cup {e} /\ e \notin Of(x)
        /\ \A y \in CaseIds \ {x} : Of(y)' = Of(y)
    BY <1>2, <1>3, <1>4 DEF Of
  <1>6. /\ Cardinality(Of(x)') = Cardinality(Of(x)) + 1 /\ Cardinality(Of(x)) \in Nat
        /\ Cardinality(Of(x)') <= MaxExecs
    <2>1. Of(x) \in SUBSET ExecIds /\ Of(x) \cup {e} \in SUBSET ExecIds
      BY DEF Of
    <2>2. IsFiniteSet(Of(x)) /\ Cardinality(Of(x)) \in Nat /\ Cardinality(Of(x) \cup {e}) <= MaxExecs
      BY <2>1, ExecsFinite
    <2>3. Cardinality(Of(x) \cup {e}) = Cardinality(Of(x)) + 1
      BY <1>5, <2>2, FS_AddElement
    <2>. QED
      BY <1>5, <2>2, <2>3
  <1>7. n \in 1..Cardinality(Of(x)') /\ n \in 0..MaxExecs
    BY <1>6
  <1>8. execs' \in [ExecIds -> ExecType]
    BY <1>1, <1>7 DEF ExecType, Opened
  <1>. HIDE DEF new
  <1>9. ExecRows'
    <2>1. ASSUME NEW d \in ExecIds, d # e, execs[d].status # "absent"
          PROVE  execs[d].case \in CaseIds /\ cases'[execs[d].case].status # "absent"
                 /\ (execs[d].orch = "cancelled" => cases'[execs[d].case].status = "cancelled")
      <3>1. /\ execs[d].case \in CaseIds /\ cases[execs[d].case].status # "absent"
            /\ execs[d].orch = "cancelled" => cases[execs[d].case].status = "cancelled"
        BY <2>1 DEF LifetimeInv, ExecRows
      <3>2. CASE execs[d].case = x
        BY <3>1, <3>2 DEF Of
      <3>3. CASE execs[d].case # x
        BY <3>1, <3>3
      <3>. QED
        BY <3>2, <3>3
    <2>2. \A d \in ExecIds \ {e} : execs[d].status = "absent" => execs[d].orch = "absent"
      BY DEF LifetimeInv, ExecRows
    <2>. QED
      BY <1>2, <1>3, <2>1, <2>2 DEF LifetimeInv, ExecRows
  <1>10. CaseRows'
    <2>1. cases'[x].key # NoKey /\ e \in Of(x)'
      BY <1>5
    <2>. QED
      BY <1>5, <2>1 DEF LifetimeInv, CaseRows
  <1>11. KeyOpensOnce'
    BY <1>2, <1>3 DEF LifetimeInv, KeyOpensOnce
  <1>12. ClosedTogether'
    <2>1. Open(e) = {}
      <3>1. ASSUME NEW s \in Open(e) PROVE FALSE
        BY DEF LifetimeInv, SessionRows, Open
      <3>. QED
        BY <3>1
    <2>2. \A d : Open(d)' = Open(d)
      BY DEF Open
    <2>. QED
      BY <1>2, <1>3, <2>1, <2>2 DEF LifetimeInv, ClosedTogether
  <1>13. Ordered'
    <2>. DEFINE After(y) == {d \in ExecIds : execs'[d].case = y}
    <2>1. /\ After(x) = Of(x) \cup {e} /\ Cardinality(After(x)) = Cardinality(Of(x)) + 1
          /\ \A y \in CaseIds \ {x} : After(y) = Of(y)
      BY <1>5, <1>6 DEF Of
    <2>2. ASSUME NEW d \in ExecIds, execs'[d].status # "absent", NEW y \in CaseIds, y = execs'[d].case
          PROVE  /\ execs'[d].ordinal \in 1..Cardinality(After(y))
                 /\ \A f \in After(y) : f # d => execs'[f].ordinal # execs'[d].ordinal
                 /\ execs'[d].orch = "running" => /\ \A f \in After(y) : execs'[f].ordinal <= execs'[d].ordinal
                                                  /\ cases'[y].status = "active"
      <3>. HIDE DEF After
      <3>1. \A f \in Of(x) : f # e /\ execs'[f] = execs[f] /\ execs[f].ordinal \in Nat /\ execs[f].case = x
        BY <1>1, <1>3, <1>5 DEF Of, ExecType
      <3>0. Cardinality(After(x)) \in Nat /\ 1..Cardinality(Of(x)) \subseteq 1..Cardinality(After(x))
        <4>1. Cardinality(After(x)) = Cardinality(Of(x)) + 1
          BY <2>1
        <4>. QED
          BY <1>6, <4>1
      <3>2. CASE d = e
        <4>1. y = x /\ execs'[d].ordinal = n
          BY <1>2, <1>3, <2>2, <3>2
        <4>2. n \in 1..Cardinality(After(x))
          BY <1>6, <2>1
        <4>3. execs'[d].ordinal \in 1..Cardinality(After(y))
          BY <4>1, <4>2
        <4>4. \A f \in Of(x) : execs'[f].ordinal < n
          BY <3>1
        <4>5. \A f \in After(y) : /\ f # d => execs'[f].ordinal # n
                                  /\ execs'[f].ordinal <= n
          BY <2>1, <3>1, <3>2, <4>1, <4>4
        <4>. QED
          BY <4>1, <4>3, <4>5
      <3>3. CASE d # e /\ y = x
        <4>1. d \in Of(x) /\ execs'[d] = execs[d] /\ execs[d].status # "absent" /\ execs[d].orch # "running"
          BY <1>3, <2>2, <3>3 DEF Of
        <4>2. execs[d].ordinal \in 1..Cardinality(Of(x))
              /\ \A f \in Of(x) : f # d => execs[f].ordinal # execs[d].ordinal
          BY <3>1, <4>1 DEF LifetimeInv, Ordered
        <4>3. execs'[d].ordinal \in 1..Cardinality(After(y))
          BY <3>0, <3>3, <4>1, <4>2
        <4>4. ASSUME NEW f \in After(y), f # d PROVE execs'[f].ordinal # execs'[d].ordinal
          <5>1. CASE f = e
            BY <1>2, <1>3, <3>1, <4>1, <5>1
          <5>2. CASE f # e
            BY <2>1, <3>1, <3>3, <4>1, <4>2, <4>4, <5>2
          <5>. QED
            BY <5>1, <5>2
        <4>. QED
          BY <4>1, <4>3, <4>4
      <3>4. CASE d # e /\ y # x
        <4>1. /\ execs'[d] = execs[d] /\ execs[d].status # "absent" /\ execs[d].case = y
              /\ After(y) = Of(y)
          BY <1>3, <2>1, <2>2, <3>4
        <4>2. \A f \in Of(y) : execs'[f] = execs[f]
          BY <1>3, <1>4, <2>2 DEF Of
        <4>. QED
          BY <3>4, <4>1, <4>2 DEF LifetimeInv, Ordered
      <3>. QED
        BY <3>2, <3>3, <3>4
    <2>3. \A d \in ExecIds : execs'[d].status # "absent" => execs'[d].case \in CaseIds
      BY <1>9 DEF ExecRows
    <2>4. \A d \in ExecIds : Of(execs[d].case)' = After(execs'[d].case)
      BY DEF Of
    <2>. HIDE DEF After
    <2>. QED
      BY <2>2, <2>3, <2>4 DEF Ordered
  <1>14. SessionRows' /\ HandoffChain'
    <2>1. \A d \in ExecIds : execs[d].status # "absent" => execs'[d].status # "absent"
      BY <1>3
    <2>. QED
      BY <2>1 DEF LifetimeInv, SessionRows, HandoffChain
  <1>. QED
    BY <1>8, <1>9, <1>10, <1>11, <1>12, <1>13, <1>14

\* The next round appends to the lifetime that was found.
LEMMA OpenNextAppends ==
  ASSUME LifetimeInv, NEW c \in Callers, NEW e \in ExecIds, OpenNext(c, e)
  PROVE  /\ cases' = Adopted(Found(c), call[c].org)
         /\ \E n : Appends(e, Found(c), n, call[c].key)
  <1>. PICK x : x = Found(c)
    OBVIOUS
  <1>. PICK last : last = Last(x)
    OBVIOUS
  <1>. DEFINE k == call[c].key
              n == execs[last].ordinal + 1
  <1>1. /\ call[c].at = "located" /\ FirstStart(c) /\ x # 0
        /\ execs[last].orch # "running"
        /\ execs[e].status = "absent"
        /\ cases' = [Adopted(x, call[c].org) EXCEPT ![x].status = "active"]
        /\ execs' = [execs EXCEPT ![last].status = execs[last].orch, ![e] = Opened(x, n, k)]
        /\ Written(c) /\ UNCHANGED sessions
    BY DEF OpenNext, Fresh
  <1>2. /\ k \in Keys /\ call[c].org \in Tenants /\ SourceOf[k] \in Issues
        /\ x = ActiveLifetime(SourceOf[k], call[c].org)
    BY <1>1, FoundIs
  <1>3. x \in CaseIds /\ cases[x].status = "active"
    <2>1. ActiveLifetime(SourceOf[k], call[c].org) # 0
      BY <1>1, <1>2
    <2>. QED
      BY <1>2, <2>1, ActiveFound
  <1>4. cases \in [CaseIds -> CaseType] /\ execs \in [ExecIds -> ExecType]
    BY DEF LifetimeInv, LifetimeTypeOK, CaseType, ExecType
  \* The status the update writes is the one the row had.
  <1>5. cases' = Adopted(x, call[c].org)
    <2>. DEFINE a == Adopted(x, call[c].org)
    <2>1. a \in [CaseIds -> CaseType]
      <3>1. CASE call[c].org # NoOrg
        <4>1. [cases[x] EXCEPT !.org = call[c].org] \in CaseType
          BY <1>2, <1>3, <1>4 DEF CaseType
        <4>. QED
          BY <1>4, <3>1, <4>1 DEF Adopted
      <3>2. CASE call[c].org = NoOrg
        BY <1>4, <3>2 DEF Adopted
      <3>. QED
        BY <3>1, <3>2
    <2>2. a[x].status = "active"
      BY <1>3, <1>4 DEF Adopted, CaseType
    <2>3. [a[x] EXCEPT !.status = "active"] = a[x]
      BY <1>3, <2>1, <2>2 DEF CaseType
    <2>4. cases' = [a EXCEPT ![x] = [a[x] EXCEPT !.status = "active"]]
      BY <1>1
    <2>5. \A y \in CaseIds : cases'[y] = a[y]
      BY <1>3, <2>1, <2>3, <2>4
    <2>6. cases' = [y \in CaseIds |-> cases'[y]] /\ a = [y \in CaseIds |-> a[y]]
      BY <2>1, <2>4
    <2>. QED
      BY <2>5, <2>6
  <1>6. /\ cases' \in [CaseIds -> CaseType]
        /\ \A y \in CaseIds : cases'[y].status = cases[y].status /\ cases'[y].key = cases[y].key
        /\ OneDelivery'
    BY <1>1, <1>2, <1>5, AdoptedKeeps
  <1>7. /\ applied' \subseteq Keys \X {"start", "session"}
        /\ applied \subseteq applied' /\ <<k, "start">> \in applied'
        /\ \A d \in ExecIds : execs[d].key # k
    BY <1>1, FirstIs
  <1>8. /\ last \in Of(x)
        /\ \A d \in Of(x) : execs[d].ordinal <= execs[last].ordinal
    BY <1>3, LastIsIn DEF LifetimeInv, CaseRows
  <1>9. last \in ExecIds /\ execs[last].case = x /\ last # e /\ execs[last].status # "absent"
    <2>1. x # 0 /\ execs[e].case = 0
      BY <1>1 DEF LifetimeInv, ExecRows
    <2>. QED
      BY <1>8, <2>1 DEF LifetimeInv, ExecRows, Of
  \* Its last execution was completed: a cancelled one would have ended x.
  <1>10. execs[last].orch = "completed" /\ execs[last].status = "completed"
    <2>1. execs[last].orch \in {"absent", "running", "completed", "cancelled"}
      BY <1>4, <1>9 DEF ExecType
    <2>2. execs[last].orch # "absent" /\ execs[last].orch # "cancelled"
      BY <1>3, <1>9 DEF LifetimeInv, ExecRows
    <2>. QED
      BY <1>1, <1>9, <2>1, <2>2 DEF LifetimeInv, ClosedTogether
  <1>11. execs' = [execs EXCEPT ![e] = Opened(x, n, k)]
    <2>1. [execs EXCEPT ![last].status = execs[last].orch] = execs
      BY <1>4, <1>9, <1>10 DEF ExecType
    <2>2. execs' = [[execs EXCEPT ![last].status = execs[last].orch] EXCEPT ![e] = Opened(x, n, k)]
      BY <1>1
    <2>. QED
      BY <2>1, <2>2
  <1>12. ASSUME NEW d \in Of(x)
         PROVE  /\ execs[d].ordinal \in Nat /\ execs[d].orch # "cancelled"
                /\ execs[d].orch = "running" => execs[last].ordinal <= execs[d].ordinal
    <2>1. d \in ExecIds /\ execs[d].case = x /\ x # 0
      BY <1>1 DEF Of
    <2>2. execs[d].status # "absent"
      BY <2>1 DEF LifetimeInv, ExecRows
    <2>3. execs[d].ordinal \in Nat
      BY <1>4, <2>1 DEF ExecType
    <2>4. execs[d].orch # "cancelled"
      BY <1>3, <2>1 DEF LifetimeInv, ExecRows
    <2>5. execs[d].orch = "running" => \A f \in Of(x) : execs[f].ordinal <= execs[d].ordinal
      BY <2>1, <2>2 DEF LifetimeInv, Ordered
    <2>. QED
      BY <1>8, <2>3, <2>4, <2>5
  <1>13. \A d \in Of(x) : execs[d].orch # "running"
    <2>1. \A d \in Of(x) : d # last => execs[d].ordinal # execs[last].ordinal
      BY <1>9 DEF LifetimeInv, Ordered
    <2>. QED
      BY <1>1, <1>8, <1>12, <2>1
  <1>14. n \in 1..(Cardinality(Of(x)) + 1) /\ \A d \in Of(x) : execs[d].ordinal < n
    <2>1. Of(x) \in SUBSET ExecIds
      BY DEF Of
    <2>2. Cardinality(Of(x)) \in Nat
      BY <2>1, ExecsFinite
    <2>3. execs[last].ordinal \in 1..Cardinality(Of(x))
      BY <1>9 DEF LifetimeInv, Ordered
    <2>. QED
      BY <1>8, <1>12, <2>2, <2>3
  <1>15. cases'[x].status = "active" /\ cases'[x].key \in Keys
    <2>1. cases[x].key \in Keys
      BY <1>3, <1>4 DEF LifetimeInv, CaseRows, CaseType
    <2>. QED
      BY <1>3, <1>6, <2>1
  <1>. HIDE DEF k, n
  <1>16. \A d \in Of(x) : execs[d].ordinal < n /\ execs[d].orch # "running" /\ execs[d].orch # "cancelled"
    BY <1>12, <1>13, <1>14
  <1>17. /\ \A y \in CaseIds \ {x} : cases'[y].status = cases[y].status /\ cases'[y].key = cases[y].key
         /\ execs[e].status = "absent" /\ UNCHANGED sessions
    BY <1>1, <1>6
  <1>18. Appends(e, x, n, k)
    BY <1>2, <1>3, <1>6, <1>7, <1>11, <1>14, <1>15, <1>16, <1>17 DEF Appends
  <1>. QED
    BY <1>5, <1>18 DEF k

LEMMA OpenNextKeeps ==
  ASSUME LifetimeInv, NEW c \in Callers, NEW e \in ExecIds, OpenNext(c, e)
  PROVE  LifetimeInv'
  <1>. PICK x : x = Found(c)
    OBVIOUS
  <1>. PICK k : k = call[c].key
    OBVIOUS
  <1>1. call[c].at = "located" /\ FirstStart(c) /\ x # 0 /\ Written(c) /\ UNCHANGED sessions
    BY DEF OpenNext
  <1>2. PICK n : Appends(e, x, n, k)
    BY OpenNextAppends
  <1>3. /\ cases' \in [CaseIds -> CaseType]
        /\ \A y \in CaseIds : cases'[y].status = cases[y].status
        /\ OneDelivery'
    BY <1>1, FoundIs, OpenNextAppends, AdoptedKeeps
  <1>4. applied' \subseteq Keys \X {"start", "session"}
    BY <1>1, FirstIs
  <1>5. /\ execs' \in [ExecIds -> ExecType]
        /\ ExecRows' /\ CaseRows' /\ Ordered' /\ KeyOpensOnce' /\ ClosedTogether' /\ SessionRows' /\ HandoffChain'
    BY <1>2, AppendedKeeps
  <1>6. CallsGoOn
    BY <1>1, WrittenGoesOn
  <1>7. RowsStay
    BY <1>2, <1>3 DEF RowsStay, Appends, LifetimeInv, LifetimeTypeOK, Opened
  <1>8. CallRows'
    BY <1>6, <1>7, CallsKeep
  <1>9. LifetimeTypeOK'
    BY <1>1, <1>3, <1>4, <1>5, <1>6 DEF LifetimeInv, LifetimeTypeOK, CaseType, ExecType, CallsGoOn, CallType
  <1>. QED
    BY <1>3, <1>5, <1>8, <1>9 DEF LifetimeInv

LEMMA OpenLifetimeAppends ==
  ASSUME LifetimeInv, NEW c \in Callers, NEW x \in CaseIds, NEW e \in ExecIds, OpenLifetime(c, x, e)
  PROVE  Appends(e, x, 1, call[c].key) /\ Of(x) = {}
  <1>. DEFINE k == call[c].key
              org == call[c].org
              opened == [source |-> SourceOf[k], org |-> org, key |-> k, status |-> "active"]
  <1>1. /\ call[c].at = "located" /\ FirstStart(c) /\ Found(c) = 0
        /\ cases[x].status = "absent" /\ execs[e].status = "absent"
        /\ cases' = [cases EXCEPT ![x] = opened]
        /\ execs' = [execs EXCEPT ![e] = Opened(x, 1, k)]
        /\ Written(c) /\ UNCHANGED sessions
    BY DEF OpenLifetime, Fresh
  <1>2. k \in Keys /\ org \in Tenants /\ SourceOf[k] \in Sources
    BY <1>1, FoundIs
  <1>3. cases \in [CaseIds -> CaseType] /\ execs \in [ExecIds -> ExecType]
    BY DEF LifetimeInv, LifetimeTypeOK, CaseType, ExecType
  <1>4. /\ cases' \in [CaseIds -> CaseType] /\ cases'[x] = opened
        /\ \A y \in CaseIds \ {x} : cases'[y] = cases[y]
    BY <1>1, <1>2, <1>3 DEF CaseType
  <1>5. /\ applied' \subseteq Keys \X {"start", "session"}
        /\ applied \subseteq applied' /\ <<k, "start">> \in applied'
        /\ \A d \in ExecIds : execs[d].key # k
    BY <1>1, FirstIs
  \* No execution belongs to a lifetime that is not there.
  <1>6. Of(x) = {}
    <2>1. ASSUME NEW d \in Of(x) PROVE FALSE
      <3>1. d \in ExecIds /\ execs[d].case = x /\ 0 \notin CaseIds
        BY DEF Of, CaseIds
      <3>. QED
        BY <1>1, <3>1 DEF LifetimeInv, ExecRows
    <2>. QED
      BY <2>1
  <1>7. 1 \in 1..(Cardinality(Of(x)) + 1)
    BY <1>6, FS_EmptySet
  <1>8. Appends(e, x, 1, k)
    BY <1>1, <1>2, <1>4, <1>5, <1>6, <1>7 DEF Appends
  <1>. QED
    BY <1>6, <1>8

LEMMA OpenLifetimeKeeps ==
  ASSUME LifetimeInv, NEW c \in Callers, NEW x \in CaseIds, NEW e \in ExecIds, OpenLifetime(c, x, e)
  PROVE  LifetimeInv'
  <1>. DEFINE k == call[c].key
              org == call[c].org
              opened == [source |-> SourceOf[k], org |-> org, key |-> k, status |-> "active"]
  <1>1. /\ call[c].at = "located" /\ FirstStart(c) /\ Found(c) = 0
        /\ cases[x].status = "absent" /\ execs[e].status = "absent"
        /\ cases' = [cases EXCEPT ![x] = opened]
        /\ execs' = [execs EXCEPT ![e] = Opened(x, 1, k)]
        /\ Written(c) /\ UNCHANGED sessions
    BY DEF OpenLifetime, Fresh
  <1>2. k \in Keys /\ org \in Tenants /\ SourceOf[k] \in Sources
    BY <1>1, FoundIs
  <1>3. cases \in [CaseIds -> CaseType] /\ execs \in [ExecIds -> ExecType]
    BY DEF LifetimeInv, LifetimeTypeOK, CaseType, ExecType
  <1>4. /\ cases' \in [CaseIds -> CaseType] /\ cases'[x] = opened
        /\ \A y \in CaseIds \ {x} : cases'[y] = cases[y]
    BY <1>1, <1>2, <1>3 DEF CaseType
  <1>5. /\ applied' \subseteq Keys \X {"start", "session"}
        /\ applied \subseteq applied' /\ <<k, "start">> \in applied'
        /\ \A d \in ExecIds : execs[d].key # k
    BY <1>1, FirstIs
  <1>8. Appends(e, x, 1, k)
    BY OpenLifetimeAppends
  <1>9. /\ execs' \in [ExecIds -> ExecType]
        /\ ExecRows' /\ CaseRows' /\ Ordered' /\ KeyOpensOnce' /\ ClosedTogether' /\ SessionRows' /\ HandoffChain'
    BY <1>8, AppendedKeeps
  \* The call looked for its issue and found nothing that would share it.
  <1>10. OneDelivery'
    <2>1. SourceOf[k] \in Issues => ActiveLifetime(SourceOf[k], org) = 0
      BY <1>1, <1>2 DEF Found
    <2>2. ASSUME NEW y \in CaseIds, cases[y].status = "active", cases[y].source = SourceOf[k], SourceOf[k] \in Issues
          PROVE  org # NoOrg /\ cases[y].org # org /\ cases[y].org # NoOrg
      BY <1>2, <2>1, <2>2, ActiveFound
    <2>3. opened.org = org /\ opened.source = SourceOf[k]
      OBVIOUS
    <2>. HIDE DEF opened
    <2>. QED
      BY <1>4, <2>2, <2>3 DEF LifetimeInv, OneDelivery
  <1>11. CallsGoOn
    BY <1>1, WrittenGoesOn
  <1>12. RowsStay
    <2>1. cases'[x].status # "absent"
      BY <1>4
    <2>2. execs'[e].status # "absent"
      BY <1>1, <1>3 DEF Opened
    <2>3. \A d \in ExecIds \ {e} : execs'[d] = execs[d]
      BY <1>1, <1>3
    <2>. QED
      BY <1>4, <2>1, <2>2, <2>3 DEF RowsStay
  <1>13. CallRows'
    BY <1>11, <1>12, CallsKeep
  <1>. HIDE DEF opened
  <1>14. LifetimeTypeOK'
    BY <1>1, <1>4, <1>5, <1>9, <1>11 DEF LifetimeInv, LifetimeTypeOK, CaseType, ExecType, CallsGoOn, CallType
  <1>. QED
    BY <1>9, <1>10, <1>13, <1>14 DEF LifetimeInv

-----------------------------------------------------------------------------
(* Calls that change nothing but themselves. *)

LEMMA AskedIs ==
  ASSUME LifetimeInv, NEW c \in Callers, NEW k \in Keys,
         StartAdhoc(c, k) \/ \E named \in Tenants : ResolveOrg(c, k, named)
  PROVE  /\ \E new \in CallType : call' = [call EXCEPT ![c] = new] /\ new.at = "located" /\ new.key = k
         /\ UNCHANGED <<cases, execs, sessions, applied>> /\ call[c].at = "idle"
  <1>1. ASSUME NEW i PROVE Remembered(i) \in Tenants
    <2>1. NoOrg \in Tenants
      BY DEF Tenants
    <2>2. ActiveLifetime(i, NoOrg) \in CaseIds \cup {0}
      BY <2>1, ActiveFound
    <2>3. \A x \in CaseIds : cases[x].org \in Tenants
      BY DEF LifetimeInv, LifetimeTypeOK
    <2>. QED
      BY <2>1, <2>2, <2>3 DEF Remembered
  <1>2. \A wanted \in Tenants : Located(wanted) \subseteq Tenants
    BY DEF Located
  <1>3. CASE StartAdhoc(c, k)
    <2>. DEFINE new == [Idle EXCEPT !.at = "located", !.key = k]
    <2>1. new \in CallType /\ new.at = "located" /\ new.key = k
      BY DEF Idle, CallType, Tenants
    <2>2. call' = [call EXCEPT ![c] = new]
      BY <1>3 DEF StartAdhoc
    <2>. HIDE DEF new
    <2>. QED
      BY <1>3, <2>1, <2>2 DEF StartAdhoc
  <1>4. ASSUME NEW named \in Tenants, ResolveOrg(c, k, named)
        PROVE  \E new \in CallType : call' = [call EXCEPT ![c] = new] /\ new.at = "located" /\ new.key = k
    <2>1. PICK org \in Tenants : call' = [call EXCEPT ![c] = [Idle EXCEPT !.at = "located", !.key = k, !.org = org]]
      BY <1>1, <1>2, <1>4 DEF ResolveOrg
    <2>. DEFINE new == [Idle EXCEPT !.at = "located", !.key = k, !.org = org]
    <2>2. new \in CallType /\ new.at = "located" /\ new.key = k
      BY DEF Idle, CallType
    <2>3. call' = [call EXCEPT ![c] = new]
      BY <2>1
    <2>. HIDE DEF new
    <2>. QED
      BY <2>2, <2>3
  <1>. QED
    BY <1>3, <1>4 DEF StartAdhoc, ResolveOrg

LEMMA ResolveKeeps ==
  ASSUME LifetimeInv, NEW c \in Callers, NEW k \in Keys,
         StartAdhoc(c, k) \/ \E named \in Tenants : ResolveOrg(c, k, named)
  PROVE  LifetimeInv'
  <1>1. PICK new \in CallType : call' = [call EXCEPT ![c] = new] /\ new.at = "located" /\ new.key = k
    BY AskedIs
  <1>2. call \in [Callers -> CallType] /\ UNCHANGED <<cases, execs, sessions, applied>>
    BY AskedIs DEF LifetimeInv, LifetimeTypeOK, CallType
  <1>3. call' \in [Callers -> CallType] /\ call'[c] = new /\ \A d \in Callers \ {c} : call'[d] = call[d]
    BY <1>1, <1>2
  <1>4. CallRows'
    BY <1>1, <1>2, <1>3 DEF LifetimeInv, CallRows
  <1>. QED
    BY <1>2, <1>3, <1>4, CallOnlyKeeps

LEMMA GoesOnKeeps ==
  ASSUME LifetimeInv, CallsGoOn, UNCHANGED <<cases, execs, sessions, applied>>
  PROVE  LifetimeInv'
  <1>1. RowsStay
    BY DEF RowsStay
  <1>. QED
    BY <1>1, CallsKeep, CallOnlyKeeps DEF CallsGoOn

LEMMA ReadLifetimeKeeps ==
  ASSUME LifetimeInv, NEW c \in Callers, ReadLifetime(c)
  PROVE  LifetimeInv'
  <1>1. PICK x \in Lookup(c) : call' = [call EXCEPT ![c].at = "read", ![c].org = NoOrg, ![c].case = x]
    BY DEF ReadLifetime
  <1>2. /\ call[c].at = "written" /\ call[c].key \in Keys /\ call[c].org \in Tenants
        /\ UNCHANGED <<cases, execs, sessions, applied>>
    BY DEF ReadLifetime, LifetimeInv, LifetimeTypeOK, CallRows
  <1>3. x \in CaseIds /\ cases[x].status # "absent"
    <2>1. CASE SourceOf[call[c].key] = Adhoc
      <3>1. x \in CaseIds /\ cases[x].key \in Keys
        BY <1>2, <2>1 DEF Lookup
      <3>. QED
        BY <3>1 DEF LifetimeInv, CaseRows
    <2>2. CASE SourceOf[call[c].key] # Adhoc
      <3>1. x = ActiveLifetime(SourceOf[call[c].key], call[c].org) /\ x # 0
        BY <2>2 DEF Lookup
      <3>. QED
        BY <1>2, <3>1, ActiveFound
    <2>. QED
      BY <2>1, <2>2
  <1>4. call \in [Callers -> CallType] /\ NoOrg \in Tenants
    BY DEF LifetimeInv, LifetimeTypeOK, CallType, Tenants
  <1>5. call' \in [Callers -> CallType]
    <2>1. [call[c] EXCEPT !.at = "read", !.org = NoOrg, !.case = x] \in CallType
      BY <1>3, <1>4 DEF CallType
    <2>2. call' = [call EXCEPT ![c] = [call[c] EXCEPT !.at = "read", !.org = NoOrg, !.case = x]]
      BY <1>1, <1>4
    <2>. QED
      BY <1>4, <2>1, <2>2
  <1>6. call'[c].at = "read" /\ call'[c].case = x /\ call'[c].key = call[c].key
    BY <1>1, <1>4 DEF CallType
  <1>7. \A d \in Callers \ {c} : call'[d] = call[d]
    BY <1>1, <1>4
  <1>8. CallRows'
    BY <1>2, <1>3, <1>6, <1>7 DEF LifetimeInv, CallRows
  <1>. QED
    BY <1>2, <1>5, <1>8, CallOnlyKeeps

LEMMA ReadExecutionKeeps ==
  ASSUME LifetimeInv, NEW c \in Callers, ReadExecution(c)
  PROVE  LifetimeInv'
  <1>1. /\ call[c].at = "read"
        /\ call' = [call EXCEPT ![c].at = "resolved", ![c].case = 0, ![c].exec = Last(call[c].case)]
        /\ UNCHANGED <<cases, execs, sessions, applied>>
    BY DEF ReadExecution
  <1>2. PICK x : x = call[c].case
    OBVIOUS
  <1>3. x \in CaseIds /\ cases[x].status # "absent" /\ call[c].key \in Keys
    BY <1>1, <1>2 DEF LifetimeInv, CallRows
  <1>4. PICK e : e = Last(x)
    OBVIOUS
  <1>5. e \in ExecIds /\ execs[e].status # "absent"
    <2>1. e \in ExecIds /\ execs[e].case = x /\ x # 0
      BY <1>3, <1>4, LastIsIn DEF LifetimeInv, CaseRows, Of, CaseIds
    <2>. QED
      BY <2>1 DEF LifetimeInv, ExecRows
  <1>6. call \in [Callers -> CallType]
    BY DEF LifetimeInv, LifetimeTypeOK, CallType
  <1>7. call' = [call EXCEPT ![c].at = "resolved", ![c].case = 0, ![c].exec = e]
    BY <1>1, <1>2, <1>4
  <1>8. call' \in [Callers -> CallType]
    <2>1. [call[c] EXCEPT !.at = "resolved", !.case = 0, !.exec = e] \in CallType
      BY <1>5, <1>6 DEF CallType
    <2>2. call' = [call EXCEPT ![c] = [call[c] EXCEPT !.at = "resolved", !.case = 0, !.exec = e]]
      BY <1>6, <1>7
    <2>. QED
      BY <1>6, <2>1, <2>2
  <1>9. call'[c].at = "resolved" /\ call'[c].exec = e /\ call'[c].key = call[c].key
    BY <1>6, <1>7 DEF CallType
  <1>10. \A d \in Callers \ {c} : call'[d] = call[d]
    BY <1>6, <1>7
  <1>11. CallRows'
    <2>1. /\ call'[c].key \in Keys /\ call'[c].at = "resolved"
          /\ call'[c].exec \in ExecIds /\ execs'[call'[c].exec].status # "absent"
      BY <1>1, <1>3, <1>5, <1>9
    <2>2. ASSUME NEW d \in Callers, d # c
          PROVE  /\ call'[d].at # "idle" => call'[d].key \in Keys
                 /\ call'[d].at = "read" => call'[d].case \in CaseIds /\ cases'[call'[d].case].status # "absent"
                 /\ call'[d].at = "resolved" => call'[d].exec \in ExecIds /\ execs'[call'[d].exec].status # "absent"
      BY <1>1, <1>10, <2>2 DEF LifetimeInv, CallRows
    <2>. QED
      BY <2>1, <2>2 DEF CallRows
  <1>. QED
    BY <1>1, <1>8, <1>11, CallOnlyKeeps

-----------------------------------------------------------------------------
(* Sessions. *)

SessionOpens(s, e, r) ==
  /\ s \in SessionIds /\ Fresh(sessions, s)
  /\ e \in ExecIds /\ execs[e].status = "active" /\ Open(e) = {}
  /\ r \in SessionIds \cup {0} /\ MayResume(e, r)
  /\ sessions' = [sessions EXCEPT ![s] = [exec |-> e, from |-> r, status |-> "active"]]

LEMMA SessionOpensKeeps ==
  ASSUME LifetimeInv, NEW s, NEW e, NEW r, SessionOpens(s, e, r), UNCHANGED <<cases, execs>>,
         applied' \subseteq Keys \X {"start", "session"}, applied \subseteq applied', CallsGoOn
  PROVE  LifetimeInv'
  <1>. DEFINE new == [exec |-> e, from |-> r, status |-> "active"]
  <1>1. /\ s \in SessionIds /\ sessions[s].status = "absent"
        /\ \A t \in SessionIds : t < s => sessions[t].status # "absent"
        /\ e \in ExecIds /\ execs[e].status = "active" /\ Open(e) = {}
        /\ r \in SessionIds \cup {0} /\ MayResume(e, r)
        /\ sessions' = [sessions EXCEPT ![s] = new]
    <2>1. sessions \in [SessionIds -> SessionType]
      BY DEF LifetimeInv, LifetimeTypeOK, SessionType
    <2>. QED
      BY <2>1 DEF SessionOpens, Fresh
  <1>2. sessions \in [SessionIds -> SessionType]
    BY DEF LifetimeInv, LifetimeTypeOK, SessionType
  <1>3. new.exec = e /\ new.from = r /\ new.status = "active" /\ new \in SessionType
    BY <1>1 DEF SessionType
  <1>. HIDE DEF new
  <1>4. sessions'[s] = new /\ \A t \in SessionIds \ {s} : sessions'[t] = sessions[t]
    BY <1>1, <1>2
  <1>5. sessions' \in [SessionIds -> SessionType]
    BY <1>1, <1>2, <1>3
  <1>6. \A x : Of(x)' = Of(x)
    BY DEF Of
  <1>7. \A d \in ExecIds : Open(d)' = IF d = e THEN {s} ELSE Open(d)
    BY <1>1, <1>3, <1>4 DEF Open
  <1>8. CallRows'
    <2>1. RowsStay
      BY DEF RowsStay
    <2>. QED
      BY <2>1, CallsKeep
  <1>9. LifetimeTypeOK'
    BY <1>5 DEF LifetimeInv, LifetimeTypeOK, SessionType, CallsGoOn, CallType
  <1>10. ExecRows'
    BY DEF LifetimeInv, ExecRows
  <1>11. CaseRows' /\ Ordered'
    BY <1>6 DEF LifetimeInv, CaseRows, Ordered
  <1>12. OneDelivery' /\ KeyOpensOnce'
    BY DEF LifetimeInv, OneDelivery, KeyOpensOnce
  <1>13. ClosedTogether'
    BY <1>1, <1>7 DEF LifetimeInv, ClosedTogether
  <1>14. SessionRows'
    <2>1. \A q, t \in SessionIds : q < t /\ sessions'[t].status # "absent" => sessions'[q].status # "absent"
      BY <1>1, <1>3, <1>4 DEF LifetimeInv, SessionRows
    <2>2. \A t \in SessionIds : sessions'[t].status # "absent" => /\ sessions'[t].exec \in ExecIds
                                                                  /\ execs[sessions'[t].exec].status # "absent"
      BY <1>1, <1>3, <1>4 DEF LifetimeInv, SessionRows
    <2>. QED
      BY <2>1, <2>2 DEF SessionRows
  <1>15. HandoffChain'
    <2>1. ASSUME NEW t \in SessionIds, NEW q, q = sessions'[t].from, q # 0
          PROVE  q < t /\ sessions'[q].exec = sessions'[t].exec /\ sessions'[q].status \in {"handed_off", "closed"}
      <3>1. CASE t = s
        <4>1. q = r /\ r \in SessionIds /\ sessions[r].exec = e /\ sessions[r].status \in {"handed_off", "closed"}
          BY <1>1, <1>3, <1>4, <2>1, <3>1 DEF MayResume
        \* Numbers are given in order, so what has a status has a lower one.
        <4>2. r < s
          <5>1. r # s /\ ~(s < r)
            BY <1>1, <4>1 DEF LifetimeInv, SessionRows
          <5>. QED
            BY <1>1, <4>1, <5>1 DEF SessionIds
        <4>3. sessions'[r] = sessions[r]
          BY <1>1, <1>4, <4>1
        <4>. QED
          BY <1>3, <1>4, <3>1, <4>1, <4>2, <4>3
      <3>2. CASE t # s
        <4>1. q = sessions[t].from /\ sessions'[t] = sessions[t]
          BY <1>4, <2>1, <3>2
        <4>2. q < t /\ sessions[q].exec = sessions[t].exec /\ sessions[q].status \in {"handed_off", "closed"}
          BY <2>1, <4>1 DEF LifetimeInv, HandoffChain
        <4>3. q \in SessionIds /\ q # s
          BY <1>1, <1>2, <2>1, <4>1, <4>2 DEF SessionType
        <4>. QED
          BY <1>4, <4>1, <4>2, <4>3
      <3>. QED
        BY <3>1, <3>2
    <2>. QED
      BY <2>1 DEF HandoffChain
  <1>. QED
    BY <1>8, <1>9, <1>10, <1>11, <1>12, <1>13, <1>14, <1>15 DEF LifetimeInv

LEMMA StartSessionKeeps ==
  ASSUME LifetimeInv, NEW c \in Callers, StartSession(c)
  PROVE  LifetimeInv'
  <1>. PICK e : e = call[c].exec
    OBVIOUS
  <1>1. /\ call[c].at = "resolved" /\ execs[e].status = "active"
        /\ applied' = applied \cup {<<call[c].key, "session">>}
        /\ call' = [call EXCEPT ![c] = Idle] /\ UNCHANGED <<cases, execs>>
    BY DEF StartSession
  <1>2. call[c].key \in Keys /\ e \in ExecIds
    BY <1>1 DEF LifetimeInv, CallRows
  <1>3. /\ applied' \subseteq Keys \X {"start", "session"} /\ applied \subseteq applied'
    BY <1>1, <1>2 DEF LifetimeInv, LifetimeTypeOK
  <1>4. CallsGoOn
    BY <1>1, IdleGoesOn
  <1>5. CASE UNCHANGED sessions
    <2>1. \A x : Of(x)' = Of(x) /\ Open(x)' = Open(x)
      BY <1>1, <1>5 DEF Of, Open
    <2>2. CallRows'
      <3>1. RowsStay
        BY <1>1 DEF RowsStay
      <3>. QED
        BY <1>4, <3>1, CallsKeep
    <2>3. LifetimeTypeOK'
      BY <1>1, <1>3, <1>4, <1>5 DEF LifetimeInv, LifetimeTypeOK, CallsGoOn, CallType
    <2>4. ExecRows' /\ SessionRows' /\ OneDelivery' /\ KeyOpensOnce' /\ HandoffChain'
      BY <1>1, <1>3, <1>5 DEF LifetimeInv, ExecRows, SessionRows, OneDelivery, KeyOpensOnce, HandoffChain
    <2>5. CaseRows' /\ Ordered' /\ ClosedTogether'
      BY <1>1, <1>5, <2>1 DEF LifetimeInv, CaseRows, Ordered, ClosedTogether
    <2>. QED
      BY <2>2, <2>3, <2>4, <2>5 DEF LifetimeInv
  <1>6. ASSUME NEW s \in SessionIds, NEW r \in SessionIds \cup {0}, MayResume(e, r), Fresh(sessions, s), Open(e) = {},
               sessions' = [sessions EXCEPT ![s] = [exec |-> e, from |-> r, status |-> "active"]]
        PROVE  LifetimeInv'
    <2>1. SessionOpens(s, e, r)
      BY <1>1, <1>2, <1>6 DEF SessionOpens
    <2>. QED
      BY <1>1, <1>3, <1>4, <2>1, SessionOpensKeeps
  <1>. QED
    BY <1>5, <1>6 DEF StartSession

LEMMA OpenSessionKeeps ==
  ASSUME LifetimeInv, NEW e \in ExecIds, NEW r \in SessionIds \cup {0}, NEW s \in SessionIds, OpenSession(e, r, s)
  PROVE  LifetimeInv'
  <1>1. SessionOpens(s, e, r) /\ UNCHANGED <<cases, execs, applied, call>>
    BY DEF OpenSession, SessionOpens
  <1>2. applied' \subseteq Keys \X {"start", "session"} /\ applied \subseteq applied'
    BY <1>1 DEF LifetimeInv, LifetimeTypeOK
  <1>. QED
    BY <1>1, <1>2, SameGoesOn, SessionOpensKeeps

\* Open sessions end, and nothing else happens to the table.
SessionsEnd ==
  /\ sessions' \in [SessionIds -> SessionType]
  /\ \A s \in SessionIds : \/ sessions'[s] = sessions[s]
                           \/ /\ sessions[s].status = "active" /\ sessions'[s].status \in {"handed_off", "closed"}
                              /\ sessions'[s].exec = sessions[s].exec /\ sessions'[s].from = sessions[s].from

LEMMA SessionsEndKeeps ==
  ASSUME LifetimeInv, SessionsEnd, RowsStay
  PROVE  SessionRows' /\ HandoffChain' /\ \A e : Open(e)' \subseteq Open(e)
  <1>1. SessionRows'
    <2>1. \A s \in SessionIds : /\ sessions'[s].exec = sessions[s].exec
                                /\ sessions'[s].status = "absent" <=> sessions[s].status = "absent"
      BY DEF SessionsEnd
    <2>. QED
      BY <2>1 DEF LifetimeInv, SessionRows, RowsStay
  <1>2. HandoffChain'
    <2>1. ASSUME NEW t \in SessionIds, NEW q, q = sessions'[t].from, q # 0
          PROVE  q < t /\ sessions'[q].exec = sessions'[t].exec /\ sessions'[q].status \in {"handed_off", "closed"}
      <3>1. q = sessions[t].from /\ sessions'[t].exec = sessions[t].exec /\ q \in SessionIds
        BY <2>1 DEF SessionsEnd, SessionType
      <3>2. q < t /\ sessions[q].exec = sessions[t].exec /\ sessions[q].status \in {"handed_off", "closed"}
        BY <2>1, <3>1 DEF LifetimeInv, HandoffChain
      <3>3. sessions'[q] = sessions[q]
        BY <3>1, <3>2 DEF SessionsEnd
      <3>. QED
        BY <3>1, <3>2, <3>3
    <2>. QED
      BY <2>1 DEF HandoffChain
  <1>3. \A e : Open(e)' \subseteq Open(e)
    BY DEF Open, SessionsEnd
  <1>. QED
    BY <1>1, <1>2, <1>3

LEMMA HandOffKeeps ==
  ASSUME LifetimeInv, NEW s \in SessionIds, HandOff(s)
  PROVE  LifetimeInv'
  <1>1. /\ sessions[s].status = "active" /\ sessions' = [sessions EXCEPT ![s].status = "handed_off"]
        /\ UNCHANGED <<cases, execs, applied, call>>
    BY DEF HandOff
  <1>2. SessionsEnd
    <2>1. sessions \in [SessionIds -> SessionType]
      BY DEF LifetimeInv, LifetimeTypeOK, SessionType
    <2>2. sessions' \in [SessionIds -> SessionType]
      BY <1>1, <2>1 DEF SessionType
    <2>3. /\ sessions'[s].status = "handed_off" /\ sessions'[s].exec = sessions[s].exec
          /\ sessions'[s].from = sessions[s].from
          /\ \A t \in SessionIds \ {s} : sessions'[t] = sessions[t]
      BY <1>1, <2>1 DEF SessionType
    <2>. QED
      BY <1>1, <2>2, <2>3 DEF SessionsEnd
  <1>3. RowsStay /\ \A x : Of(x)' = Of(x)
    BY <1>1 DEF RowsStay, Of
  <1>4. SessionRows' /\ HandoffChain' /\ \A e : Open(e)' \subseteq Open(e)
    BY <1>2, <1>3, SessionsEndKeeps
  <1>5. CallRows'
    BY <1>1, <1>3, SameGoesOn, CallsKeep
  <1>6. LifetimeTypeOK'
    BY <1>1, <1>2 DEF LifetimeInv, LifetimeTypeOK, SessionsEnd, SessionType
  <1>7. ExecRows' /\ CaseRows' /\ Ordered'
    BY <1>1, <1>3 DEF LifetimeInv, ExecRows, CaseRows, Ordered
  <1>8. OneDelivery' /\ KeyOpensOnce'
    BY <1>1 DEF LifetimeInv, OneDelivery, KeyOpensOnce
  <1>9. ClosedTogether'
    BY <1>1, <1>4 DEF LifetimeInv, ClosedTogether
  <1>. QED
    BY <1>4, <1>5, <1>6, <1>7, <1>8, <1>9 DEF LifetimeInv

-----------------------------------------------------------------------------
(* The end of an execution. *)

\* An execution that runs is not completed, and no other of its lifetime runs.
LEMMA RunningIs ==
  ASSUME LifetimeInv, NEW e \in ExecIds, execs[e].orch = "running"
  PROVE  /\ execs[e].status = "active" /\ execs[e].case \in CaseIds
         /\ cases[execs[e].case].status = "active"
         /\ \A d \in ExecIds \ {e} : execs[d].case = execs[e].case => execs[d].orch # "running"
  <1>1. execs \in [ExecIds -> ExecType]
    BY DEF LifetimeInv, LifetimeTypeOK, ExecType
  <1>2. execs[e].status # "absent" /\ execs[e].status # "completed"
    BY DEF LifetimeInv, ExecRows, ClosedTogether
  <1>3. execs[e].case \in CaseIds /\ 0 \notin CaseIds /\ cases[execs[e].case].status = "active"
    <2>1. execs[e].case \in CaseIds
      BY <1>2 DEF LifetimeInv, ExecRows
    <2>2. cases[execs[e].case].status = "active"
      BY <1>2 DEF LifetimeInv, Ordered
    <2>. QED
      BY <2>1, <2>2 DEF CaseIds
  <1>4. ASSUME NEW d \in ExecIds \ {e}, execs[d].case = execs[e].case, execs[d].orch = "running" PROVE FALSE
    <2>1. execs[d].status # "absent" /\ d \in Of(execs[e].case) /\ e \in Of(execs[d].case)
      BY <1>4 DEF LifetimeInv, ExecRows, Of
    <2>2. /\ execs[d].ordinal <= execs[e].ordinal /\ execs[e].ordinal <= execs[d].ordinal
          /\ execs[d].ordinal # execs[e].ordinal
      BY <1>2, <1>4, <2>1 DEF LifetimeInv, Ordered
    <2>3. execs[d].ordinal \in Nat /\ execs[e].ordinal \in Nat
      BY <1>1 DEF ExecType
    <2>. QED
      BY <2>2, <2>3
  <1>. QED
    BY <1>1, <1>2, <1>3, <1>4 DEF ExecType

LEMMA CompleteKeeps ==
  ASSUME LifetimeInv, NEW e \in ExecIds, Complete(e)
  PROVE  LifetimeInv'
  <1>1. /\ execs[e].orch = "running"
        /\ execs' = [execs EXCEPT ![e].orch = "completed", ![e].status = "completed"]
        /\ sessions' = [s \in SessionIds |-> IF s \in Open(e) THEN [sessions[s] EXCEPT !.status = "closed"] ELSE sessions[s]]
        /\ UNCHANGED <<cases, applied, call>>
    BY DEF Complete
  <1>2. execs \in [ExecIds -> ExecType] /\ sessions \in [SessionIds -> SessionType]
    BY DEF LifetimeInv, LifetimeTypeOK, ExecType, SessionType
  <1>3. /\ execs'[e].orch = "completed" /\ execs'[e].status = "completed"
        /\ execs'[e].case = execs[e].case /\ execs'[e].ordinal = execs[e].ordinal /\ execs'[e].key = execs[e].key
        /\ \A d \in ExecIds \ {e} : execs'[d] = execs[d]
        /\ execs' \in [ExecIds -> ExecType]
    <2>. DEFINE new == [execs[e] EXCEPT !.orch = "completed", !.status = "completed"]
    <2>1. /\ new \in ExecType /\ new.orch = "completed" /\ new.status = "completed"
          /\ new.case = execs[e].case /\ new.ordinal = execs[e].ordinal /\ new.key = execs[e].key
      BY <1>2 DEF ExecType
    <2>2. execs' = [execs EXCEPT ![e] = new]
      BY <1>1, <1>2
    <2>. HIDE DEF new
    <2>. QED
      BY <1>2, <2>1, <2>2
  <1>4. \A s \in SessionIds : IF s \in Open(e) THEN /\ sessions[s].status = "active" /\ sessions'[s].status = "closed"
                                                    /\ sessions'[s].exec = sessions[s].exec
                                                    /\ sessions'[s].from = sessions[s].from
                                               ELSE sessions'[s] = sessions[s]
    BY <1>1, <1>2 DEF Open, SessionType
  <1>5. SessionsEnd
    <2>1. sessions' \in [SessionIds -> SessionType]
      BY <1>1, <1>2 DEF SessionType
    <2>. QED
      BY <1>4, <2>1 DEF SessionsEnd
  <1>6. RowsStay
    BY <1>1, <1>3 DEF RowsStay
  <1>7. SessionRows' /\ HandoffChain' /\ \A d : Open(d)' \subseteq Open(d)
    BY <1>5, <1>6, SessionsEndKeeps
  <1>8. Open(e)' = {}
    BY <1>4 DEF Open
  <1>9. \A x : Of(x)' = Of(x)
    BY <1>3 DEF Of
  <1>10. CallRows'
    BY <1>1, <1>6, SameGoesOn, CallsKeep
  <1>11. LifetimeTypeOK'
    BY <1>1, <1>3, <1>5 DEF LifetimeInv, LifetimeTypeOK, ExecType, SessionsEnd, SessionType
  <1>12. ExecRows'
    BY <1>1, <1>3, RunningIs DEF LifetimeInv, ExecRows
  <1>13. CaseRows' /\ OneDelivery'
    BY <1>1, <1>9 DEF LifetimeInv, CaseRows, OneDelivery
  <1>14. KeyOpensOnce'
    BY <1>3 DEF LifetimeInv, KeyOpensOnce
  <1>15. ClosedTogether'
    BY <1>3, <1>7, <1>8 DEF LifetimeInv, ClosedTogether
  <1>16. Ordered'
    <2>1. \A d \in ExecIds : /\ execs'[d].case = execs[d].case /\ execs'[d].ordinal = execs[d].ordinal
                             /\ execs'[d].orch = "running" => execs[d].orch = "running"
      BY <1>3
    <2>2. \A d \in ExecIds : execs'[d].status # "absent" => execs[d].status # "absent"
      BY <1>1, <1>3, RunningIs
    <2>3. \A x : \A d \in Of(x) : d \in ExecIds
      BY DEF Of
    <2>4. ASSUME NEW d \in ExecIds, execs[d].status # "absent", NEW x, x = execs[d].case
          PROVE  /\ execs'[d].ordinal \in 1..Cardinality(Of(x)')
                 /\ \A f \in Of(x)' : f # d => execs'[f].ordinal # execs'[d].ordinal
                 /\ execs'[d].orch = "running" => /\ \A f \in Of(x)' : execs'[f].ordinal <= execs'[d].ordinal
                                                  /\ cases[x].status = "active"
      <3>1. /\ execs[d].ordinal \in 1..Cardinality(Of(x))
            /\ \A f \in Of(x) : f # d => execs[f].ordinal # execs[d].ordinal
            /\ execs[d].orch = "running" => /\ \A f \in Of(x) : execs[f].ordinal <= execs[d].ordinal
                                           /\ cases[x].status = "active"
        BY <2>4 DEF LifetimeInv, Ordered
      <3>2. Of(x)' = Of(x)
        BY <1>9
      <3>. QED
        BY <2>1, <2>3, <2>4, <3>1, <3>2
    <2>5. ASSUME NEW d \in ExecIds, execs'[d].status # "absent", NEW x, x = execs'[d].case
          PROVE  /\ execs'[d].ordinal \in 1..Cardinality(Of(x)')
                 /\ \A f \in Of(x)' : f # d => execs'[f].ordinal # execs'[d].ordinal
                 /\ execs'[d].orch = "running" => /\ \A f \in Of(x)' : execs'[f].ordinal <= execs'[d].ordinal
                                                  /\ cases'[x].status = "active"
      <3>1. execs[d].status # "absent" /\ execs[d].case = x /\ cases' = cases
        BY <1>1, <2>1, <2>2, <2>5
      <3>. QED
        BY <2>4, <3>1
    <2>. QED
      BY <2>5 DEF Ordered
  <1>. QED
    BY <1>7, <1>10, <1>11, <1>12, <1>13, <1>14, <1>15, <1>16 DEF LifetimeInv

LEMMA CancelKeeps ==
  ASSUME LifetimeInv, NEW e \in ExecIds, Cancel(e)
  PROVE  LifetimeInv'
  <1>. PICK x : x = execs[e].case
    OBVIOUS
  <1>1. /\ execs[e].orch = "running"
        /\ execs' = [execs EXCEPT ![e].orch = "cancelled"]
        /\ cases' = [cases EXCEPT ![x].status = "cancelled"]
        /\ UNCHANGED <<sessions, applied, call>>
    BY DEF Cancel
  <1>2. execs \in [ExecIds -> ExecType] /\ cases \in [CaseIds -> CaseType]
    BY DEF LifetimeInv, LifetimeTypeOK, ExecType, CaseType
  <1>3. /\ execs[e].status = "active" /\ x \in CaseIds /\ cases[x].status = "active"
        /\ \A d \in ExecIds \ {e} : execs[d].case = x => execs[d].orch # "running"
    BY <1>1, RunningIs
  <1>4. /\ execs'[e].orch = "cancelled" /\ execs'[e].status = execs[e].status
        /\ execs'[e].case = x /\ execs'[e].ordinal = execs[e].ordinal /\ execs'[e].key = execs[e].key
        /\ \A d \in ExecIds \ {e} : execs'[d] = execs[d]
        /\ execs' \in [ExecIds -> ExecType]
    BY <1>1, <1>2 DEF ExecType
  <1>5. /\ cases'[x].status = "cancelled" /\ cases'[x].key = cases[x].key
        /\ cases'[x].source = cases[x].source /\ cases'[x].org = cases[x].org
        /\ \A y \in CaseIds \ {x} : cases'[y] = cases[y]
        /\ cases' \in [CaseIds -> CaseType]
    BY <1>1, <1>2, <1>3 DEF CaseType
  <1>6. RowsStay
    BY <1>4, <1>5 DEF RowsStay
  <1>7. (\A y : Of(y)' = Of(y)) /\ (\A d : Open(d)' = Open(d))
    BY <1>1, <1>4 DEF Of, Open
  <1>8. CallRows'
    BY <1>1, <1>6, SameGoesOn, CallsKeep
  <1>9. LifetimeTypeOK'
    BY <1>1, <1>4, <1>5 DEF LifetimeInv, LifetimeTypeOK, ExecType, CaseType
  <1>10. ExecRows'
    <2>1. \A y \in CaseIds : /\ cases[y].status # "absent" => cases'[y].status # "absent"
                             /\ cases[y].status = "cancelled" => cases'[y].status = "cancelled"
      BY <1>5
    <2>2. \A d \in ExecIds \ {e} : execs[d].orch = "cancelled" => execs[d].case \in CaseIds
      BY DEF LifetimeInv, ExecRows
    <2>. QED
      BY <1>1, <1>3, <1>4, <1>5, <2>1, <2>2 DEF LifetimeInv, ExecRows
  <1>11. CaseRows' /\ OneDelivery'
    BY <1>3, <1>5, <1>7 DEF LifetimeInv, CaseRows, OneDelivery
  <1>12. KeyOpensOnce'
    BY <1>4 DEF LifetimeInv, KeyOpensOnce
  <1>13. ClosedTogether'
    BY <1>3, <1>4, <1>7 DEF LifetimeInv, ClosedTogether
  <1>14. SessionRows' /\ HandoffChain'
    BY <1>1, <1>6 DEF LifetimeInv, SessionRows, HandoffChain, RowsStay
  <1>15. Ordered'
    <2>1. \A d \in ExecIds : /\ execs'[d].case = execs[d].case /\ execs'[d].ordinal = execs[d].ordinal
                             /\ execs'[d].status = execs[d].status
                             /\ execs'[d].orch = "running" => execs[d].orch = "running" /\ execs[d].case # x
      BY <1>3, <1>4
    <2>2. \A d \in ExecIds : execs[d].status # "absent" => execs[d].case \in CaseIds
      BY DEF LifetimeInv, ExecRows
    <2>3. \A y : \A d \in Of(y) : d \in ExecIds
      BY DEF Of
    <2>. QED
      BY <1>5, <1>7, <2>1, <2>2, <2>3 DEF LifetimeInv, Ordered
  <1>. QED
    BY <1>8, <1>9, <1>10, <1>11, <1>12, <1>13, <1>14, <1>15 DEF LifetimeInv

-----------------------------------------------------------------------------
(* The invariant. *)

LEMMA InitInv ==
  ASSUME Init PROVE LifetimeInv
  <1>1. 0 \notin CaseIds /\ 0 \notin ExecIds
    BY DEF CaseIds, ExecIds
  <1>2. /\ \A x \in CaseIds : cases[x].status = "absent" /\ cases[x].key = NoKey
        /\ \A e \in ExecIds : /\ execs[e].status = "absent" /\ execs[e].orch = "absent"
                              /\ execs[e].case = 0 /\ execs[e].key = NoKey
        /\ \A s \in SessionIds : sessions[s].status = "absent" /\ sessions[s].from = 0
        /\ \A c \in Callers : call[c].at = "idle"
    BY DEF Init, AbsentCase, AbsentExec, AbsentSession, Idle
  <1>3. \A e : Open(e) = {}
    BY <1>2 DEF Open
  <1>4. LifetimeTypeOK
    <2>1. AbsentCase \in CaseType /\ AbsentExec \in ExecType /\ AbsentSession \in SessionType /\ Idle \in CallType
      BY DEF AbsentCase, AbsentExec, AbsentSession, Idle, CaseType, ExecType, SessionType, CallType, Sources, Tenants
    <2>2. /\ cases \in [CaseIds -> CaseType] /\ execs \in [ExecIds -> ExecType]
          /\ sessions \in [SessionIds -> SessionType] /\ call \in [Callers -> CallType] /\ applied = {}
      BY <2>1 DEF Init
    <2>. QED
      BY <2>2 DEF LifetimeTypeOK, CaseType, ExecType, SessionType, CallType
  <1>5. ExecRows /\ CaseRows /\ SessionRows /\ CallRows
    BY <1>2 DEF ExecRows, CaseRows, SessionRows, CallRows
  <1>6. OneDelivery /\ Ordered /\ HandoffChain
    BY <1>2 DEF OneDelivery, Ordered, HandoffChain
  <1>7. KeyOpensOnce
    BY <1>2 DEF KeyOpensOnce
  <1>8. ClosedTogether
    BY <1>2, <1>3 DEF ClosedTogether
  <1>. QED
    BY <1>4, <1>5, <1>6, <1>7, <1>8 DEF LifetimeInv

LEMMA StepKeeps ==
  ASSUME LifetimeInv, [Next]_vars
  PROVE  LifetimeInv'
  <1>1. CASE UNCHANGED vars
    <2>1. UNCHANGED <<cases, execs, sessions, applied>> /\ UNCHANGED call
      BY <1>1 DEF vars
    <2>. QED
      BY <2>1, SameGoesOn, GoesOnKeeps
  <1>2. ASSUME NEW c \in Callers, StartStep(c) PROVE LifetimeInv'
    <2>1. CASE \E k \in Keys : StartAdhoc(c, k) \/ \E named \in Tenants : ResolveOrg(c, k, named)
      BY <2>1, ResolveKeeps
    <2>2. CASE StartDuplicate(c)
      BY <2>2, WrittenGoesOn, GoesOnKeeps DEF StartDuplicate
    <2>3. CASE ResumeRunning(c)
      BY <2>3, ResumeKeeps
    <2>4. CASE \E e \in ExecIds : OpenNext(c, e) \/ \E x \in CaseIds : OpenLifetime(c, x, e)
      BY <2>4, OpenNextKeeps, OpenLifetimeKeeps
    <2>5. CASE ReadLifetime(c)
      BY <2>5, ReadLifetimeKeeps
    <2>6. CASE ReadExecution(c)
      BY <2>6, ReadExecutionKeeps
    <2>7. CASE StartSession(c)
      BY <2>7, StartSessionKeeps
    <2>8. CASE Stop(c)
      BY <2>8, IdleGoesOn, GoesOnKeeps DEF Stop
    <2>. QED
      BY <1>2, <2>1, <2>2, <2>3, <2>4, <2>5, <2>6, <2>7, <2>8 DEF StartStep
  <1>3. ASSUME NEW e \in ExecIds, Complete(e) \/ Cancel(e) PROVE LifetimeInv'
    BY <1>3, CompleteKeeps, CancelKeeps
  <1>4. ASSUME NEW e \in ExecIds, NEW r \in SessionIds \cup {0}, NEW s \in SessionIds, OpenSession(e, r, s)
        PROVE  LifetimeInv'
    BY <1>4, OpenSessionKeeps
  <1>5. ASSUME NEW s \in SessionIds, HandOff(s) PROVE LifetimeInv'
    BY <1>5, HandOffKeeps
  <1>. QED
    BY <1>1, <1>2, <1>3, <1>4, <1>5 DEF Next

\* The tables always agree with each other and with what the calls in flight
\* know of them (lifetime.go StartOrResolveExecution and the writers of the
\* same tables).
THEOREM LifetimeInvariance == Spec => []LifetimeInv
  <1>. QED
    BY InitInv, StepKeeps, PTL DEF Spec

\* Every table has its type, whatever calls interleave.
THEOREM LifetimeTypes == Spec => []LifetimeTypeOK
  <1>1. LifetimeInv => LifetimeTypeOK
    BY DEF LifetimeInv
  <1>. QED
    BY <1>1, LifetimeInvariance, PTL

\* No interleaving of starts opens a second active lifetime of an issue in an
\* organisation, or one beside a lifetime that names none.
THEOREM OneDeliveryPerIssue == Spec => []OneDelivery
  <1>1. LifetimeInv => OneDelivery
    BY DEF LifetimeInv
  <1>. QED
    BY <1>1, LifetimeInvariance, PTL

\* Of a lifetime's executions only the last one runs, and only in an active
\* lifetime; their ordinals count from 1.
THEOREM LastRunsAlone == Spec => []OnlyLastRuns
  <1>1. ASSUME LifetimeInv PROVE OnlyLastRuns
    <2>1. ASSUME NEW e \in ExecIds, execs[e].status # "absent", execs[e].orch = "running",
                 NEW x, x = execs[e].case
          PROVE  e = Last(x)
      <3>1. e \in Of(x) /\ \A d \in Of(x) : execs[d].ordinal <= execs[e].ordinal
        BY <1>1, <2>1 DEF LifetimeInv, Ordered, Of
      <3>2. PICK l : l = Last(x)
        OBVIOUS
      <3>3. l \in Of(x) /\ execs[e].ordinal <= execs[l].ordinal
        BY <1>1, <3>1, <3>2, LastIsIn DEF LifetimeInv
      <3>4. execs[l].ordinal \in Nat /\ execs[e].ordinal \in Nat
        BY <1>1, <3>1, <3>3 DEF LifetimeInv, LifetimeTypeOK, Of
      <3>5. execs[l].ordinal = execs[e].ordinal
        BY <3>1, <3>3, <3>4
      <3>6. \A d \in Of(x) : d # e => execs[d].ordinal # execs[e].ordinal
        BY <1>1, <2>1 DEF LifetimeInv, Ordered
      <3>. QED
        BY <3>2, <3>3, <3>5, <3>6
    <2>. QED
      BY <1>1, <2>1 DEF LifetimeInv, Ordered, OnlyLastRuns
  <1>. QED
    BY <1>1, LifetimeInvariance, PTL

\* A start repeated under its key opens one execution at most.
THEOREM OneExecutionPerKey == Spec => []KeyOpensOnce
  <1>1. LifetimeInv => KeyOpensOnce
    BY DEF LifetimeInv
  <1>. QED
    BY <1>1, LifetimeInvariance, PTL

\* An execution has one open session at most, and none once it is completed.
THEOREM SessionsEndTogether == Spec => []ClosedTogether
  <1>1. LifetimeInv => ClosedTogether
    BY DEF LifetimeInv
  <1>. QED
    BY <1>1, LifetimeInvariance, PTL

\* A session resumes an earlier one of its execution that has ended.
THEOREM ResumesEnded == Spec => []HandoffChain
  <1>1. LifetimeInv => HandoffChain
    BY DEF LifetimeInv
  <1>. QED
    BY <1>1, LifetimeInvariance, PTL

-----------------------------------------------------------------------------
(* What is over. *)

\* Claiming a lifetime changes its organisation only if it named none.
LEMMA ClaimKeepsLifetimes ==
  ASSUME LifetimeInv, NEW c \in Callers, call[c].at = "located", Found(c) # 0,
         \/ cases' = Adopted(Found(c), call[c].org)
         \/ cases' = [Adopted(Found(c), call[c].org) EXCEPT ![Found(c)].status = "active"]
  PROVE  LifetimesKept
  <1>. PICK x : x = Found(c)
    OBVIOUS
  <1>. PICK org : org = call[c].org
    OBVIOUS
  <1>. PICK claimed : claimed = Adopted(x, org)
    OBVIOUS
  <1>1. x \in CaseIds /\ cases[x].status = "active"
    BY FoundIs, ActiveFound
  <1>2. org # NoOrg => cases[x].org \in {org, NoOrg}
    BY FoundIs, ActiveFound
  <1>3. cases \in [CaseIds -> CaseType]
    BY DEF LifetimeInv, LifetimeTypeOK, CaseType
  <1>4. claimed = IF org # NoOrg THEN [cases EXCEPT ![x].org = org] ELSE cases
    BY DEF Adopted
  <1>5. /\ \A y \in CaseIds : /\ claimed[y].source = cases[y].source
                              /\ y # x => claimed[y] = cases[y]
                              /\ cases[y].org # NoOrg => claimed[y].org = cases[y].org
        /\ claimed \in [CaseIds -> [source : Sources, org : {org} \cup Tenants, key : Keys \cup {NoKey},
                                    status : {"absent", "active", "cancelled"}]]
    BY <1>1, <1>2, <1>3, <1>4 DEF CaseType
  <1>6. cases' = claimed \/ cases' = [claimed EXCEPT ![x].status = "active"]
    OBVIOUS
  <1>7. \A y \in CaseIds : /\ y # x => cases'[y] = claimed[y]
                           /\ cases'[y].source = claimed[y].source /\ cases'[y].org = claimed[y].org
    BY <1>1, <1>5, <1>6
  <1>. QED
    BY <1>1, <1>5, <1>7 DEF LifetimesKept

LEMMA StepNeverRevives ==
  ASSUME LifetimeInv, Next
  PROVE  LifetimesKept /\ ExecutionsKept /\ SessionsKept
  <1>0. /\ cases \in [CaseIds -> CaseType] /\ execs \in [ExecIds -> ExecType]
        /\ sessions \in [SessionIds -> SessionType]
    BY DEF LifetimeInv, LifetimeTypeOK, CaseType, ExecType, SessionType
  <1>1. UNCHANGED cases => LifetimesKept
    BY DEF LifetimesKept
  <1>2. UNCHANGED execs => ExecutionsKept
    BY DEF ExecutionsKept
  <1>3. UNCHANGED sessions => SessionsKept
    BY DEF SessionsKept
  <1>4. ASSUME NEW s \in SessionIds, Fresh(sessions, s), NEW new, sessions' = [sessions EXCEPT ![s] = new]
        PROVE  SessionsKept
    BY <1>0, <1>4 DEF SessionsKept, Fresh
  <1>5. ASSUME NEW c \in Callers, StartStep(c)
        PROVE  LifetimesKept /\ ExecutionsKept /\ SessionsKept
    <2>1. CASE UNCHANGED <<cases, execs, sessions>>
      BY <2>1, <1>1, <1>2, <1>3
    <2>2. CASE ResumeRunning(c)
      BY <2>2, <1>2, <1>3, ClaimKeepsLifetimes DEF ResumeRunning
    <2>3. ASSUME NEW e \in ExecIds, OpenNext(c, e) PROVE LifetimesKept /\ ExecutionsKept /\ SessionsKept
      <3>1. /\ call[c].at = "located" /\ Found(c) # 0 /\ Fresh(execs, e) /\ UNCHANGED sessions
            /\ cases' = [Adopted(Found(c), call[c].org) EXCEPT ![Found(c)].status = "active"]
        BY <2>3 DEF OpenNext
      <3>2. PICK l, next : execs' = [execs EXCEPT ![l].status = execs[l].orch, ![e] = next]
        BY <2>3 DEF OpenNext
      <3>3. execs[e].orch = "absent"
        BY <3>1 DEF Fresh, LifetimeInv, ExecRows
      <3>4. ExecutionsKept
        BY <1>0, <3>2, <3>3 DEF ExecutionsKept, ExecType
      <3>. QED
        BY <1>3, <3>1, <3>4, ClaimKeepsLifetimes
    <2>4. ASSUME NEW x \in CaseIds, NEW e \in ExecIds, OpenLifetime(c, x, e)
          PROVE  LifetimesKept /\ ExecutionsKept /\ SessionsKept
      <3>1. cases[x].status = "absent" /\ Fresh(execs, e) /\ UNCHANGED sessions
        BY <2>4 DEF OpenLifetime, Fresh
      <3>2. PICK opened, first : cases' = [cases EXCEPT ![x] = opened] /\ execs' = [execs EXCEPT ![e] = first]
        BY <2>4 DEF OpenLifetime
      <3>3. execs[e].orch = "absent"
        BY <3>1 DEF Fresh, LifetimeInv, ExecRows
      <3>4. ExecutionsKept
        BY <1>0, <3>2, <3>3 DEF ExecutionsKept
      <3>. QED
        BY <1>0, <1>3, <3>1, <3>2, <3>4 DEF LifetimesKept
    <2>5. CASE StartSession(c)
      BY <2>5, <1>1, <1>2, <1>3, <1>4 DEF StartSession
    <2>6. \/ UNCHANGED <<cases, execs, sessions>> \/ ResumeRunning(c) \/ StartSession(c)
          \/ \E e \in ExecIds : OpenNext(c, e) \/ \E x \in CaseIds : OpenLifetime(c, x, e)
      BY <1>5 DEF StartStep, StartAdhoc, ResolveOrg, StartDuplicate, ReadLifetime, ReadExecution, Stop
    <2>. QED
      BY <2>1, <2>2, <2>3, <2>4, <2>5, <2>6
  <1>6. ASSUME NEW e \in ExecIds, Complete(e)
        PROVE  LifetimesKept /\ ExecutionsKept /\ SessionsKept
    <2>1. execs[e].orch = "running" /\ UNCHANGED cases
      BY <1>6 DEF Complete
    <2>2. \A d \in ExecIds \ {e} : execs'[d] = execs[d]
      BY <1>0, <1>6 DEF Complete
    <2>3. SessionsKept
      BY <1>6 DEF Complete, Open, SessionsKept
    <2>. QED
      BY <1>1, <2>1, <2>2, <2>3 DEF ExecutionsKept
  <1>7. ASSUME NEW e \in ExecIds, Cancel(e)
        PROVE  LifetimesKept /\ ExecutionsKept /\ SessionsKept
    <2>1. execs[e].orch = "running" /\ UNCHANGED sessions
      BY <1>7 DEF Cancel
    <2>2. \A d \in ExecIds \ {e} : execs'[d] = execs[d]
      BY <1>0, <1>7 DEF Cancel
    <2>3. LifetimesKept
      BY <1>0, <1>7 DEF Cancel, LifetimesKept, CaseType
    <2>. QED
      BY <1>3, <2>1, <2>2, <2>3 DEF ExecutionsKept
  <1>8. ASSUME NEW e \in ExecIds, NEW r \in SessionIds \cup {0}, NEW s \in SessionIds, OpenSession(e, r, s)
        PROVE  LifetimesKept /\ ExecutionsKept /\ SessionsKept
    BY <1>1, <1>2, <1>4, <1>8 DEF OpenSession
  <1>9. ASSUME NEW s \in SessionIds, HandOff(s)
        PROVE  LifetimesKept /\ ExecutionsKept /\ SessionsKept
    <2>1. SessionsKept
      BY <1>0, <1>9 DEF HandOff, SessionsKept
    <2>. QED
      BY <1>1, <1>2, <1>9, <2>1 DEF HandOff
  <1>. QED
    BY <1>5, <1>6, <1>7, <1>8, <1>9 DEF Next

\* Nothing that is over is revived, and a lifetime that names its
\* organisation keeps it (lifetime.go:36-39).
THEOREM NothingRevived == Spec => NeverRevived
  <1>1. LifetimeInv /\ [Next]_vars => [LifetimesKept /\ ExecutionsKept /\ SessionsKept]_vars
    BY StepNeverRevives
  <1>. QED
    BY <1>1, LifetimeInvariance, PTL DEF Spec, NeverRevived

-----------------------------------------------------------------------------
(* The starts implement Deliveries.  Two more facts are needed: a call that   *)
(* got past its transaction has left its key behind, and a lifetime has been  *)
(* cancelled with one execution, not two.                                     *)

OneCancelled ==
  \A d, e \in ExecIds : /\ execs[d].orch = "cancelled" /\ execs[e].orch = "cancelled"
                        /\ execs[d].case = execs[e].case
                        => d = e

CallsBegun ==
  \A c \in Callers : call[c].at \in {"written", "read", "resolved"} => <<call[c].key, "start">> \in applied

LEMMA CancelledStep ==
  ASSUME LifetimeInv, OneCancelled, [Next]_vars
  PROVE  OneCancelled'
  <1>0. execs \in [ExecIds -> ExecType]
    BY DEF LifetimeInv, LifetimeTypeOK, ExecType
  <1>1. ASSUME \A d \in ExecIds : execs'[d].orch = "cancelled" =>
                 execs[d].orch = "cancelled" /\ execs'[d].case = execs[d].case
        PROVE  OneCancelled'
    BY <1>1 DEF OneCancelled
  <1>2. CASE UNCHANGED execs
    BY <1>1, <1>2
  <1>3. ASSUME NEW c \in Callers, NEW e \in ExecIds, OpenNext(c, e) PROVE OneCancelled'
    <2>1. PICK last, k, x, n : execs' = [execs EXCEPT ![last].status = execs[last].orch, ![e] = Opened(x, n, k)]
      BY <1>3 DEF OpenNext
    <2>2. \A d \in ExecIds : execs'[d].orch = "cancelled" =>
            execs[d].orch = "cancelled" /\ execs'[d].case = execs[d].case
      BY <1>0, <2>1 DEF Opened, ExecType
    <2>. QED
      BY <1>1, <2>2
  <1>4. ASSUME NEW c \in Callers, NEW x \in CaseIds, NEW e \in ExecIds, OpenLifetime(c, x, e) PROVE OneCancelled'
    <2>1. \A d \in ExecIds : execs'[d].orch = "cancelled" =>
            execs[d].orch = "cancelled" /\ execs'[d].case = execs[d].case
      BY <1>0, <1>4 DEF OpenLifetime, Opened
    <2>. QED
      BY <1>1, <2>1
  <1>5. ASSUME NEW e \in ExecIds, Complete(e) PROVE OneCancelled'
    <2>1. \A d \in ExecIds : execs'[d].orch = "cancelled" =>
            execs[d].orch = "cancelled" /\ execs'[d].case = execs[d].case
      BY <1>0, <1>5 DEF Complete, ExecType
    <2>. QED
      BY <1>1, <2>1
  <1>6. ASSUME NEW e \in ExecIds, Cancel(e) PROVE OneCancelled'
    <2>1. execs[e].orch = "running" /\ execs' = [execs EXCEPT ![e].orch = "cancelled"]
      BY <1>6 DEF Cancel
    <2>2. cases[execs[e].case].status = "active"
      BY <2>1, RunningIs
    <2>3. \A d \in ExecIds : execs[d].orch = "cancelled" => execs[d].case # execs[e].case
      BY <2>2 DEF LifetimeInv, ExecRows
    <2>4. \A d \in ExecIds : /\ execs'[d].case = execs[d].case
                             /\ d # e => execs'[d].orch = execs[d].orch
      BY <1>0, <2>1 DEF ExecType
    <2>. QED
      BY <2>3, <2>4 DEF OneCancelled
  <1>7. ASSUME NEW c \in Callers, StartStep(c) PROVE OneCancelled'
    BY <1>2, <1>3, <1>4, <1>7
       DEF StartStep, StartAdhoc, ResolveOrg, StartDuplicate, ResumeRunning, ReadLifetime, ReadExecution, StartSession, Stop
  <1>. QED
    BY <1>2, <1>5, <1>6, <1>7 DEF Next, OpenSession, HandOff, vars

LEMMA BegunStep ==
  ASSUME LifetimeInv, CallsBegun, [Next]_vars
  PROVE  CallsBegun'
  <1>0. call \in [Callers -> CallType]
    BY DEF LifetimeInv, LifetimeTypeOK, CallType
  <1>1. ASSUME NEW c \in Callers, NEW new, call' = [call EXCEPT ![c] = new], applied \subseteq applied',
               new.at \in {"written", "read", "resolved"} => <<new.key, "start">> \in applied'
        PROVE  CallsBegun'
    BY <1>0, <1>1 DEF CallsBegun
  <1>2. CASE UNCHANGED <<call, applied>>
    BY <1>2 DEF CallsBegun
  <1>3. ASSUME NEW c \in Callers, call[c].at = "located", Written(c), applied \subseteq applied',
               <<call[c].key, "start">> \in applied'
        PROVE  CallsBegun'
    <2>. DEFINE new == [call[c] EXCEPT !.at = "written"]
    <2>1. call' = [call EXCEPT ![c] = new] /\ new.key = call[c].key
      BY <1>0, <1>3 DEF Written, CallType
    <2>. HIDE DEF new
    <2>. QED
      BY <1>1, <1>3, <2>1
  <1>4. ASSUME NEW c \in Callers, call' = [call EXCEPT ![c] = Idle], applied \subseteq applied' PROVE CallsBegun'
    <2>1. Idle.at = "idle"
      BY DEF Idle
    <2>. QED
      BY <1>1, <1>4, <2>1
  <1>5. ASSUME NEW c \in Callers, StartStep(c) PROVE CallsBegun'
    <2>1. ASSUME NEW k \in Keys, StartAdhoc(c, k) \/ \E named \in Tenants : ResolveOrg(c, k, named) PROVE CallsBegun'
      <3>1. PICK new \in CallType : call' = [call EXCEPT ![c] = new] /\ new.at = "located"
        BY <2>1, AskedIs
      <3>2. applied' = applied
        BY <2>1, AskedIs
      <3>. QED
        BY <1>1, <3>1, <3>2
    <2>2. CASE StartDuplicate(c)
      BY <1>3, <2>2 DEF StartDuplicate
    <2>3. CASE ResumeRunning(c)
      BY <1>3, <2>3 DEF ResumeRunning, FirstStart
    <2>4. ASSUME NEW e \in ExecIds, OpenNext(c, e) \/ \E x \in CaseIds : OpenLifetime(c, x, e) PROVE CallsBegun'
      BY <1>3, <2>4 DEF OpenNext, OpenLifetime, FirstStart
    <2>5. CASE ReadLifetime(c)
      <3>1. PICK x : call' = [call EXCEPT ![c].at = "read", ![c].org = NoOrg, ![c].case = x]
        BY <2>5 DEF ReadLifetime
      <3>. DEFINE new == [call[c] EXCEPT !.at = "read", !.org = NoOrg, !.case = x]
      <3>2. call' = [call EXCEPT ![c] = new] /\ new.key = call[c].key
        BY <1>0, <3>1 DEF CallType
      <3>. HIDE DEF new
      <3>. QED
        BY <1>1, <2>5, <3>2 DEF ReadLifetime, CallsBegun
    <2>6. CASE ReadExecution(c)
      <3>. DEFINE new == [call[c] EXCEPT !.at = "resolved", !.case = 0, !.exec = Last(call[c].case)]
      <3>1. call' = [call EXCEPT ![c] = new] /\ new.key = call[c].key
        BY <1>0, <2>6 DEF ReadExecution, CallType
      <3>. HIDE DEF new
      <3>. QED
        BY <1>1, <2>6, <3>1 DEF ReadExecution, CallsBegun
    <2>7. CASE StartSession(c) \/ Stop(c)
      BY <1>4, <2>7 DEF StartSession, Stop
    <2>. QED
      BY <1>5, <2>1, <2>2, <2>3, <2>4, <2>5, <2>6, <2>7 DEF StartStep
  <1>. QED
    BY <1>2, <1>5 DEF Next, Complete, Cancel, OpenSession, HandOff, vars

\* Of a lifetime's executions one at most is not completed.
LEMMA OneUnfinished ==
  ASSUME LifetimeInv, OneCancelled, NEW d \in ExecIds, NEW e \in ExecIds, execs[d].case = execs[e].case,
         execs[d].orch \notin {"absent", "completed"}, execs[e].orch \notin {"absent", "completed"}
  PROVE  d = e
  <1>1. execs[d].orch \in {"running", "cancelled"} /\ execs[e].orch \in {"running", "cancelled"}
    BY DEF LifetimeInv, LifetimeTypeOK
  <1>2. ASSUME NEW f \in ExecIds, NEW g \in ExecIds, execs[f].case = execs[g].case,
               execs[f].orch = "running", execs[g].orch \in {"running", "cancelled"}
        PROVE  f = g
    <2>1. /\ execs[f].case \in CaseIds /\ cases[execs[f].case].status = "active"
          /\ \A h \in ExecIds \ {f} : execs[h].case = execs[f].case => execs[h].orch # "running"
      BY <1>2, RunningIs
    <2>2. execs[g].orch = "cancelled" => cases[execs[g].case].status = "cancelled"
      BY DEF LifetimeInv, ExecRows
    <2>. QED
      BY <1>2, <2>1, <2>2
  <1>. QED
    BY <1>1, <1>2 DEF OneCancelled

\* An open session is of an execution that is not completed.
LEMMA OpenIs ==
  ASSUME LifetimeInv, NEW s \in SessionIds, sessions[s].status = "active", NEW e, e = sessions[s].exec
  PROVE  /\ e \in ExecIds /\ execs[e].case \in CaseIds
         /\ execs[e].orch \notin {"absent", "completed"} /\ s \in Open(e)
  <1>1. e \in ExecIds /\ execs[e].status # "absent"
    BY DEF LifetimeInv, SessionRows
  <1>2. s \in Open(e)
    BY DEF Open
  <1>. QED
    BY <1>1, <1>2 DEF LifetimeInv, ExecRows, ClosedTogether

\* What a call was told.
Knows(c) == CASE call[c].at = "read" -> {<<call[c].key, call[c].case>>}
              [] call[c].at = "resolved" -> {<<call[c].key, execs[call[c].exec].case>>}
              [] OTHER -> {}

LEMMA ToldIs ==
  Told = UNION {Knows(c) : c \in Callers}
  BY DEF Told, Knows

CasesKept == \A e \in ExecIds : execs[e].status # "absent" => execs'[e].case = execs[e].case

LEMMA KnowsStays ==
  ASSUME LifetimeInv, CasesKept, NEW c \in Callers, call'[c] = call[c]
  PROVE  Knows(c)' = Knows(c)
  BY DEF LifetimeInv, CallRows, CasesKept, Knows

LEMMA ToldMoves ==
  ASSUME NEW c \in Callers, \A d \in Callers \ {c} : Knows(d)' = Knows(d)
  PROVE  /\ Knows(c)' = Knows(c) => Told' = Told
         /\ Knows(c) = {} => Told' = Told \cup Knows(c)'
         /\ \A u : Knows(c) = {u} /\ Knows(c)' = {} => Told' \in {Told, Told \ {u}}
  <1>. DEFINE rest == UNION {Knows(d) : d \in Callers \ {c}}
  <1>1. Told = rest \cup Knows(c)
    BY ToldIs
  <1>2. Told' = UNION {Knows(d)' : d \in Callers}
    BY DEF Told, Knows
  <1>3. Told' = rest \cup Knows(c)'
    BY <1>2
  <1>. HIDE DEF rest
  <1>. QED
    BY <1>1, <1>3

LEMMA ToldSame ==
  ASSUME LifetimeInv, CasesKept, UNCHANGED call
  PROVE  Told' = Told
  <1>1. \A c \in Callers : Knows(c)' = Knows(c)
    BY KnowsStays
  <1>2. Told' = UNION {Knows(c)' : c \in Callers}
    BY DEF Told, Knows
  <1>. QED
    BY <1>1, <1>2, ToldIs

\* A call goes on to new.
LEMMA CallerTold ==
  ASSUME LifetimeInv, CasesKept, NEW c \in Callers, NEW new, call' = [call EXCEPT ![c] = new],
         new.at \notin {"read", "resolved"}
  PROVE  /\ Knows(c) = {} => Told' = Told
         /\ \A u : Knows(c) = {u} => Told' \in {Told, Told \ {u}}
  <1>1. call \in [Callers -> CallType]
    BY DEF LifetimeInv, LifetimeTypeOK, CallType
  <1>2. Knows(c)' = {} /\ \A d \in Callers \ {c} : Knows(d)' = Knows(d)
    BY <1>1, KnowsStays DEF Knows
  <1>. QED
    BY <1>2, ToldMoves

LEMMA WrittenTold ==
  ASSUME LifetimeInv, CasesKept, NEW c \in Callers, call[c].at = "located", Written(c)
  PROVE  Told' = Told
  <1>. DEFINE new == [call[c] EXCEPT !.at = "written"]
  <1>1. call' = [call EXCEPT ![c] = new] /\ new.at = "written"
    BY DEF Written, LifetimeInv, LifetimeTypeOK
  <1>2. Knows(c) = {}
    BY DEF Knows
  <1>. HIDE DEF new
  <1>. QED
    BY <1>1, <1>2, CallerTold

\* One more execution: one more round of its lifetime, and nothing else.
LEMMA AppendedMoves ==
  ASSUME LifetimeInv, NEW e, NEW x, NEW n, NEW k, Appends(e, x, n, k)
  PROVE  /\ CasesKept
         /\ x \in CaseIds /\ x \notin Running
         /\ Running' = Running \cup {x} /\ Staffed' = Staffed
         /\ \A y \in CaseIds \ {x} : Cardinality(Of(y))' = Cardinality(Of(y))
         /\ Cardinality(Of(x))' = Cardinality(Of(x)) + 1
  <1>1. /\ e \in ExecIds /\ execs[e].status = "absent" /\ x \in CaseIds
        /\ execs' = [execs EXCEPT ![e] = Opened(x, n, k)] /\ sessions' = sessions
        /\ \A d \in Of(x) : execs[d].orch # "running"
    BY DEF Appends
  <1>2. execs \in [ExecIds -> ExecType]
    BY DEF LifetimeInv, LifetimeTypeOK, ExecType
  <1>3. execs[e].case = 0 /\ execs[e].orch = "absent" /\ 0 \notin CaseIds
    <2>1. execs[e].case = 0 /\ execs[e].orch = "absent"
      BY <1>1 DEF LifetimeInv, ExecRows
    <2>. QED
      BY <2>1 DEF CaseIds
  <1>4. /\ execs'[e].case = x /\ execs'[e].orch = "running"
        /\ \A d \in ExecIds \ {e} : execs'[d] = execs[d]
    BY <1>1, <1>2 DEF Opened
  <1>5. CasesKept
    BY <1>1, <1>4 DEF CasesKept
  <1>6. x \notin Running
    BY <1>1 DEF Running, Of
  <1>7. Running' = Running \cup {x}
    <2>1. \A d \in ExecIds \ {e} : execs'[d] = execs[d]
      BY <1>4
    <2>2. {d \in ExecIds : execs'[d].orch = "running"} = {d \in ExecIds : execs[d].orch = "running"} \cup {e}
      BY <1>1, <1>4
    <2>3. Running' = {execs'[d].case : d \in {d \in ExecIds : execs'[d].orch = "running"}}
      BY DEF Running
    <2>. QED
      BY <1>3, <1>4, <2>2, <2>3 DEF Running
  <1>8. Staffed' = Staffed
    <2>1. \A s \in SessionIds : sessions[s].status = "active" => execs'[sessions[s].exec].case = execs[sessions[s].exec].case
      BY <1>5, OpenIs DEF CasesKept, LifetimeInv, SessionRows
    <2>2. Staffed' = {execs'[sessions[s].exec].case : s \in {t \in SessionIds : sessions[t].status = "active"}}
      BY <1>1 DEF Staffed
    <2>. QED
      BY <2>1, <2>2 DEF Staffed
  <1>9. Of(x)' = Of(x) \cup {e} /\ e \notin Of(x) /\ \A y \in CaseIds \ {x} : Of(y)' = Of(y)
    BY <1>1, <1>3, <1>4 DEF Of
  <1>10. Cardinality(Of(x))' = Cardinality(Of(x)) + 1
    <2>1. IsFiniteSet(Of(x))
      BY ExecsFinite DEF Of
    <2>. QED
      BY <1>9, <2>1, FS_AddElement
  <1>. QED
    BY <1>1, <1>5, <1>6, <1>7, <1>8, <1>9, <1>10

Rounds == [x \in CaseIds |-> Cardinality(Of(x))]

LEMMA QuietCall ==
  ASSUME UNCHANGED <<cases, execs, sessions, applied>>, Told' = Told
  PROVE  UNCHANGED Promise!vars
  BY DEF Promise!vars, Running, Staffed, Begun, Of

\* Sessions and calls move, the rest stays.
LEMMA TablesStay ==
  ASSUME UNCHANGED <<cases, execs>>, \A k \in Keys : <<k, "start">> \in applied' <=> <<k, "start">> \in applied
  PROVE  cases' = cases /\ Rounds' = Rounds /\ Running' = Running /\ Begun' = Begun /\ CasesKept
  BY DEF Rounds, Running, Begun, CasesKept, Of

LEMMA StartBegins ==
  ASSUME LifetimeInv, NEW c \in Callers, call[c].at = "located", FirstStart(c), NEW k, k = call[c].key
  PROVE  k \in Keys \ Begun /\ Begun' = Begun \cup {k}
  <1>1. k \in Keys
    BY FoundIs
  <1>2. <<k, "start">> \notin applied /\ applied' = applied \cup {<<k, "start">>}
    BY DEF FirstStart
  <1>. QED
    BY <1>1, <1>2 DEF Begun

\* A start that finds a lifetime joins it.
LEMMA FoundJoins ==
  ASSUME LifetimeInv, NEW c \in Callers, call[c].at = "located", FirstStart(c), Found(c) # 0,
         NEW x, x = Found(c), NEW k, k = call[c].key,
         cases' = Adopted(x, call[c].org), CasesKept, Staffed' = Staffed, Written(c),
         Running' = Running \cup {x},
         Rounds' = IF x \in Running THEN Rounds ELSE [Rounds EXCEPT ![x] = @ + 1]
  PROVE  Promise!Next
  <1>. PICK org : org = call[c].org
    OBVIOUS
  <1>1. k \in Keys /\ org \in Tenants /\ SourceOf[k] \in Issues /\ x = ActiveLifetime(SourceOf[k], org)
    BY FoundIs
  <1>2. /\ x \in CaseIds /\ cases[x].status = "active" /\ cases[x].source = SourceOf[k]
        /\ org = NoOrg \/ cases[x].org \in {org, NoOrg}
    BY <1>1, ActiveFound
  <1>3. SourceOf[k] # Adhoc /\ x \in Promise!MayMean(SourceOf[k], org)
    BY <1>1, <1>2 DEF Promise!MayMean
  <1>4. Promise!Join(k, org, x)
    BY <1>3 DEF Promise!Join, Adopted, Rounds
  <1>5. Told' = Told
    BY WrittenTold
  <1>6. Promise!Start(k)
    BY <1>1, <1>2, <1>4, <1>5, StartBegins DEF Promise!Start, Tenants
  <1>. QED
    BY <1>6, StartBegins DEF Promise!Next

LEMMA ResumeJoins ==
  ASSUME LifetimeInv, NEW c \in Callers, ResumeRunning(c)
  PROVE  Promise!Next
  <1>. PICK x : x = Found(c)
    OBVIOUS
  <1>1. /\ call[c].at = "located" /\ FirstStart(c) /\ x # 0 /\ execs[Last(x)].orch = "running"
        /\ cases' = Adopted(x, call[c].org) /\ Written(c) /\ UNCHANGED <<execs, sessions>>
    BY DEF ResumeRunning
  <1>2. x \in CaseIds /\ cases[x].status = "active"
    BY <1>1, FoundIs, ActiveFound
  <1>3. Last(x) \in Of(x)
    BY <1>2, LastIsIn DEF LifetimeInv, CaseRows
  <1>4. x \in Running
    BY <1>1, <1>3 DEF Running, Of
  <1>5. Rounds' = Rounds /\ Running' = Running /\ Staffed' = Staffed /\ CasesKept
    BY <1>1 DEF Rounds, Running, Staffed, CasesKept, Of
  <1>6. Running' = Running \cup {x}
    BY <1>4, <1>5
  <1>. QED
    BY <1>1, <1>4, <1>5, <1>6, FoundJoins

LEMMA AppendedRounds ==
  ASSUME LifetimeInv, NEW e, NEW x, NEW n, NEW k, Appends(e, x, n, k)
  PROVE  Rounds' = [Rounds EXCEPT ![x] = @ + 1]
  <1>1. Rounds' = [y \in CaseIds |-> Cardinality(Of(y))']
    BY DEF Rounds
  <1>. QED
    BY <1>1, AppendedMoves DEF Rounds

LEMMA OpenNextJoins ==
  ASSUME LifetimeInv, NEW c \in Callers, NEW e \in ExecIds, OpenNext(c, e)
  PROVE  Promise!Next
  <1>. PICK x : x = Found(c)
    OBVIOUS
  <1>. PICK k : k = call[c].key
    OBVIOUS
  <1>1. call[c].at = "located" /\ FirstStart(c) /\ x # 0 /\ Written(c)
    BY DEF OpenNext
  <1>2. cases' = Adopted(x, call[c].org) /\ \E n : Appends(e, x, n, k)
    BY OpenNextAppends
  <1>. QED
    BY <1>1, <1>2, AppendedMoves, AppendedRounds, FoundJoins

\* A start that finds none opens one.
LEMMA OpenLifetimeOpens ==
  ASSUME LifetimeInv, NEW c \in Callers, NEW x \in CaseIds, NEW e \in ExecIds, OpenLifetime(c, x, e)
  PROVE  Promise!Next
  <1>. PICK k : k = call[c].key
    OBVIOUS
  <1>. PICK org : org = call[c].org
    OBVIOUS
  <1>1. /\ call[c].at = "located" /\ FirstStart(c) /\ Found(c) = 0 /\ cases[x].status = "absent" /\ Written(c)
        /\ cases' = [cases EXCEPT ![x] = [source |-> SourceOf[k], org |-> org, key |-> k, status |-> "active"]]
    BY DEF OpenLifetime, Fresh
  <1>2. k \in Keys /\ org \in Tenants
    BY <1>1, FoundIs
  <1>3. SourceOf[k] # Adhoc => Promise!MayMean(SourceOf[k], org) = {}
    <2>1. SourceOf[k] # Adhoc => ActiveLifetime(SourceOf[k], org) = 0
      BY <1>1 DEF Found
    <2>. QED
      BY <1>2, <2>1, ActiveFound DEF Promise!MayMean
  <1>4. Appends(e, x, 1, k) /\ Of(x) = {}
    BY OpenLifetimeAppends
  <1>5. CasesKept /\ Running' = Running \cup {x} /\ Staffed' = Staffed
    BY <1>4, AppendedMoves
  <1>6. Rounds' = [Rounds EXCEPT ![x] = 1]
    <2>1. Cardinality(Of(x)) = 0 /\ Rounds' = [Rounds EXCEPT ![x] = @ + 1]
      BY <1>4, AppendedRounds, FS_EmptySet
    <2>. QED
      BY <2>1 DEF Rounds
  <1>7. Promise!Open(k, org, x)
    BY <1>1, <1>3, <1>5, <1>6 DEF Promise!Open, Rounds
  <1>8. Told' = Told
    BY <1>1, <1>5, WrittenTold
  <1>9. Promise!Start(k)
    BY <1>1, <1>2, <1>5, <1>7, <1>8, StartBegins DEF Promise!Start, Tenants
  <1>. QED
    BY <1>1, <1>9, StartBegins DEF Promise!Next

\* A call reads the lifetime: of its own issue, or the one its key opened.
LEMMA ReadTells ==
  ASSUME LifetimeInv, CallsBegun, NEW c \in Callers, ReadLifetime(c)
  PROVE  Promise!Next
  <1>. PICK k : k = call[c].key
    OBVIOUS
  <1>1. PICK x \in Lookup(c) : call' = [call EXCEPT ![c].at = "read", ![c].org = NoOrg, ![c].case = x]
    BY DEF ReadLifetime
  <1>2. call[c].at = "written" /\ UNCHANGED <<cases, execs, sessions, applied>>
    BY DEF ReadLifetime
  <1>3. k \in Keys /\ call[c].org \in Tenants /\ call \in [Callers -> CallType]
    BY <1>2 DEF LifetimeInv, LifetimeTypeOK, CallType, CallRows
  <1>4. /\ x \in CaseIds
        /\ IF SourceOf[k] = Adhoc THEN cases[x].key = k
           ELSE cases[x].status = "active" /\ cases[x].source = SourceOf[k]
    BY <1>3, ActiveFound DEF Lookup
  <1>5. k \in Begun
    BY <1>2, <1>3 DEF CallsBegun, Begun
  <1>6. Told' = Told \cup {<<k, x>>}
    <2>1. call'[c].at = "read" /\ call'[c].case = x /\ call'[c].key = k
      BY <1>1, <1>3 DEF CallType
    <2>2. Knows(c) = {} /\ Knows(c)' = {<<k, x>>}
      BY <1>2, <2>1 DEF Knows
    <2>3. \A d \in Callers \ {c} : call'[d] = call[d]
      BY <1>1, <1>3
    <2>4. \A d \in Callers \ {c} : Knows(d)' = Knows(d)
      BY <1>2, <2>3, KnowsStays DEF CasesKept
    <2>. QED
      BY <2>2, <2>4, ToldMoves
  <1>7. Promise!Tell(k, x)
    BY <1>2, <1>4, <1>5, <1>6 DEF Promise!Tell, Running, Staffed, Begun, Of
  <1>8. \E u \in Told' : Promise!Tell(u[1], u[2])
    <2>1. <<k, x>> \in Told' /\ <<k, x>>[1] = k /\ <<k, x>>[2] = x
      BY <1>6
    <2>. QED
      BY <1>7, <2>1
  <1>. QED
    BY <1>8 DEF Promise!Next

\* Reading its last execution tells it nothing else.
LEMMA ExecutionReadSame ==
  ASSUME LifetimeInv, NEW c \in Callers, ReadExecution(c)
  PROVE  Told' = Told
  <1>1. PICK x : x = call[c].case
    OBVIOUS
  <1>2. PICK e : e = Last(x)
    OBVIOUS
  <1>3. /\ call[c].at = "read" /\ UNCHANGED execs
        /\ call' = [call EXCEPT ![c].at = "resolved", ![c].case = 0, ![c].exec = e]
    BY <1>1, <1>2 DEF ReadExecution
  <1>4. x \in CaseIds /\ cases[x].status # "absent" /\ call \in [Callers -> CallType]
    BY <1>1, <1>3 DEF LifetimeInv, LifetimeTypeOK, CallType, CallRows
  <1>5. execs[e].case = x
    BY <1>2, <1>4, LastIsIn DEF LifetimeInv, CaseRows, Of
  <1>6. call'[c].at = "resolved" /\ call'[c].exec = e /\ call'[c].key = call[c].key
    BY <1>3, <1>4 DEF CallType
  <1>7. Knows(c)' = Knows(c)
    BY <1>1, <1>3, <1>5, <1>6 DEF Knows
  <1>8. \A d \in Callers \ {c} : call'[d] = call[d]
    BY <1>3, <1>4
  <1>9. \A d \in Callers \ {c} : Knows(d)' = Knows(d)
    BY <1>3, <1>8, KnowsStays DEF CasesKept
  <1>. QED
    BY <1>7, <1>9, ToldMoves

\* A call that ends forgets what it was told.
LEMMA EndTold ==
  ASSUME LifetimeInv, CasesKept, NEW c \in Callers, call' = [call EXCEPT ![c] = Idle]
  PROVE  /\ Knows(c) = {} => Told' = Told
         /\ \A u : Knows(c) = {u} => u \in Told /\ Told' \in {Told, Told \ {u}}
  <1>1. Idle.at = "idle"
    BY DEF Idle
  <1>. QED
    BY <1>1, CallerTold, ToldIs

LEMMA StopForgets ==
  ASSUME LifetimeInv, NEW c \in Callers, Stop(c)
  PROVE  [Promise!Next]_(Promise!vars)
  <1>1. call' = [call EXCEPT ![c] = Idle] /\ UNCHANGED <<cases, execs, sessions, applied>>
    BY DEF Stop
  <1>2. CasesKept
    BY <1>1 DEF CasesKept
  <1>3. Knows(c) = {} \/ \E u : Knows(c) = {u}
    BY DEF Knows
  <1>4. Told' = Told \/ \E u \in Told : Told' = Told \ {u}
    BY <1>1, <1>2, <1>3, EndTold
  <1>5. CASE Told' = Told
    BY <1>1, <1>5, QuietCall
  <1>6. ASSUME NEW u \in Told, Told' = Told \ {u} PROVE Promise!Next
    <2>1. Promise!Forget(u)
      BY <1>1, <1>6 DEF Promise!Forget, Running, Staffed, Begun, Of
    <2>. QED
      BY <2>1 DEF Promise!Next
  <1>. QED
    BY <1>4, <1>5, <1>6

-----------------------------------------------------------------------------

\* An execution that takes a session has the only ones of its lifetime.
LEMMA SessionGuards ==
  ASSUME LifetimeInv, OneCancelled, NEW e \in ExecIds, execs[e].status = "active", NEW x, x = execs[e].case
  PROVE  /\ x \in CaseIds /\ execs[e].orch \notin {"absent", "completed"}
         /\ Promise!TakesSession(x)
         /\ x \in Staffed <=> Open(e) # {}
  <1>1. x \in CaseIds /\ execs[e].orch \notin {"absent", "completed"}
    BY DEF LifetimeInv, ExecRows, ClosedTogether
  <1>2. Promise!TakesSession(x)
    <2>1. execs[e].orch \in {"running", "cancelled"}
      BY <1>1 DEF LifetimeInv, LifetimeTypeOK
    <2>. QED
      BY <2>1 DEF LifetimeInv, ExecRows, Promise!TakesSession, Running
  <1>3. ASSUME x \in Staffed PROVE Open(e) # {}
    <2>1. PICK s \in SessionIds : sessions[s].status = "active" /\ execs[sessions[s].exec].case = x
      BY <1>3 DEF Staffed
    <2>2. sessions[s].exec = e
      BY <1>1, <2>1, OpenIs, OneUnfinished
    <2>. QED
      BY <2>1, <2>2, OpenIs
  <1>4. ASSUME NEW s \in Open(e) PROVE x \in Staffed
    BY DEF Open, Staffed
  <1>. QED
    BY <1>1, <1>2, <1>3, <1>4

LEMMA SessionAdded ==
  ASSUME LifetimeInv, NEW s \in SessionIds, sessions[s].status = "absent", NEW e, NEW r,
         sessions' = [sessions EXCEPT ![s] = [exec |-> e, from |-> r, status |-> "active"]], UNCHANGED execs
  PROVE  Staffed' = Staffed \cup {execs[e].case}
  <1>1. sessions \in [SessionIds -> SessionType]
    BY DEF LifetimeInv, LifetimeTypeOK, SessionType
  <1>2. /\ sessions'[s].exec = e /\ sessions'[s].status = "active"
        /\ \A t \in SessionIds \ {s} : sessions'[t] = sessions[t]
    BY <1>1
  <1>3. {t \in SessionIds : sessions'[t].status = "active"} = {t \in SessionIds : sessions[t].status = "active"} \cup {s}
    BY <1>2
  <1>4. Staffed' = {execs[sessions'[t].exec].case : t \in {t \in SessionIds : sessions'[t].status = "active"}}
    BY DEF Staffed
  <1>. QED
    BY <1>2, <1>3, <1>4 DEF Staffed

\* The sessions of an execution end, and with them those of its lifetime.
LEMMA SessionsLeave ==
  ASSUME LifetimeInv, OneCancelled, NEW e \in ExecIds, execs[e].orch \notin {"absent", "completed"},
         \A t \in SessionIds : IF t \in Open(e) THEN sessions'[t].status # "active" ELSE sessions'[t] = sessions[t],
         \A d \in ExecIds : execs'[d].case = execs[d].case
  PROVE  Staffed' = Staffed \ {execs[e].case}
  <1>. DEFINE active == {t \in SessionIds : sessions[t].status = "active"}
  <1>1. \A t \in active : sessions[t].exec \in ExecIds
    BY OpenIs
  <1>2. {t \in SessionIds : sessions'[t].status = "active"} = active \ Open(e)
    BY DEF Open
  <1>3. Staffed' = {execs[sessions[t].exec].case : t \in active \ Open(e)}
    <2>1. Staffed' = {execs'[sessions'[t].exec].case : t \in active \ Open(e)}
      BY <1>2 DEF Staffed
    <2>2. \A t \in active \ Open(e) : execs'[sessions'[t].exec].case = execs[sessions[t].exec].case
      BY <1>1
    <2>. QED
      BY <2>1, <2>2
  <1>4. \A t \in active : t \in Open(e) <=> execs[sessions[t].exec].case = execs[e].case
    BY OpenIs, OneUnfinished DEF Open
  <1>5. Staffed = {execs[sessions[t].exec].case : t \in active}
    BY DEF Staffed
  <1>. HIDE DEF active
  <1>. QED
    BY <1>3, <1>4, <1>5

LEMMA StartSessionAttends ==
  ASSUME LifetimeInv, OneCancelled, NEW c \in Callers, StartSession(c)
  PROVE  Promise!Next
  <1>. PICK k : k = call[c].key
    OBVIOUS
  <1>. PICK e : e = call[c].exec
    OBVIOUS
  <1>. PICK x : x = execs[e].case
    OBVIOUS
  <1>1. /\ call[c].at = "resolved" /\ execs[e].status = "active" /\ UNCHANGED <<cases, execs>>
        /\ applied' = applied \cup {<<k, "session">>} /\ call' = [call EXCEPT ![c] = Idle]
    BY DEF StartSession
  <1>2. e \in ExecIds
    BY <1>1 DEF LifetimeInv, CallRows
  <1>3. Staffed' = Staffed \cup {x}
    <2>1. CASE UNCHANGED sessions /\ Open(e) # {}
      BY <1>1, <1>2, <2>1, SessionGuards DEF Staffed
    <2>2. ASSUME NEW s \in SessionIds, NEW r \in SessionIds \cup {0}, Fresh(sessions, s),
                 sessions' = [sessions EXCEPT ![s] = [exec |-> e, from |-> r, status |-> "active"]]
          PROVE  Staffed' = Staffed \cup {x}
      BY <1>1, <2>2, SessionAdded DEF Fresh
    <2>. QED
      BY <2>1, <2>2 DEF StartSession
  <1>4. cases' = cases /\ Rounds' = Rounds /\ Running' = Running /\ Begun' = Begun /\ CasesKept
    BY <1>1, TablesStay
  <1>. PICK u : u = <<k, x>>
    OBVIOUS
  <1>5. u \in Told /\ Told' \in {Told, Told \ {u}}
    <2>1. Knows(c) = {u}
      BY <1>1 DEF Knows
    <2>. QED
      BY <1>1, <1>4, <2>1, EndTold
  <1>6. Promise!TakesSession(u[2])
    BY <1>1, <1>2, SessionGuards
  <1>7. Promise!Attend(u)
    BY <1>3, <1>4, <1>5, <1>6 DEF Promise!Attend, Rounds
  <1>. QED
    BY <1>5, <1>7 DEF Promise!Next

LEMMA OpenSessionStaffs ==
  ASSUME LifetimeInv, OneCancelled,
         NEW e \in ExecIds, NEW r \in SessionIds \cup {0}, NEW s \in SessionIds, OpenSession(e, r, s)
  PROVE  Promise!Next
  <1>. PICK x : x = execs[e].case
    OBVIOUS
  <1>1. /\ execs[e].status = "active" /\ Open(e) = {} /\ UNCHANGED <<cases, execs, applied, call>>
        /\ sessions[s].status = "absent"
        /\ sessions' = [sessions EXCEPT ![s] = [exec |-> e, from |-> r, status |-> "active"]]
    BY DEF OpenSession, Fresh
  <1>2. x \in CaseIds /\ x \notin Staffed /\ Promise!TakesSession(x)
    BY <1>1, SessionGuards
  <1>3. Staffed' = Staffed \cup {x}
    BY <1>1, SessionAdded
  <1>4. cases' = cases /\ Rounds' = Rounds /\ Running' = Running /\ Begun' = Begun /\ Told' = Told
    BY <1>1, TablesStay, ToldSame
  <1>5. Promise!Staff(x)
    BY <1>2, <1>3, <1>4 DEF Promise!Staff, Rounds
  <1>. QED
    BY <1>2, <1>5 DEF Promise!Next

LEMMA HandOffLeaves ==
  ASSUME LifetimeInv, OneCancelled, NEW s \in SessionIds, HandOff(s)
  PROVE  Promise!Next
  <1>. PICK e : e = sessions[s].exec
    OBVIOUS
  <1>. PICK x : x = execs[e].case
    OBVIOUS
  <1>1. /\ sessions[s].status = "active" /\ UNCHANGED <<cases, execs, applied, call>>
        /\ sessions' = [sessions EXCEPT ![s].status = "handed_off"]
    BY DEF HandOff
  <1>2. e \in ExecIds /\ x \in CaseIds /\ execs[e].orch \notin {"absent", "completed"} /\ s \in Open(e)
    BY <1>1, OpenIs
  <1>3. \A t \in Open(e) : t = s
    BY <1>2 DEF LifetimeInv, ClosedTogether
  <1>4. sessions'[s].status # "active" /\ \A t \in SessionIds \ {s} : sessions'[t] = sessions[t]
    BY <1>1 DEF LifetimeInv, LifetimeTypeOK
  <1>5. \A t \in SessionIds : IF t \in Open(e) THEN sessions'[t].status # "active" ELSE sessions'[t] = sessions[t]
    BY <1>2, <1>3, <1>4
  <1>6. Staffed' = Staffed \ {x}
    BY <1>1, <1>2, <1>5, SessionsLeave
  <1>7. cases' = cases /\ Rounds' = Rounds /\ Running' = Running /\ Begun' = Begun /\ Told' = Told
    BY <1>1, TablesStay, ToldSame
  <1>8. Promise!Leave(x)
    BY <1>6, <1>7 DEF Promise!Leave, Rounds
  <1>. QED
    BY <1>2, <1>8 DEF Promise!Next

\* An execution that runs ends, in whatever way: its lifetime runs no more.
LEMMA RunningEnds ==
  ASSUME LifetimeInv, NEW e \in ExecIds, execs[e].orch = "running", NEW x, x = execs[e].case,
         execs'[e].orch # "running", \A d \in ExecIds \ {e} : execs'[d] = execs[d],
         execs'[e].case = x, UNCHANGED <<applied, call>>
  PROVE  /\ x \in CaseIds /\ cases[x].status = "active" /\ x \in Running
         /\ Running' = Running \ {x} /\ Rounds' = Rounds /\ Begun' = Begun /\ Told' = Told
  <1>1. /\ x \in CaseIds /\ cases[x].status = "active"
        /\ \A d \in ExecIds \ {e} : execs[d].case = x => execs[d].orch # "running"
    BY RunningIs
  <1>2. CasesKept /\ \A y : Of(y)' = Of(y)
    BY DEF CasesKept, Of
  <1>3. Told' = Told
    BY <1>2, ToldSame
  <1>4. Running' = Running \ {x}
    <2>1. {d \in ExecIds : execs'[d].orch = "running"} = {d \in ExecIds : execs[d].orch = "running"} \ {e}
      OBVIOUS
    <2>2. Running' = {execs'[d].case : d \in {d \in ExecIds : execs'[d].orch = "running"}}
      BY DEF Running
    <2>. QED
      BY <1>1, <2>1, <2>2 DEF Running
  <1>. QED
    BY <1>1, <1>2, <1>3, <1>4 DEF Running, Rounds, Begun

LEMMA CompleteFinishes ==
  ASSUME LifetimeInv, OneCancelled, NEW e \in ExecIds, Complete(e)
  PROVE  Promise!Next
  <1>. PICK x : x = execs[e].case
    OBVIOUS
  <1>1. /\ execs[e].orch = "running" /\ UNCHANGED <<cases, applied, call>>
        /\ execs' = [execs EXCEPT ![e].orch = "completed", ![e].status = "completed"]
        /\ sessions' = [s \in SessionIds |-> IF s \in Open(e) THEN [sessions[s] EXCEPT !.status = "closed"] ELSE sessions[s]]
    BY DEF Complete
  <1>2. execs \in [ExecIds -> ExecType] /\ sessions \in [SessionIds -> SessionType]
    BY DEF LifetimeInv, LifetimeTypeOK, ExecType, SessionType
  <1>3. /\ execs'[e].orch # "running" /\ execs'[e].case = x
        /\ \A d \in ExecIds \ {e} : execs'[d] = execs[d]
    BY <1>1, <1>2 DEF ExecType
  <1>4. \A t \in SessionIds : IF t \in Open(e) THEN sessions'[t].status # "active" ELSE sessions'[t] = sessions[t]
    BY <1>1, <1>2 DEF SessionType
  <1>5. Staffed' = Staffed \ {x}
    BY <1>1, <1>3, <1>4, SessionsLeave
  <1>6. /\ x \in CaseIds /\ cases[x].status = "active" /\ x \in Running
        /\ Running' = Running \ {x} /\ Rounds' = Rounds /\ Begun' = Begun /\ Told' = Told
    BY <1>1, <1>3, RunningEnds
  <1>7. Promise!Finish(x)
    BY <1>1, <1>5, <1>6 DEF Promise!Finish, Rounds
  <1>. QED
    BY <1>6, <1>7 DEF Promise!Next

LEMMA CancelWithdraws ==
  ASSUME LifetimeInv, NEW e \in ExecIds, Cancel(e)
  PROVE  Promise!Next
  <1>. PICK x : x = execs[e].case
    OBVIOUS
  <1>1. /\ execs[e].orch = "running" /\ UNCHANGED <<sessions, applied, call>>
        /\ execs' = [execs EXCEPT ![e].orch = "cancelled"]
        /\ cases' = [cases EXCEPT ![x].status = "cancelled"]
    BY DEF Cancel
  <1>2. execs \in [ExecIds -> ExecType]
    BY DEF LifetimeInv, LifetimeTypeOK, ExecType
  <1>3. /\ execs'[e].orch # "running" /\ execs'[e].case = x
        /\ \A d \in ExecIds \ {e} : execs'[d] = execs[d]
    BY <1>1, <1>2 DEF ExecType
  <1>4. Staffed' = Staffed
    <2>1. \A s \in SessionIds : sessions[s].status = "active" => execs'[sessions[s].exec].case = execs[sessions[s].exec].case
      BY <1>3, OpenIs
    <2>2. Staffed' = {execs'[sessions[s].exec].case : s \in {t \in SessionIds : sessions[t].status = "active"}}
      BY <1>1 DEF Staffed
    <2>. QED
      BY <2>1, <2>2 DEF Staffed
  <1>5. /\ x \in CaseIds /\ cases[x].status = "active" /\ x \in Running
        /\ Running' = Running \ {x} /\ Rounds' = Rounds /\ Begun' = Begun /\ Told' = Told
    BY <1>1, <1>3, RunningEnds
  <1>6. Promise!Withdraw(x)
    BY <1>1, <1>4, <1>5 DEF Promise!Withdraw, Rounds
  <1>. QED
    BY <1>5, <1>6 DEF Promise!Next

LEMMA StepPromises ==
  ASSUME LifetimeInv, OneCancelled, CallsBegun, [Next]_vars
  PROVE  [Promise!Next]_(Promise!vars)
  <1>1. CASE UNCHANGED vars
    <2>1. UNCHANGED <<cases, execs, sessions, applied>> /\ UNCHANGED call /\ CasesKept
      BY <1>1 DEF vars, CasesKept
    <2>. QED
      BY <2>1, ToldSame, QuietCall
  <1>2. ASSUME NEW c \in Callers, StartStep(c) PROVE [Promise!Next]_(Promise!vars)
    <2>1. ASSUME NEW k \in Keys, StartAdhoc(c, k) \/ \E named \in Tenants : ResolveOrg(c, k, named)
          PROVE  UNCHANGED Promise!vars
      <3>1. PICK new : call' = [call EXCEPT ![c] = new] /\ new.at = "located"
        BY <2>1, AskedIs
      <3>2. UNCHANGED <<cases, execs, sessions, applied>> /\ Knows(c) = {} /\ CasesKept
        BY <2>1, AskedIs DEF Knows, CasesKept
      <3>. QED
        BY <3>1, <3>2, CallerTold, QuietCall
    <2>2. CASE StartDuplicate(c)
      <3>1. call[c].at = "located" /\ Written(c) /\ UNCHANGED <<cases, execs, sessions, applied>> /\ CasesKept
        BY <2>2 DEF StartDuplicate, CasesKept
      <3>. QED
        BY <3>1, WrittenTold, QuietCall
    <2>3. CASE ReadExecution(c)
      BY <2>3, ExecutionReadSame, QuietCall DEF ReadExecution
    <2>. QED
      BY <1>2, <2>1, <2>2, <2>3, ResumeJoins, OpenNextJoins, OpenLifetimeOpens, ReadTells,
         StartSessionAttends, StopForgets DEF StartStep
  <1>. QED
    BY <1>1, <1>2, CompleteFinishes, CancelWithdraws, OpenSessionStaffs, HandOffLeaves DEF Next

LEMMA InitPromises ==
  Init => Promise!Init /\ OneCancelled /\ CallsBegun
  <1>1. Init => /\ \A e \in ExecIds : execs[e].case = 0 /\ execs[e].orch = "absent"
                /\ \A s \in SessionIds : sessions[s].status = "absent"
                /\ \A c \in Callers : call[c].at = "idle"
                /\ applied = {}
    BY SMT DEF Init, AbsentExec, AbsentSession, Idle
  <1>2. SUFFICES ASSUME /\ \A e \in ExecIds : execs[e].case = 0 /\ execs[e].orch = "absent"
                        /\ \A s \in SessionIds : sessions[s].status = "absent"
                        /\ \A c \in Callers : call[c].at = "idle"
                        /\ applied = {}
                        /\ cases = [x \in CaseIds |-> AbsentCase]
                 PROVE  Promise!Init /\ OneCancelled /\ CallsBegun
    BY <1>1 DEF Init
  <1>3. OneCancelled /\ CallsBegun
    BY <1>2 DEF OneCancelled, CallsBegun
  <1>4. Running = {} /\ Staffed = {} /\ Begun = {} /\ Told = {}
    BY <1>2 DEF Running, Staffed, Begun, Told
  <1>5. \A x \in CaseIds : Cardinality(Of(x)) = 0
    <2>1. \A x \in CaseIds : Of(x) = {}
      BY <1>2 DEF Of, CaseIds
    <2>. QED
      BY <2>1, FS_EmptySet
  <1>. QED
    BY <1>2, <1>3, <1>4, <1>5 DEF Promise!Init, AbsentCase

\* To its callers a start happens at once and once, whatever calls interleave
\* with it, stop and are made again (service.go:201-271, lifetime.go:73-78,
\* 183-252, execution.go:217-240).
THEOREM DeliveriesHonoured == Spec => ImplementsDeliveries
  <1>1. Init => OneCancelled /\ CallsBegun
    BY InitPromises
  <1>2. LifetimeInv /\ OneCancelled /\ CallsBegun /\ [Next]_vars => (OneCancelled /\ CallsBegun)'
    BY CancelledStep, BegunStep
  <1>3. Init => Promise!Init
    BY InitPromises
  <1>. QED
    BY <1>1, <1>2, <1>3, StepPromises, LifetimeInvariance, PTL DEF Spec, ImplementsDeliveries, Promise!Spec
=============================================================================
