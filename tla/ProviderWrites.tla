--------------------------- MODULE ProviderWrites ---------------------------
(***************************************************************************)
(* What the provider-write outbox promises its callers, with workers,      *)
(* leases, attempts and transports left out.  A write that was admitted    *)
(* stays on record until it is acknowledged or withdrawn; it is            *)
(* acknowledged only once its effect exists at the provider; both ends are *)
(* final.  The effect may appear at any time after admission, also after   *)
(* the write was withdrawn, because a request that is already on its way   *)
(* cannot be called back.  Nothing here says the effect appears only once. *)
(***************************************************************************)
CONSTANT Intents        \* the admitted writes, one per operation fingerprint

VARIABLES
  phase,                \* where each write is in its life
  landed                \* whether its effect exists at the provider

vars == <<phase, landed>>

Phases == {"absent", "open", "succeeded", "cancelled"}

Init ==
  /\ phase = [i \in Intents |-> "absent"]
  /\ landed = [i \in Intents |-> FALSE]

Admit(i) ==
  /\ phase[i] = "absent"
  /\ phase' = [phase EXCEPT ![i] = "open"]
  /\ UNCHANGED landed

Land(i) ==
  /\ phase[i] # "absent"
  /\ ~landed[i]
  /\ landed' = [landed EXCEPT ![i] = TRUE]
  /\ UNCHANGED phase

Acknowledge(i) ==
  /\ phase[i] = "open"
  /\ landed[i]
  /\ phase' = [phase EXCEPT ![i] = "succeeded"]
  /\ UNCHANGED landed

Withdraw(i) ==
  /\ phase[i] = "open"
  /\ phase' = [phase EXCEPT ![i] = "cancelled"]
  /\ UNCHANGED landed

Next == \E i \in Intents : Admit(i) \/ Land(i) \/ Acknowledge(i) \/ Withdraw(i)

Spec == Init /\ [][Next]_vars
=============================================================================
