------------------------- MODULE ProposalLifecycle -------------------------
(***************************************************************************)
(* What the workbench promises the maintainer about the source proposals   *)
(* of one project, in terms of the state it shows for each of them         *)
(* (ProposalService._effective_state): a proposal is authorized at most    *)
(* once, a half-written one is shown as recovery-required and blocks the   *)
(* project until it is resolved, and an outcome is final.                  *)
(***************************************************************************)

CONSTANT Proposals

VARIABLE shown      \* the state shown for each proposal

States == {"none", "awaiting-authorization", "recovery-required", "applied",
           "rejected", "expired", "rolled-back"}

\* No proposal of the project is half-written.
Settled == \A p \in Proposals : shown[p] # "recovery-required"

Becomes(p, state) == shown' = [shown EXCEPT ![p] = state]

-----------------------------------------------------------------------------

Init == shown = [p \in Proposals |-> "none"]

Propose(p) ==
  /\ Settled
  /\ shown[p] = "none"
  /\ Becomes(p, "awaiting-authorization")

Expire(p) ==
  /\ shown[p] = "awaiting-authorization"
  /\ Becomes(p, "expired")

\* A rejection only closes the row, so it is still accepted after expiry.
Reject(p) ==
  /\ shown[p] \in {"awaiting-authorization", "expired"}
  /\ Becomes(p, "rejected")

\* Writing starts. The authorization is checked when the request arrives, so
\* an approval given in time may start writing just after the expiry.
StartWriting(p) ==
  /\ Settled
  /\ shown[p] \in {"awaiting-authorization", "expired"}
  /\ Becomes(p, "recovery-required")

Resolve(p) ==
  /\ shown[p] = "recovery-required"
  /\ \/ Becomes(p, "applied")
     \/ Becomes(p, "rolled-back")

Next ==
  \E p \in Proposals :
    Propose(p) \/ Expire(p) \/ Reject(p) \/ StartWriting(p) \/ Resolve(p)

Spec == Init /\ [][Next]_shown

=============================================================================
