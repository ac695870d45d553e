---------------------------- MODULE ExactlyOnce ----------------------------
(***************************************************************************)
(* What the mutation gate promises the clients of the workbench: however   *)
(* often a request is sent, its operation takes effect at most once, and   *)
(* whoever is told that it succeeded is told the outcome of that one time, *)
(* which is durable by then.                                               *)
(***************************************************************************)

CONSTANTS Operations, Outcomes, NoOutcome

VARIABLES
  outcome,   \* the outcome of each operation that took effect
  answers    \* the <<operation, outcome>> pairs clients are being told

Init ==
  /\ outcome = [o \in Operations |-> NoOutcome]
  /\ answers = {}

TakeEffect(o) ==
  /\ outcome[o] = NoOutcome
  /\ outcome'[o] \in Outcomes
  /\ outcome' = [outcome EXCEPT ![o] = outcome'[o]]

\* A client is told of nothing but outcomes on record.
Told == \A told \in answers : outcome[told[1]] = told[2] /\ told[2] \in Outcomes

Next ==
  /\ UNCHANGED outcome \/ \E o \in Operations : TakeEffect(o)
  /\ Told'

Spec == Init /\ [][Next]_<<outcome, answers>>

=============================================================================
