------------------------------ MODULE Delivery ------------------------------
(***************************************************************************)
(* A run that is captured and judged (Evidence), delivered (Handoff) and   *)
(* taken over by the workbench (OwnerFacts): the tools of the run and the  *)
(* workbench take their steps in any order, and share only its files.      *)
(***************************************************************************)
EXTENDS Handoff, OwnerFacts

CONSTANT Reports  \* the reports evaluators leave in point-back.md

ASSUME DeliveryAssumption ==
  /\ Reports \subseteq Report
  /\ None \notin Nat /\ None \notin Verdicts \cup {"pass", "recirculate"} /\ None \notin BOOLEAN
  /\ None \notin [artifact : Artifacts, version : Nat, shot : BOOLEAN]
  /\ None \notin Payloads /\ None \notin Archives

deliveryVars == <<evidenceVars, handoffVars, factsVars>>

DeliveryInit == EvidenceInit /\ HandoffInit /\ FactsInit

EvidenceStep ==
  /\ \/ Fill \/ CaptureShoots \/ CaptureProbed \/ CaptureFails
     \/ \E a \in Artifacts : \/ CaptureRefused(a)
                             \/ \E overwrite \in BOOLEAN : CaptureLoads(a, overwrite)
                             \/ \E c \in Criteria : Bind(a, c)
     \/ \E r \in Reports : Judge(r)
  /\ Meanwhile /\ UNCHANGED factsVars

PreviewStep ==
  /\ \E r \in Rounds : \/ WritePrototype(r)
                       \/ \E flag \in BOOLEAN : DecideRound(r, flag) \/ RemovePreview(r, flag)
  /\ UNCHANGED <<evidenceVars, factsVars>>

HandoffStep ==
  /\ BuildStep \/ \E r \in Rounds : Begin(r)
  /\ UNCHANGED <<evidenceVars, factsVars>>

OwnerStep == FactsStep /\ UNCHANGED <<evidenceVars, handoffVars>>

DeliveryNext == EvidenceStep \/ PreviewStep \/ HandoffStep \/ OwnerStep

DeliverySpec == DeliveryInit /\ [][DeliveryNext]_deliveryVars

=============================================================================
