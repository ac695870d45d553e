----------------------------- MODULE MCDelivery -----------------------------
(***************************************************************************)
(* A run that is captured, judged, delivered and taken over: one artifact, *)
(* one criterion, two rounds, two viewports. The operations are shared     *)
(* out by allowances: what is not allowed any stands still. Beside it, by  *)
(* itself, the library assets are published in, copied and deleted: the    *)
(* scope says which of the two moves.                                      *)
(***************************************************************************)
EXTENDS Delivery, Library, TLC

CONSTANTS a1, c1, op1, p1, q1, sound, circular

\* Two components of one project, the second naming the first; what is written
\* names the first, or the first asset that is created.
SmallShelf == 1 :> Draft(p1, "component", {}) @@ 2 :> Draft(p1, "component", {1})
SomeContents == {{1}, {3}}

\* Two token documents: one whose second token names the first, which the
\* project's files hold, and one whose tokens name each other.
SomeTokens == {"ink", "brand"}
OneCategory == [t \in SomeTokens |-> "color"]
SomeSays == (sound :> [t \in SomeTokens |-> IF t = "ink" THEN "fits" ELSE "ink"])
              @@ (circular :> [t \in SomeTokens |-> IF t = "ink" THEN "brand" ELSE "ink"])

TwoViewports == <<"desktop", "mobile">>

VARIABLES
  left,  \* operations each part may still make
  scope

Parts == {"fills", "captures", "bindings", "reports", "preview", "builds", "facts", "backflow"}

Allow(f, c, b, r, p, d, o, x) ==
  [part \in Parts |->
     CASE part = "fills" -> f [] part = "captures" -> c [] part = "bindings" -> b
       [] part = "reports" -> r [] part = "preview" -> p [] part = "builds" -> d
       [] part = "facts" -> o [] part = "backflow" -> x]

\* Captures and bindings; a delivery while the preview changes, while the
\* evidence changes, two deliveries; facts; backflow.
Allowances ==
  {Allow(2, 4, 3, 0, 0, 0, 0, 0), Allow(0, 0, 0, 1, 3, 1, 0, 0), Allow(0, 1, 2, 2, 0, 1, 0, 0),
   Allow(2, 0, 0, 1, 0, 2, 0, 0), Allow(1, 2, 2, 2, 0, 0, 6, 0), Allow(0, 1, 1, 2, 0, 0, 2, 8)}

\* What a step makes use of.
Uses(part) ==
  CASE part = "fills"    -> page' # page
    [] part = "captures" -> camera = None /\ camera' # None
    [] part = "bindings" -> manifest' # manifest
    [] part = "reports"  -> report' # report
    [] part = "preview"  -> previewVars' # previewVars
    [] part = "builds"   -> build = None /\ build' # None
    [] part = "backflow" -> <<candidates, recorded, flow>>' # <<candidates, recorded, flow>>
    [] part = "facts"    -> <<projection, publisher, confirmations, draft, verified>>'
                              # <<projection, publisher, confirmations, draft, verified>>

Spends ==
  /\ left' = [part \in Parts |-> IF Uses(part) THEN left[part] - 1 ELSE left[part]]
  /\ \A part \in Parts : left'[part] >= 0

\* What there is no allowance left for is not tried.
May(parts) == \E part \in parts : left[part] > 0

Of(result, artifact, verdict, audited) ==
  [rows |-> [c \in Criteria |-> [result |-> result, artifact |-> artifact]],
   verdict |-> verdict, audited |-> audited]

\* The reports evaluators leave, sound and not, and the skeleton.
SomeReports ==
  {Skeleton, Of("pass", a1, "pass", "true"), Of("pass", None, "pass", "none"),
   Of("fail", a1, "pass", "none"), Of("fail", a1, "recirculate", "true")}

\* What a preview round leaves that was opened and confirmed.
Reviewed ==
  /\ prototype = [r \in Rounds |-> IF r = 1 THEN 1 ELSE None]
  /\ confirm = [r \in Rounds |-> IF r = 1 THEN [hash |-> 1, valid |-> TRUE] ELSE None]
  /\ logged = {1} /\ registered = {1}
  /\ snaps = [v \in Shown |-> None] /\ build = None
  /\ out = [json |-> None, copy |-> None, zip |-> None, index |-> None, torn |-> {}]

\* A preview that does not change has one reviewed round.
MCInit ==
  /\ EvidenceInit /\ FactsInit /\ Init
  /\ scope \in {"delivery", "library"}
  /\ left \in IF scope = "delivery" THEN Allowances ELSE {Allow(0, 0, 0, 0, 0, 0, 0, 0)}
  /\ IF left["preview"] = 0 THEN Reviewed ELSE HandoffInit

MCDeliveryNext ==
  \/ (camera # None \/ May({"fills", "captures", "bindings", "reports"})) /\ EvidenceStep
  \/ May({"preview"}) /\ PreviewStep
  \/ (build # None \/ May({"builds"})) /\ HandoffStep
  \/ May({"facts", "backflow"}) /\ OwnerStep

\* Bound: a request is not kept whose write would be the last one.
MayFinish == writes + 1 < MaxWrites \/ \A c \in Clients : asked[c] = None

MCNext ==
  /\ UNCHANGED scope
  /\ \/ scope = "delivery" /\ MCDeliveryNext /\ Spends /\ UNCHANGED vars
     \/ scope = "library" /\ Next /\ MayFinish' /\ UNCHANGED <<deliveryVars, left>>

MCSpec == MCInit /\ [][MCNext]_<<deliveryVars, vars, left, scope>>

=============================================================================
