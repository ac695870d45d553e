----------------------------- MODULE OwnerFacts -----------------------------
(***************************************************************************)
(* What the workbench takes from a run it does not own: the projection an  *)
(* owner publishes from the manifest and the evaluator's ledger, the       *)
(* confirmations people bind to a hash, the publication that needs one,    *)
(* and candidates that flow back (scripts/publish_owner_projection.py,     *)
(* owners.py).                                                             *)
(*                                                                         *)
(* One run, one project, one asset. The content of its draft is the        *)
(* version of a page; the rest of the library is Library's. Findings and   *)
(* evidence rows are left out: no evidence row ever has a source hash.     *)
(***************************************************************************)
EXTENDS Evidence

CONSTANTS
  Roles,       \* semantic roles of a confirmation
  Operations,  \* operation ids of backflow requests
  Deliveries   \* how often a request is delivered

VARIABLES
  projection,     \* projection.json: verdict and source hash of each criterion
  publisher,      \* the manifest's index a publication has read
  stated,         \* history: the rows a projection stated
  confirmations,  \* rows of owner_confirmations
  draft,          \* the content of the draft
  verified,       \* revisions published as verified
  candidates,     \* assets made by backflow, with the id of the nested request
  recorded,       \* backflow requests whose outcome is recorded
  flow            \* backflow requests being served

factsVars == <<projection, publisher, stated, confirmations, draft, verified,
               candidates, recorded, flow>>

Fact == [criterion : Criteria, verdict : {"pass", "fail", "unknown"}, hash : Hashes \cup {None}]

FactsInit ==
  /\ projection = None /\ publisher = None /\ stated = {}
  /\ confirmations = {} /\ draft = 1 /\ verified = {}
  /\ candidates = <<>> /\ recorded = {}
  /\ flow = [d \in Operations \X Deliveries |-> None]

-----------------------------------------------------------------------------
(* The projection *)

\* The last line of the manifest about an artifact, and the hash bound there,
\* whatever it was bound to.
LastLine(a) ==
  {n \in DOMAIN manifest : /\ manifest[n].artifact = a
                           /\ \A later \in n + 1..Len(manifest) : manifest[later].artifact # a}

Indexed(a) == IF LastLine(a) = {} THEN None ELSE manifest[CHOOSE n \in LastLine(a) : TRUE].hash

ProjectionReads ==
  /\ publisher = None /\ manifest # <<>>
  /\ publisher' = [a \in Artifacts |-> Indexed(a)]
  /\ UNCHANGED <<projection, stated, confirmations, draft, verified, candidates, recorded, flow>>

FactOf(row, c, index) ==
  [criterion |-> c,
   verdict |-> IF row.result = "n/a" THEN "unknown" ELSE row.result,
   hash |-> IF row.artifact = None THEN None ELSE index[row.artifact]]

\* The ledger is read after the manifest; the file is replaced at once.
ProjectionWrites ==
  /\ publisher # None /\ report # None
  /\ projection' = [c \in Criteria |-> FactOf(report.rows[c], c, publisher)]
  /\ stated' = stated \cup {FactOf(report.rows[c], c, publisher) : c \in Criteria}
  /\ publisher' = None
  /\ UNCHANGED <<confirmations, draft, verified, candidates, recorded, flow>>

ProjectionStops ==
  /\ publisher # None /\ publisher' = None
  /\ UNCHANGED <<projection, stated, confirmations, draft, verified, candidates, recorded, flow>>

-----------------------------------------------------------------------------
(* Confirmation and verified publication: each one transaction that reads *)
(* the projection inside it.                                              *)

\* A person confirms the hash that was shown, if it still is the object's.
Confirm(c, hash, role) ==
  /\ projection # None /\ projection[c].hash = hash
  /\ confirmations' = confirmations \cup {[criterion |-> c, hash |-> hash, role |-> role]}
  /\ UNCHANGED <<projection, publisher, stated, draft, verified, candidates, recorded, flow>>

UpdateDraft(content) ==
  /\ content # draft /\ draft' = content
  /\ UNCHANGED <<projection, publisher, stated, confirmations, verified, candidates, recorded, flow>>

\* Faulty variant: the verdict is enough, since the confirmation binds the content.
PassingVerdict(fact, content) == fact.verdict = "pass"

\* The criterion passes now, and of this content.
Passing(fact, content) == fact.verdict = "pass" /\ fact.hash = content

PublishVerified(c, role) ==
  /\ projection # None /\ Passing(projection[c], draft)
  /\ [criterion |-> c, hash |-> draft, role |-> role] \in confirmations
  /\ verified' = verified \cup {[criterion |-> c, hash |-> draft, role |-> role]}
  /\ UNCHANGED <<projection, publisher, stated, confirmations, draft, candidates, recorded, flow>>

-----------------------------------------------------------------------------
(* Backflow: the checks and the nested request that creates the component *)
(* are made before the transaction that completes and records it.         *)

Serves(d, next) == flow' = [flow EXCEPT ![d] = next]
CandidateOf(op) == {n \in DOMAIN candidates : candidates[n].op = op}

BackflowChecks(d, c) ==
  /\ flow[d] = None /\ d[1] \notin recorded
  /\ projection # None /\ projection[c].verdict # "pass"
  /\ Serves(d, [fact |-> projection[c], candidate |-> None, text |-> None])
  /\ UNCHANGED <<projection, publisher, stated, confirmations, draft, verified, candidates, recorded>>

\* Faulty variant: the nested request gets an id of its own.
Created(op) == {}

\* The component an earlier delivery of this request created.
Nested(op) == CandidateOf(op)

BackflowCreates(d) ==
  /\ flow[d] # None /\ flow[d].candidate = None
  /\ IF Nested(d[1]) # {}
     THEN /\ \E n \in Nested(d[1]) : Serves(d, [flow[d] EXCEPT !.candidate = n])
          /\ UNCHANGED candidates
     ELSE /\ candidates' = Append(candidates, [op |-> d[1], fact |-> None, text |-> 0])
          /\ Serves(d, [flow[d] EXCEPT !.candidate = Len(candidates) + 1])
  /\ UNCHANGED <<projection, publisher, stated, confirmations, draft, verified, recorded>>

BackflowReads(d) ==
  /\ flow[d] # None /\ flow[d].candidate # None /\ flow[d].text = None
  /\ Serves(d, [flow[d] EXCEPT !.text = candidates[flow[d].candidate].text])
  /\ UNCHANGED <<projection, publisher, stated, confirmations, draft, verified, candidates, recorded>>

\* The attributes that were read are written back with the locator; a request
\* that is recorded already fails, and its transaction is undone.
BackflowRecords(d) ==
  /\ flow[d] # None /\ flow[d].text # None /\ d[1] \notin recorded
  /\ candidates' = [candidates EXCEPT ![flow[d].candidate] =
                      [op |-> d[1], fact |-> flow[d].fact, text |-> flow[d].text]]
  /\ recorded' = recorded \cup {d[1]}
  /\ Serves(d, None)
  /\ UNCHANGED <<projection, publisher, stated, confirmations, draft, verified>>

\* The request fails or the process stops, between any two of its steps.
BackflowStops(d) ==
  /\ flow[d] # None /\ Serves(d, None)
  /\ UNCHANGED <<projection, publisher, stated, confirmations, draft, verified, candidates, recorded>>

\* A maintainer edits a candidate's draft.
EditCandidate(n) ==
  /\ n \in DOMAIN candidates
  /\ candidates' = [candidates EXCEPT ![n].text = @ + 1]
  /\ UNCHANGED <<projection, publisher, stated, confirmations, draft, verified, recorded, flow>>

FactsStep ==
  \/ ProjectionReads \/ ProjectionWrites \/ ProjectionStops
  \/ \E c \in Criteria, role \in Roles :
       (\E hash \in 1..page : Confirm(c, hash, role)) \/ PublishVerified(c, role)
  \/ \E content \in 1..page : UpdateDraft(content)
  \/ \E d \in Operations \X Deliveries :
       \/ \E c \in Criteria : BackflowChecks(d, c)
       \/ BackflowCreates(d) \/ BackflowReads(d) \/ BackflowRecords(d) \/ BackflowStops(d)
  \/ \E n \in DOMAIN candidates : EditCandidate(n)

-----------------------------------------------------------------------------
(* Properties. *)

Flows == [fact : Fact, candidate : Nat \cup {None}, text : Nat \cup {None}]

FactsTypeOK ==
  /\ projection = None \/ projection \in [Criteria -> Fact]
  /\ publisher = None \/ publisher \in [Artifacts -> Hashes \cup {None}]
  /\ stated \subseteq Fact /\ draft \in Hashes /\ recorded \subseteq Operations
  /\ confirmations \subseteq [criterion : Criteria, hash : Hashes, role : Roles]
  /\ verified \subseteq confirmations
  /\ candidates \in Seq([op : Operations, fact : Fact \cup {None}, text : Nat])
  /\ flow \in [Operations \X Deliveries -> Flows \cup {None}]

\* A revision is published as verified only of a content that somebody
\* confirmed in that role, that the evaluator passed when the content was the
\* one bound to the artifact its row cites, and that is bound in the manifest:
\* however the page, the report, the manifest, the projection and the draft
\* change between those steps.
VerifiedWasJudged ==
  /\ FactsTypeOK
  /\ \A v \in verified :
       /\ [criterion |-> v.criterion, verdict |-> "pass", hash |-> v.hash] \in stated
       /\ \E b \in Range(manifest) : b.hash = v.hash

\* A backflow request leaves one candidate however often it is delivered and
\* wherever it stopped, and a recorded one names in it a fact that did not pass.
BackflowsOnce ==
  \A op \in Operations :
    /\ Cardinality(CandidateOf(op)) <= 1
    /\ op \in recorded =>
         \E n \in CandidateOf(op) :
           candidates[n].fact \in stated /\ candidates[n].fact.verdict # "pass"

=============================================================================
