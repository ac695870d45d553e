------------------------------ MODULE RunReview ------------------------------
(***************************************************************************)
(* The review of a run: an evaluator writes a point-back, the complete     *)
(* profile of validate_run.py accepts or refuses it, run status projects   *)
(* the next action, and the agent repairs what was found, at most twice,   *)
(* before the user is asked. It composes the project contract (Contract)   *)
(* and the design baseline (DesignBaseline), which change meanwhile.       *)
(*                                                                         *)
(* A point-back is what the gates read of it. Left out: the preview gate   *)
(* G5, coverage, dimensions, shaping, decisions and reference contract,    *)
(* the optional repair pairs, the routes R2-line and R5, which G12 treats  *)
(* as R4, and everything that only looks at the form of a field.           *)
(***************************************************************************)
EXTENDS Contract, DesignBaseline, FiniteSetsExt

CONSTANTS
  Findings, Criteria, Artifacts,
  ProductFields,   \* fields l1.*
  CriterionFields  \* fields l6.cN

Tiers  == 1..3
Routes == {"R1", "R2-structural", "R3", "R4"}
Reports ==
  [audited : {"none", "true", "false", "ambiguous"}, verdict : {"pass", "recirculate", "none"},
   close : {"none", "pass", "escalated-stop"}, result : [Criteria -> {"pass", "fail", "none"}],
   observed : [Criteria -> Artifacts \cup {None}],
   kind : [Findings -> {"none", "blocking", "advisory"}], closes : [Findings -> 0..2],
   rounds : [Findings -> Nat], routes : SUBSET Routes]

ASSUME ReviewAssumption == None \notin Reports /\ None \notin BOOLEAN

VARIABLES
  report,    \* point-back.md
  manifest,  \* evidence/manifest.jsonl: the latest binding of each artifact
  profile,   \* run-profile of plan.md: tier declared, tiers recorded, the last
  captured,  \* what a validation read of the baseline, while it runs
  accepted,  \* the last validation accepted the report as it is
  defects,   \* what is wrong with the user interface
  known,     \* findings that were reported before
  survived,  \* repairs each of them has survived
  fresh      \* the report was written since the last repair

reviewVars ==
  <<report, manifest, profile, captured, accepted, defects, known, survived, fresh>>

Layer  == [r \in Routes |-> CASE r = "R1" -> 1 [] r = "R2-structural" -> 2
                              [] r = "R3" -> 3 [] r = "R4" -> 4]

ReviewInit ==
  /\ report = None /\ manifest = [a \in Artifacts |-> None]
  /\ \E t \in Tiers : profile = [declared |-> t, recorded |-> {}, reached |-> t]
  /\ captured = None /\ accepted = FALSE
  /\ defects \in SUBSET Findings
  /\ known = {} /\ survived = [f \in Findings |-> 0] /\ fresh = FALSE

--------------------------------------------------------------------------------
(* What the gates say of a report *)

Blocking(r) == {f \in Findings : r.kind[f] = "blocking"}

\* Exactly one closure names the finding.
Closed(r, f) == r.closes[f] = 1

\* G2: a verdict, and a row for each criterion that bears it out.
RowsHold(r) ==
  /\ r.verdict # "none"
  /\ \A c \in Criteria : r.result[c] # "none"
  /\ r.verdict = "pass" => \A c \in Criteria : r.result[c] = "pass"

\* G2, G3: without a finding there is nothing but a Pass.
FindingsHold(r) == (\A f \in Findings : r.kind[f] = "none") => r.verdict = "pass"

\* G4: a Pass closes every blocking finding and nothing else.
ClosuresHold(r) ==
  (r.verdict = "pass" /\ Blocking(r) # {}) =>
    /\ \A f \in Blocking(r) : Closed(r, f)
    /\ \A f \in Findings \ Blocking(r) : r.closes[f] = 0

CheckPointback(r) == RowsHold(r) /\ FindingsHold(r) /\ ClosuresHold(r)

\* Faulty variant: the stop is asked for one round late.
StoppingLate(r) == {f \in Blocking(r) : r.rounds[f] > 2 /\ ~Closed(r, f)}

\* G4 rounds: the blocking findings that survived two repairs and are open.
Stopping(r) == {f \in Blocking(r) : r.rounds[f] >= 2 /\ ~Closed(r, f)}

CheckRounds(r) ==
  (r.close # "none" \/ \E f \in Findings : r.kind[f] # "none" /\ r.rounds[f] > 0) =>
    /\ Stopping(r) # {} <=> r.close = "escalated-stop"
    /\ ~(r.verdict = "pass" /\ r.close = "escalated-stop")

\* The complete profile refuses a report that was not audited.
AuditMarker(r) == r.audited \notin {"false", "ambiguous"}

\* G6: some row cites evidence, and what a row cites is bound to its criterion.
CheckEvidence(r) ==
  /\ \E c \in Criteria : r.observed[c] # None
  /\ \A c \in Criteria : r.observed[c] # None => manifest[r.observed[c]] = c

--------------------------------------------------------------------------------
(* G12: the tier of the run against what it touched *)

NoTouch == [added |-> {}, removed |-> {}, revised |-> {}]

\* The fields that differ from the bound ones, when both can be read.
Touch ==
  IF BindState # "complete" \/ ~Usable THEN NoTouch
  ELSE LET was == DOMAIN bound.fields
           is  == DOMAIN Now
       IN [added |-> is \ was, removed |-> was \ is,
           revised |-> {f \in was \cap is : bound.fields[f] # Now[f]}]

ProductChanges == (Touch.added \cup Touch.revised) \cap ProductFields

\* The run has more criteria than were bound.
AddsCriteria ==
  /\ BindState = "complete" /\ Usable
  /\ Cardinality(Criteria) > Cardinality(CriterionFields \cap DOMAIN bound.fields)

\* Faulty variant: product fields are like any other.
CoveringWithoutProduct(r) ==
  Max({1} \cup (IF Touch.added # {} THEN {2} ELSE {})
          \cup (IF Touch.revised \cup Touch.removed # {} THEN {3} ELSE {})
          \cup (IF r.routes \ {"R4"} # {} THEN {2} ELSE {})
          \cup (IF "R3" \in r.routes THEN {3} ELSE {})
          \cup (IF Cardinality(Blocking(r)) > 1 \/ AddsCriteria THEN {2} ELSE {}))

\* The lowest tier that may do what was done.
Covering(r) ==
  Max({1} \cup (IF Touch.added # {} THEN {2} ELSE {})
          \cup (IF Touch.revised \cup Touch.removed \cup ProductChanges # {} THEN {3} ELSE {})
          \cup (IF r.routes \ {"R4"} # {} THEN {2} ELSE {})
          \cup (IF "R3" \in r.routes THEN {3} ELSE {})
          \cup (IF Cardinality(Blocking(r)) > 1 \/ AddsCriteria THEN {2} ELSE {}))

\* Something was done that the tier does not allow.
Exceeds(tier, r) ==
  \/ tier = 2 /\ Touch.revised \cup Touch.removed \cup ProductChanges # {}
  \/ tier = 1 /\ \/ Touch # NoTouch
                 \/ r.routes \ {"R4"} # {}
                 \/ Cardinality(Blocking(r)) > 1
                 \/ AddsCriteria

\* The tiers the signals E1 to E6 ask for. The routes are those of one finding.
Required(r) ==
  (IF "R1" \in r.routes THEN {IF Touch.revised # {} THEN 3 ELSE 2} ELSE {})
  \cup (IF "R2-structural" \in r.routes THEN {2} ELSE {})
  \cup (IF "R3" \in r.routes THEN {3} ELSE {})
  \cup (IF Blocking(r) # {} /\ Cardinality({Layer[x] : x \in r.routes}) > 1 THEN {2} ELSE {})
  \cup (IF Exceeds(profile.declared, r) THEN {Covering(r)} ELSE {})
  \cup profile.recorded

CheckTier(r) == \A t \in Required(r) : t <= profile.reached

--------------------------------------------------------------------------------
(* Acceptance and status *)

\* A run without a state has no obligation; a waiver or a binding must hold.
BaselineGate == state = Nothing \/ Verified

\* The gates over the report and its evidence.
ReportGates(r) == CheckPointback(r) /\ AuditMarker(r) /\ CheckRounds(r) /\ CheckEvidence(r)

\* Those, and what the run did to the contract of the project.
Gates(r) == ReportGates(r) /\ CheckG7 = {} /\ CheckTier(r)

Accepts == report # None /\ Gates(report) /\ BaselineGate

\* The state of the baseline as status reads it: it verifies nothing.
BaselineOpen == state # Nothing /\ state.status \notin {"ready", "waived"}

\* Faulty variant: the verdict is looked at before the stop.
VerdictFirst ==
  IF BaselineOpen THEN "resolve-design-baseline"
  ELSE IF report = None THEN "resume"
  ELSE IF report.audited = "false" THEN "audit"
  ELSE IF report.audited = "ambiguous" THEN "repair-marker"
  ELSE IF report.verdict = "pass" THEN "stop-after-pass"
  ELSE IF report.verdict = "recirculate" THEN "repair"
  ELSE IF report.close = "escalated-stop" THEN "disposition"
  ELSE "confirm-verdict"

\* The next action run status projects.
NextAction ==
  IF BaselineOpen THEN "resolve-design-baseline"
  ELSE IF report = None THEN "resume"
  ELSE IF report.audited = "false" THEN "audit"
  ELSE IF report.audited = "ambiguous" THEN "repair-marker"
  ELSE IF report.close = "escalated-stop" THEN "disposition"
  ELSE IF report.verdict = "pass" THEN "stop-after-pass"
  ELSE IF report.verdict = "recirculate" THEN "repair"
  ELSE "confirm-verdict"

\* The integrity a continuation of the run reports of the bound contract.
Integrity ==
  CASE BindState = "conflicting-resolution" -> "inconsistent"
    [] BindState = "partial-write" -> "partial"
    [] BindState = "complete" /\ bound.stale # {} -> "stale"
    [] OTHER -> "current"

--------------------------------------------------------------------------------
(* The evaluator, the validator, the agent and the user *)

\* What an evaluator that misses nothing writes of the user interface.
Honest(evidence) ==
  [audited |-> "true",
   verdict |-> IF defects = {} THEN "pass" ELSE "recirculate",
   close |-> IF \E f \in defects : survived[f] >= 2 THEN "escalated-stop" ELSE "none",
   result |-> [c \in Criteria |-> IF defects = {} THEN "pass" ELSE "fail"],
   observed |-> evidence,
   kind |-> [f \in Findings |-> IF f \in defects \cup known THEN "blocking" ELSE "none"],
   closes |-> [f \in Findings |-> IF f \in known \ defects THEN 1 ELSE 0],
   rounds |-> survived, routes |-> {}]

\* The reports that differ from r in one field: everything but the rounds.
Slips(r) ==
  {[r EXCEPT !.audited = m] : m \in {"none", "true", "false", "ambiguous"}}
  \cup {[r EXCEPT !.verdict = v] : v \in {"pass", "recirculate", "none"}}
  \cup {[r EXCEPT !.close = k] : k \in {"none", "pass", "escalated-stop"}}
  \cup {[r EXCEPT !.result[c] = s] : c \in Criteria, s \in {"pass", "fail", "none"}}
  \cup {[r EXCEPT !.kind[f] = k] : f \in Findings, k \in {"none", "blocking", "advisory"}}
  \cup {[r EXCEPT !.closes[f] = n] : f \in Findings, n \in 0..2}
  \cup {[r EXCEPT !.routes = s] : s \in {{x} : x \in Routes} \cup {{"R1", "R4"}}}

Review(r) ==
  /\ captured = None
  /\ r # report \/ ~fresh
  /\ report' = r /\ accepted' = FALSE /\ fresh' = TRUE
  /\ known' = known \cup Blocking(r)
  /\ UNCHANGED <<manifest, profile, captured, defects, survived>>

CaptureEvidence(a, c) ==
  /\ captured = None
  /\ manifest' = [manifest EXCEPT ![a] = c]
  /\ UNCHANGED <<report, profile, captured, accepted, defects, known, survived, fresh>>

\* The validator captures the facts of the run, with the baseline verified ...
ValidateCaptures ==
  /\ report # None /\ captured = None
  /\ captured' = BaselineGate
  /\ UNCHANGED <<report, manifest, profile, accepted, defects, known, survived, fresh>>

\* ... and judges them, with the contract as it is by then.
ValidateJudges ==
  /\ captured # None
  /\ accepted' = (Gates(report) /\ captured)
  /\ captured' = None
  /\ UNCHANGED <<report, manifest, profile, defects, known, survived, fresh>>

\* The agent repairs when an accepted report, of an evaluation made since the
\* last repair, and the status ask for it. The repair removes some defects and
\* may bring others.
Repair ==
  /\ accepted /\ fresh /\ captured = None /\ NextAction = "repair"
  /\ defects' \in SUBSET Findings
  /\ survived' = [f \in Findings |->
       survived[f] + IF f \in defects' \cap Blocking(report) /\ ~Closed(report, f) THEN 1 ELSE 0]
  /\ accepted' = FALSE /\ fresh' = FALSE
  /\ UNCHANGED <<report, manifest, profile, captured, known>>

\* The user accepts the risk of a finding, or revises what it was judged by.
Dispose(f) ==
  /\ accepted /\ captured = None /\ NextAction = "disposition"
  /\ f \in Stopping(report)
  /\ defects' = defects \ {f} /\ accepted' = FALSE
  /\ \/ UNCHANGED <<known, survived>>
     \/ known' = known \ {f} /\ survived' = [survived EXCEPT ![f] = 0]
  /\ UNCHANGED <<report, manifest, profile, captured, fresh>>

\* The user records another tier, higher or lower.
Regrade(t) ==
  /\ captured = None
  /\ profile' = [profile EXCEPT !.recorded = @ \cup {t}, !.reached = t]
  /\ accepted' = FALSE
  /\ UNCHANGED <<report, manifest, captured, defects, known, survived, fresh>>

\* A run is bound before it is reviewed, by an evaluator that makes one mistake
\* at most and counts the rounds.
ReviewNext ==
  /\ bound # None
  /\ \/ \E evidence \in [Criteria -> Artifacts \cup {None}] :
          \E r \in {Honest(evidence)} \cup Slips(Honest(evidence)) : Review(r)
     \/ \E a \in Artifacts, c \in Criteria : CaptureEvidence(a, c)
     \/ ValidateCaptures \/ ValidateJudges \/ Repair
     \/ \E f \in Findings : Dispose(f)
     \/ \E t \in Tiers : Regrade(t)

\* Contract, baseline and review take their steps in any order.
RunInit == ContractInit /\ BaselineInit /\ ReviewInit
RunNext ==
  \/ ContractNext /\ UNCHANGED <<baselineVars, reviewVars>>
  \/ BaselineNext /\ UNCHANGED <<contractVars, reviewVars>>
  \/ ReviewNext /\ UNCHANGED <<contractVars, baselineVars>>
RunSpec == RunInit /\ [][RunNext]_<<contractVars, baselineVars, reviewVars>>

--------------------------------------------------------------------------------
(* What is expected *)

ReviewTypeOK ==
  /\ report \in Reports \cup {None}
  /\ manifest \in [Artifacts -> Criteria \cup {None}]
  /\ profile.declared \in Tiers /\ profile.reached \in Tiers
  /\ captured \in BOOLEAN \cup {None} /\ accepted \in BOOLEAN

\* The files of the three parts are well formed, and no field of the contract
\* changed under G7 without a decision of the user (check_g7).
Wellformed == ContractTypeOK /\ BaselineTypeOK /\ ReviewTypeOK /\ NothingUnconfirmed

\* A finding is repaired twice at most before the user is asked, as long as
\* the agent repairs on accepted reports only and the rounds are counted
\* (repair_rounds.py, "the stop is mandatory").
TwoRounds == \A f \in Findings : survived[f] <= 2

\* What is accepted was within the tier the run declared or reached, whichever
\* is higher: covering_tier, the signals and the faces are tables of their own.
WithinTier ==
  Accepts => ~Exceeds(Max({profile.declared, profile.reached}), report)

\* What the complete profile accepts, status reads in the same way: a run ends
\* exactly on a Pass without an open blocking finding, asks the user exactly
\* when a finding survived two rounds, and is repaired otherwise; and its
\* bound contract is readable, with no field changed under G7 without the user,
\* and what it accepts stays within the tier (validate_run.py, status_projection.py and
\* run_continuation.py each read the files for themselves).
StatusAgrees ==
  /\ Wellformed /\ WithinTier
  /\ Accepts =>
       /\ NextAction = "stop-after-pass" <=> report.verdict = "pass"
       /\ NextAction = "disposition" <=> Stopping(report) # {}
       /\ NextAction \in {"stop-after-pass", "disposition", "repair"}
       /\ NextAction = "stop-after-pass" => \A f \in Blocking(report) : Closed(report, f)
       /\ Integrity \in {"current", "stale"}

=============================================================================
