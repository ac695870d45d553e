------------------------------ MODULE Contract ------------------------------
(***************************************************************************)
(* The contract of a project, the log of the user's decisions about its    *)
(* fields, the snapshot a run binds of both (contract_v1.py), and what     *)
(* gate G7 says of the two later (g7_contract_drift.py).                   *)
(*                                                                         *)
(* A hash is the content it is computed from. Provenance, notes and        *)
(* rationales are left out; a changelog is named by its last entry.        *)
(***************************************************************************)
EXTENDS Integers, Sequences, FiniteSets, SequencesExt

CONSTANTS
  Fields, Values,
  DecisionIds,  \* ids the callers give to decisions
  MaxPromotions,  \* bound: entries of changelogs
  None,         \* no file, no row
  Torn          \* a file whose writer stopped half way: it does not parse

Resolutions == {"decided", "assumed", "open"}
Entries     == [value : Values, resolution : Resolutions]
FieldSets   == UNION {[F -> Entries] : F \in (SUBSET Fields) \ {{}}}
Contracts   == [fields : FieldSets, changelog : 1..MaxPromotions]
Decisions   == [id : DecisionIds, field : Fields, decision : Values,
                supersedes : DecisionIds \cup {None}]

ASSUME ContractAssumption ==
  /\ MaxPromotions \in Nat
  /\ None # Torn /\ {None, Torn} \cap Contracts = {} /\ None \notin Decisions

VARIABLES
  contract,  \* contract.json of the project
  log,       \* decisions.jsonl of the project
  bound,     \* contract-bind.json of the run
  held,      \* the contract an agent read and will pass as existing
  pending,   \* a decision whose id was checked and that is not yet appended
  promotions \* entries written to changelogs so far

contractVars == <<contract, log, bound, held, pending, promotions>>

ContractInit ==
  /\ contract = None /\ log = <<>> /\ bound = None
  /\ held = None /\ pending = None /\ promotions = 0

--------------------------------------------------------------------------------
(* Contracts and decisions *)

\* The rows that no row supersedes, and those of them about one field.
Active(rows) == {i \in DOMAIN rows : \A j \in DOMAIN rows : rows[j].supersedes # rows[i].id}
About(rows, f) == {i \in Active(rows) : rows[i].field = f}

\* The decision in force for each field: the last active one.
Latest(rows) ==
  [f \in {rows[i].field : i \in Active(rows)} |->
     rows[CHOOSE i \in About(rows, f) : \A j \in About(rows, f) : j <= i]]

\* Decisions are applied to the fields of a contract, and to nothing else.
Applies(fields, rows) == DOMAIN Latest(rows) \subseteq DOMAIN fields

Effective(fields, rows) ==
  [f \in DOMAIN fields |->
    IF f \in DOMAIN Latest(rows)
      THEN [value |-> Latest(rows)[f].decision, resolution |-> "decided"]
      ELSE fields[f]]

\* The contract can be read and its decisions apply to it.
Usable == contract \notin {None, Torn} /\ Applies(contract.fields, log)

\* An agent reads the contract before it proposes fields.
ReadContract ==
  /\ contract # Torn
  /\ held' = contract
  /\ UNCHANGED <<contract, log, bound, pending, promotions>>

\* Faulty variant: a proposal may come with any resolution.
PromotesAnything(fields) == TRUE

\* A proposal never decides: only the user does.
MayPromote(fields) == \A f \in DOMAIN fields : fields[f].resolution # "decided"

\* The proposed fields, and the old ones beside them.
Merged(fields, old) ==
  [f \in DOMAIN fields \cup DOMAIN old |-> IF f \in DOMAIN fields THEN fields[f] ELSE old[f]]

\* Fields are merged into the contract the caller has read, or into none, and
\* the file is replaced by the result. It is not written atomically.
PromoteFields(fields, existing, stops) ==
  /\ MayPromote(fields) /\ promotions < MaxPromotions
  /\ existing \in {None, held}
  /\ LET old == IF existing = None THEN <<>> ELSE existing.fields
     IN contract' = IF stops THEN Torn
                    ELSE [fields |-> Merged(fields, old), changelog |-> promotions + 1]
  /\ promotions' = promotions + 1
  /\ UNCHANGED <<log, bound, held, pending>>

\* append_decision reads the log and checks the ids ...
CheckDecision(d) ==
  /\ pending = None
  /\ \A i \in DOMAIN log : log[i].id # d.id
  /\ d.supersedes # None => \E i \in DOMAIN log : log[i].id = d.supersedes
  /\ pending' = d
  /\ UNCHANGED <<contract, log, bound, held, promotions>>

\* ... and appends: another process may have appended in between.
AppendPending ==
  /\ pending # None
  /\ log' = Append(log, pending) /\ pending' = None
  /\ UNCHANGED <<contract, bound, held, promotions>>

\* A whole append_decision of another process.
AppendDecision(d) ==
  /\ \A i \in DOMAIN log : log[i].id # d.id
  /\ d.supersedes # None => \E i \in DOMAIN log : log[i].id = d.supersedes
  /\ log' = Append(log, d)
  /\ UNCHANGED <<contract, bound, held, pending, promotions>>

--------------------------------------------------------------------------------
(* Binding *)

WithResolution(fields, r) == {f \in DOMAIN fields : fields[f].resolution = r}

\* The snapshot of the effective contract: it is written whether or not the
\* unresolved fields block the run. The caller names the assumed fields it
\* acknowledges and those whose source has changed.
Snapshot(acks, drifted) ==
  LET fields  == Effective(contract.fields, log)
      open    == WithResolution(fields, "open")
      assumed == WithResolution(fields, "assumed")
      stale   == drifted \cap DOMAIN fields
  IN [fields |-> fields, changelog |-> contract.changelog, log |-> log, open |-> open, assumed |-> assumed, stale |-> stale,
      ok |-> open \cup (assumed \ acks) \cup stale = {}]

BindFirst(acks, drifted, stops) ==
  /\ Usable
  /\ bound' = IF stops THEN Torn ELSE Snapshot(acks, drifted)
  /\ UNCHANGED <<contract, log, held, pending, promotions>>

\* The lists a snapshot claims a field for twice.
Conflicts(snap) ==
  (snap.open \cap snap.assumed) \cup (snap.open \cap snap.stale)
    \cup (snap.assumed \cap snap.stale)

BindState ==
  CASE bound = None -> "missing"
    [] bound = Torn -> "partial-write"
    [] OTHER -> IF Conflicts(bound) # {} THEN "conflicting-resolution" ELSE "complete"

--------------------------------------------------------------------------------
(* Gate G7 *)

Now == Effective(contract.fields, log)

\* The fields whose entry differs between the snapshot and now.
Changed ==
  {f \in DOMAIN bound.fields \cup DOMAIN Now :
     \/ f \notin DOMAIN bound.fields \cap DOMAIN Now
     \/ bound.fields[f] # Now[f]}

\* Faulty variant: a row of the log is enough.
CoveredByRow(f) == \E i \in DOMAIN log : log[i].field = f

\* A changed field is decided now, and a row of the log is about it.
Covered(f) ==
  /\ f \in DOMAIN Now /\ Now[f].resolution = "decided"
  /\ \E i \in DOMAIN log : log[i].field = f

RepeatsId == \E i, j \in DOMAIN log : i # j /\ log[i].id = log[j].id

DriftFindings ==
  IF Changed = {}
    THEN (IF contract.changelog # bound.changelog THEN {"G7.contract_sha_mismatch"} ELSE {})
         \cup (IF log # bound.log THEN {"G7.decision_log_mismatch"} ELSE {})
    ELSE (IF \A f \in Changed : Covered(f) THEN {} ELSE {"G7.unrecorded_field_change"})
         \cup (IF log = bound.log THEN {"G7.decision_log_mismatch"} ELSE {})
         \cup (IF RepeatsId THEN {"G7.non_append_history"} ELSE {})

CheckG7 ==
  CASE BindState = "conflicting-resolution" -> {"G7.conflicting_resolution"}
    [] BindState \in {"missing", "partial-write"} -> {"G7.missing_binding"}
    [] BindState = "complete" /\ ~Usable -> {"G7.unsupported_version"}
    [] BindState = "complete" /\ Usable -> DriftFindings

ContractNext ==
  \/ ReadContract \/ AppendPending
  \/ \E fields \in FieldSets, existing \in {None, held}, stops \in BOOLEAN :
       PromoteFields(fields, existing, stops)
  \/ \E d \in Decisions : CheckDecision(d) \/ AppendDecision(d)
  \/ \E acks \in SUBSET Fields, drifted \in SUBSET Fields, stops \in BOOLEAN :
       BindFirst(acks, drifted, stops)

--------------------------------------------------------------------------------
(* What is expected *)

ContractTypeOK ==
  /\ contract \in Contracts \cup {None, Torn}
  /\ \A i \in DOMAIN log : log[i] \in Decisions
  /\ bound \in {None, Torn} \/ bound.fields \in FieldSets
  /\ held \in Contracts \cup {None}
  /\ pending \in Decisions \cup {None}

\* While G7 has nothing to say, every field of the contract that is not as it
\* was bound has the value of a decision of the user that is in force,
\* whatever was promoted over older readings, superseded or appended at once
\* (g7_contract_drift.py, "Changed fields require matching decision IDs").
NothingUnconfirmed ==
  (BindState = "complete" /\ CheckG7 = {}) =>
    \A f \in Changed :
      /\ f \in DOMAIN Now /\ f \in DOMAIN Latest(log)
      /\ Now[f].value = Latest(log)[f].decision
=============================================================================
