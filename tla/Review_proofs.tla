---------------------------- MODULE Review_proofs ----------------------------
(***************************************************************************)
(* What is reviewed before it counts. What a run promises, for every       *)
(* number of fields, decisions, findings, criteria and components, and     *)
(* every order of promotions, decisions, bindings, edits, stops, reviews   *)
(* and repairs; and what the application of a source proposal promises, for *)
(* every set of paths, contents, proposals and request threads, and every  *)
(* bound. The two share no state.                                          *)
(***************************************************************************)
EXTENDS RunReview, ProposalApply, WellFoundedInduction, TLAPS

-----------------------------------------------------------------------------
(* The contract. What people propose is never decided; only the log is.    *)

Undecided(fields) == \A f \in DOMAIN fields : fields[f].resolution # "decided"

ContractInv ==
  /\ contract \in Contracts \cup {None, Torn} /\ held \in Contracts \cup {None}
  /\ contract \notin {None, Torn} => Undecided(contract.fields)
  /\ held # None => Undecided(held.fields)
  /\ log \in Seq(Decisions) /\ pending \in Decisions \cup {None}
  /\ bound \in {None, Torn} \/ bound.fields \in FieldSets
  /\ promotions \in 0 .. MaxPromotions

-----------------------------------------------------------------------------
(* Numbers: a set of positions has a last one.                             *)

Less == {ss \in Nat \X Nat : ss[1] < ss[2]}

LEMMA LessIsWellFounded == IsWellFoundedOn(Less, Nat)
BY NatLessThanWellFounded DEF OpToRel, Less

LEMMA HasLast ==
  ASSUME NEW n \in Nat, NEW T \in SUBSET (1 .. n), T # {}
  PROVE  \E i \in T : \A j \in T : j <= i
<1> DEFINE U == {n - i : i \in T}
<1>1. U \subseteq Nat
  <2> SUFFICES ASSUME NEW i \in T PROVE n - i \in Nat
    OBVIOUS
  <2> QED
    OBVIOUS
<1>2. U # {}
  OBVIOUS
<1> HIDE DEF U
<1>3. PICK u \in U : \A v \in U : ~(<<v, u>> \in Less)
  BY <1>1, <1>2, LessIsWellFounded, WFMin
<1>4. ASSUME NEW v \in U PROVE u <= v
  <2>1. u \in Nat /\ v \in Nat /\ <<v, u>> \notin Less
    BY <1>1, <1>3
  <2> QED
    BY <2>1 DEF Less
<1>5. PICK i \in T : u = n - i
  BY DEF U
<1>6. ASSUME NEW j \in T PROVE j <= i
  <2>1. u <= n - j
    BY <1>4 DEF U
  <2> QED
    BY <1>5, <2>1
<1> QED
  BY <1>6

-----------------------------------------------------------------------------
(* The contract. *)

LEMMA FieldSetIs ==
  ASSUME NEW fields
  PROVE  fields \in FieldSets <=>
           /\ DOMAIN fields \subseteq Fields /\ DOMAIN fields # {}
           /\ fields = [f \in DOMAIN fields |-> fields[f]]
           /\ \A f \in DOMAIN fields : fields[f] \in Entries
<1>1. ASSUME fields \in FieldSets
      PROVE  /\ DOMAIN fields \subseteq Fields /\ DOMAIN fields # {}
             /\ fields = [f \in DOMAIN fields |-> fields[f]]
             /\ \A f \in DOMAIN fields : fields[f] \in Entries
  <2>1. PICK F \in (SUBSET Fields) \ {{}} : fields \in [F -> Entries]
    BY <1>1 DEF FieldSets
  <2> QED
    BY <2>1
<1>2. ASSUME DOMAIN fields \subseteq Fields, DOMAIN fields # {},
             fields = [f \in DOMAIN fields |-> fields[f]],
             \A f \in DOMAIN fields : fields[f] \in Entries
      PROVE  fields \in FieldSets
  <2>1. fields \in [DOMAIN fields -> Entries]
    BY <1>2
  <2> QED
    BY <1>2, <2>1 DEF FieldSets
<1> QED
  BY <1>1, <1>2

\* The decision in force for a field is one of the log.
LEMMA LatestIs ==
  ASSUME NEW rows \in Seq(Decisions), NEW f \in DOMAIN Latest(rows)
  PROVE  Latest(rows)[f] \in Decisions
<1> DEFINE last == CHOOSE i \in About(rows, f) : \A j \in About(rows, f) : j <= i
<1>1. f \in {rows[i].field : i \in Active(rows)} /\ Latest(rows)[f] = rows[last]
  BY DEF Latest
<1>2. About(rows, f) # {} /\ About(rows, f) \in SUBSET (1 .. Len(rows))
  BY <1>1 DEF About, Active
<1>3. Len(rows) \in Nat
  OBVIOUS
<1>4. \E i \in About(rows, f) : \A j \in About(rows, f) : j <= i
  BY <1>2, <1>3, HasLast
<1>5. last \in About(rows, f)
  BY <1>4
<1> HIDE DEF last
<1>6. last \in DOMAIN rows
  BY <1>2, <1>5
<1> QED
  BY <1>1, <1>6

LEMMA EffectiveIs ==
  ASSUME NEW fields \in FieldSets, NEW rows \in Seq(Decisions)
  PROVE  Effective(fields, rows) \in FieldSets
<1>1. DOMAIN Effective(fields, rows) = DOMAIN fields
  BY DEF Effective
<1>2. ASSUME NEW f \in DOMAIN fields PROVE Effective(fields, rows)[f] \in Entries
  <2>1. CASE f \in DOMAIN Latest(rows)
    <3>1. Latest(rows)[f].decision \in Values
      BY <2>1, LatestIs DEF Decisions
    <3>2. Effective(fields, rows)[f] = [value |-> Latest(rows)[f].decision, resolution |-> "decided"]
      BY <2>1 DEF Effective
    <3> QED
      BY <3>1, <3>2 DEF Entries, Resolutions
  <2>2. CASE f \notin DOMAIN Latest(rows)
    BY <2>2, FieldSetIs DEF Effective
  <2> QED
    BY <2>1, <2>2
<1>3. Effective(fields, rows) = [f \in DOMAIN Effective(fields, rows) |-> Effective(fields, rows)[f]]
  BY DEF Effective
<1> QED
  BY <1>1, <1>2, <1>3, FieldSetIs

LEMMA MergedIs ==
  ASSUME NEW fields \in FieldSets, NEW old, old = <<>> \/ old \in FieldSets,
         Undecided(fields), old \in FieldSets => Undecided(old)
  PROVE  Merged(fields, old) \in FieldSets /\ Undecided(Merged(fields, old))
<1> DEFINE all == Merged(fields, old)
<1>1. /\ DOMAIN all = DOMAIN fields \cup DOMAIN old
      /\ all = [f \in DOMAIN all |-> all[f]]
      /\ \A f \in DOMAIN all : all[f] = IF f \in DOMAIN fields THEN fields[f] ELSE old[f]
  BY DEF Merged
<1>2. DOMAIN old \subseteq Fields /\ \A f \in DOMAIN old : old[f] \in Entries /\ old[f].resolution # "decided"
  <2>1. CASE old = <<>>
    BY <2>1
  <2>2. CASE old \in FieldSets
    BY <2>2, FieldSetIs DEF Undecided
  <2> QED
    BY <2>1, <2>2
<1>3. /\ DOMAIN fields \subseteq Fields /\ DOMAIN fields # {}
      /\ \A f \in DOMAIN fields : fields[f] \in Entries /\ fields[f].resolution # "decided"
  BY FieldSetIs DEF Undecided
<1> HIDE DEF all
<1>4. \A f \in DOMAIN all : all[f] \in Entries /\ all[f].resolution # "decided"
  BY <1>1, <1>2, <1>3
<1>5. all \in FieldSets
  BY <1>1, <1>2, <1>3, <1>4, FieldSetIs
<1> QED
  BY <1>4, <1>5 DEF all, Undecided

LEMMA ContractStarts == ContractInit => ContractInv
BY ContractAssumption DEF ContractInit, ContractInv

\* A merge is of undecided fields, a binding of the effective ones.
LEMMA ContractSteps ==
  ContractInv /\ [ContractNext]_contractVars => ContractInv'
<1> SUFFICES ASSUME ContractInv, [ContractNext]_contractVars PROVE ContractInv'
  OBVIOUS
<1> USE ContractAssumption
<1>1. CASE ReadContract
  BY <1>1 DEF ContractInv, ReadContract
<1>2. CASE AppendPending
  <2>1. pending \in Decisions /\ log' = Append(log, pending) /\ log \in Seq(Decisions)
    BY <1>2 DEF ContractInv, AppendPending
  <2>2. log' \in Seq(Decisions)
    BY <2>1
  <2> QED
    BY <1>2, <2>2 DEF ContractInv, AppendPending
<1>3. ASSUME NEW fields \in FieldSets, NEW existing \in {None, held}, NEW stops \in BOOLEAN,
             PromoteFields(fields, existing, stops)
      PROVE  ContractInv'
  <2> DEFINE old == IF existing = None THEN <<>> ELSE existing.fields
  <2>1. /\ old = <<>> \/ old \in FieldSets
        /\ old \in FieldSets => old = <<>> \/ Undecided(old)
    BY DEF ContractInv, Contracts
  <2>2. Undecided(<<>>)
    BY DEF Undecided
  <2> HIDE DEF old
  <2>3. Undecided(fields)
    BY <1>3 DEF PromoteFields, MayPromote, Undecided
  <2>4. Merged(fields, old) \in FieldSets /\ Undecided(Merged(fields, old))
    BY <2>1, <2>2, <2>3, MergedIs
  <2>5. promotions + 1 \in 1 .. MaxPromotions
    BY <1>3 DEF PromoteFields, ContractInv
  <2>6. contract' \in {Torn, [fields |-> Merged(fields, old), changelog |-> promotions + 1]}
    BY <1>3 DEF PromoteFields, old
  <2>7. contract' \in Contracts \cup {None, Torn}
    BY <2>4, <2>5, <2>6 DEF Contracts
  <2>8. contract' \notin {None, Torn} => Undecided(contract'.fields)
    BY <2>4, <2>6
  <2> QED
    BY <1>3, <2>5, <2>7, <2>8 DEF PromoteFields, ContractInv
<1>4. ASSUME NEW d \in Decisions, CheckDecision(d) PROVE ContractInv'
  BY <1>4 DEF ContractInv, CheckDecision
<1>5. ASSUME NEW d \in Decisions, AppendDecision(d) PROVE ContractInv'
  <2>1. log' = Append(log, d) /\ log \in Seq(Decisions)
    BY <1>5 DEF ContractInv, AppendDecision
  <2>2. log' \in Seq(Decisions)
    BY <2>1
  <2> QED
    BY <1>5, <2>2 DEF ContractInv, AppendDecision
<1>6. ASSUME NEW acks \in SUBSET Fields, NEW drifted \in SUBSET Fields, NEW stops \in BOOLEAN,
             BindFirst(acks, drifted, stops)
      PROVE  ContractInv'
  <2>1. contract.fields \in FieldSets /\ log \in Seq(Decisions)
    BY <1>6 DEF BindFirst, Usable, ContractInv, Contracts
  <2>2. Snapshot(acks, drifted).fields \in FieldSets
    BY <2>1, EffectiveIs DEF Snapshot
  <2>3. bound' \in {None, Torn} \/ bound'.fields \in FieldSets
    BY <1>6, <2>2 DEF BindFirst
  <2> QED
    BY <1>6, <2>3 DEF BindFirst, ContractInv
<1>7. CASE UNCHANGED contractVars
  BY <1>7 DEF contractVars, ContractInv
<1> QED
  BY <1>1, <1>2, <1>3, <1>4, <1>5, <1>6, <1>7 DEF ContractNext

\* A field whose decision G7 believes in is decided by the log.
LEMMA ContractHolds == ContractInv => ContractTypeOK /\ NothingUnconfirmed
<1> SUFFICES ASSUME ContractInv PROVE ContractTypeOK /\ NothingUnconfirmed
  OBVIOUS
<1>1. ContractTypeOK
  BY DEF ContractInv, ContractTypeOK
<1>2. ASSUME BindState = "complete", CheckG7 = {}, NEW f \in Changed
      PROVE  /\ f \in DOMAIN Now /\ f \in DOMAIN Latest(log)
             /\ Now[f].value = Latest(log)[f].decision
  <2>1. Usable /\ DriftFindings = {}
    BY <1>2 DEF CheckG7
  <2>2. f \in DOMAIN Now /\ Now[f].resolution = "decided"
    BY <1>2, <2>1 DEF DriftFindings, Covered
  <2>3. Undecided(contract.fields) /\ DOMAIN Now = DOMAIN contract.fields
    BY <2>1 DEF Usable, ContractInv, Now, Effective
  <2>4. f \in DOMAIN Latest(log)
    BY <2>2, <2>3 DEF Now, Effective, Undecided
  <2> QED
    BY <2>2, <2>3, <2>4 DEF Now, Effective
<1> QED
  BY <1>1, <1>2 DEF NothingUnconfirmed

-----------------------------------------------------------------------------
(* The reports, and the repairs they lead to. Of a report made since the    *)
(* last repair, the rounds are at least the repairs survived; so a repair  *)
(* an accepted report asks for is of a finding that survived one at most.  *)

ReviewInv ==
  /\ report \in Reports \cup {None}
  /\ manifest \in [Artifacts -> Criteria \cup {None}]
  /\ profile \in [declared : Tiers, recorded : SUBSET Tiers, reached : Tiers]
  /\ captured \in BOOLEAN \cup {None} /\ accepted \in BOOLEAN
  /\ defects \subseteq Findings /\ known \subseteq Findings
  /\ survived \in [Findings -> Nat] /\ TwoRounds
  /\ fresh => report # None /\ \A f \in Findings : survived[f] <= report.rounds[f]
  /\ captured # None => report # None
  /\ accepted => report # None /\ CheckRounds(report)

\* What an evaluator writes is a report that counts the rounds.
LEMMA HonestIs ==
  ASSUME ReviewInv, NEW evidence \in [Criteria -> Artifacts \cup {None}]
  PROVE  Honest(evidence) \in Reports /\ Honest(evidence).rounds = survived
BY DEF ReviewInv, Honest, Reports

LEMMA SlipsAre ==
  ASSUME NEW r \in Reports, NEW s \in Slips(r)
  PROVE  s \in Reports /\ s.rounds = r.rounds
<1>1. CASE \E m \in {"none", "true", "false", "ambiguous"} : s = [r EXCEPT !.audited = m]
  BY <1>1 DEF Reports
<1>2. CASE \E v \in {"pass", "recirculate", "none"} : s = [r EXCEPT !.verdict = v]
  BY <1>2 DEF Reports
<1>3. CASE \E k \in {"none", "pass", "escalated-stop"} : s = [r EXCEPT !.close = k]
  BY <1>3 DEF Reports
<1>4. CASE \E c \in Criteria, v \in {"pass", "fail", "none"} : s = [r EXCEPT !.result[c] = v]
  BY <1>4 DEF Reports
<1>5. CASE \E f \in Findings, k \in {"none", "blocking", "advisory"} : s = [r EXCEPT !.kind[f] = k]
  BY <1>5 DEF Reports
<1>6. CASE \E f \in Findings, n \in 0..2 : s = [r EXCEPT !.closes[f] = n]
  BY <1>6 DEF Reports
<1>7. CASE \E x \in {{x} : x \in Routes} \cup {{"R1", "R4"}} : s = [r EXCEPT !.routes = x]
  <2>1. PICK x \in {{y} : y \in Routes} \cup {{"R1", "R4"}} : s = [r EXCEPT !.routes = x]
    BY <1>7
  <2>2. x \in SUBSET Routes
    BY DEF Routes
  <2> QED
    BY <2>1, <2>2 DEF Reports
<1> QED
  BY <1>1, <1>2, <1>3, <1>4, <1>5, <1>6, <1>7 DEF Slips

LEMMA ReviewStarts == ReviewInit => ReviewInv
<1> SUFFICES ASSUME ReviewInit PROVE ReviewInv
  OBVIOUS
<1>1. PICK t \in Tiers : profile = [declared |-> t, recorded |-> {}, reached |-> t]
  BY DEF ReviewInit
<1>2. profile \in [declared : Tiers, recorded : SUBSET Tiers, reached : Tiers]
  BY <1>1
<1>3. survived \in [Findings -> Nat] /\ TwoRounds
  BY DEF ReviewInit, TwoRounds
<1> QED
  BY <1>2, <1>3 DEF ReviewInit, ReviewInv

LEMMA ReviewSteps ==
  ReviewInv /\ [ReviewNext]_reviewVars => ReviewInv'
<1> SUFFICES ASSUME ReviewInv, [ReviewNext]_reviewVars PROVE ReviewInv'
  OBVIOUS
<1> USE ReviewAssumption
<1>1. ASSUME NEW evidence \in [Criteria -> Artifacts \cup {None}],
             NEW r \in {Honest(evidence)} \cup Slips(Honest(evidence)), Review(r)
      PROVE  ReviewInv'
  <2>1. r \in Reports /\ r.rounds = survived
    BY HonestIs, SlipsAre
  <2>2. Blocking(r) \subseteq Findings
    BY DEF Blocking
  <2>3. r # None
    BY <2>1
  <2>4. \A f \in Findings : survived[f] <= survived[f]
    BY DEF ReviewInv
  <2>5. UNCHANGED <<manifest, profile, captured, defects, survived>> /\ captured = None
    BY <1>1 DEF Review
  <2>6. report' = r /\ accepted' = FALSE /\ known' \subseteq Findings
    BY <1>1, <2>2 DEF Review, ReviewInv
  <2>7. report'.rounds = survived'
    BY <2>1, <2>5, <2>6
  <2> QED
    BY <2>1, <2>3, <2>4, <2>5, <2>6, <2>7 DEF ReviewInv, TwoRounds
<1>2. ASSUME NEW a \in Artifacts, NEW c \in Criteria, CaptureEvidence(a, c) PROVE ReviewInv'
  BY <1>2 DEF CaptureEvidence, ReviewInv, TwoRounds, CheckRounds, Stopping, Blocking, Closed
<1>3. CASE ValidateCaptures
  <2>1. BaselineGate \in BOOLEAN
    BY DEF BaselineGate, Verified
  <2> QED
    BY <1>3, <2>1 DEF ValidateCaptures, ReviewInv, TwoRounds, CheckRounds, Stopping, Blocking, Closed
<1>4. CASE ValidateJudges
  <2>1. accepted' \in BOOLEAN /\ accepted' => Gates(report)
    BY <1>4 DEF ValidateJudges
  <2>2. accepted' => CheckRounds(report)
    BY <2>1 DEF Gates, ReportGates
  <2> QED
    BY <1>4, <2>1, <2>2 DEF ValidateJudges, ReviewInv, TwoRounds, CheckRounds, Stopping, Blocking, Closed
<1>5. CASE Repair
  <2>1. /\ accepted /\ fresh /\ report \in Reports /\ CheckRounds(report)
        /\ report.close # "escalated-stop"
    BY <1>5 DEF Repair, ReviewInv, NextAction
  <2>2. ASSUME NEW f \in Findings, f \in Blocking(report), ~Closed(report, f)
        PROVE  survived[f] <= 1
    <3>1. survived[f] \in Nat /\ report.rounds[f] \in Nat /\ survived[f] <= report.rounds[f]
      BY <2>1 DEF ReviewInv, Reports
    <3>2. CASE report.rounds[f] >= 2
      <4>1. f \in Stopping(report)
        BY <2>2, <3>2 DEF Stopping
      <4>2. report.kind[f] # "none" /\ report.rounds[f] > 0
        BY <2>2, <3>1, <3>2 DEF Blocking
      <4> QED
        BY <2>1, <4>1, <4>2 DEF CheckRounds
    <3> QED
      BY <3>1, <3>2
  <2>3. ASSUME NEW f \in Findings
        PROVE  survived'[f] \in Nat /\ survived'[f] <= 2
    <3>1. survived[f] \in Nat /\ survived[f] <= 2
      BY DEF ReviewInv, TwoRounds
    <3>2. survived'[f] =
            survived[f] + IF f \in defects' \cap Blocking(report) /\ ~Closed(report, f) THEN 1 ELSE 0
      BY <1>5 DEF Repair
    <3>3. CASE f \in defects' \cap Blocking(report) /\ ~Closed(report, f)
      BY <2>2, <3>1, <3>2, <3>3
    <3> QED
      BY <3>1, <3>2, <3>3
  <2>4. survived' = [f \in Findings |-> survived'[f]]
    BY <1>5 DEF Repair
  <2>5. survived' \in [Findings -> Nat]
    BY <2>3, <2>4
  <2>6. TwoRounds'
    BY <2>3 DEF TwoRounds
  <2> QED
    BY <1>5, <2>5, <2>6 DEF Repair, ReviewInv
<1>6. ASSUME NEW f \in Findings, Dispose(f) PROVE ReviewInv'
  <2>1. /\ survived' \in [Findings -> Nat] /\ \A g \in Findings : survived'[g] <= survived[g]
        /\ known' \subseteq Findings /\ defects' \subseteq Findings
    BY <1>6 DEF Dispose, ReviewInv
  <2>2. ASSUME NEW g \in Findings
        PROVE  survived'[g] <= 2 /\ (fresh => survived'[g] <= report.rounds[g])
    <3>1. survived[g] \in Nat /\ survived'[g] \in Nat /\ survived[g] <= 2
      BY <2>1 DEF ReviewInv, TwoRounds
    <3>2. fresh => report.rounds[g] \in Nat /\ survived[g] <= report.rounds[g]
      BY DEF ReviewInv, Reports
    <3> QED
      BY <2>1, <3>1, <3>2
  <2> QED
    BY <1>6, <2>1, <2>2 DEF Dispose, ReviewInv, TwoRounds
<1>7. ASSUME NEW t \in Tiers, Regrade(t) PROVE ReviewInv'
  <2>1. profile' \in [declared : Tiers, recorded : SUBSET Tiers, reached : Tiers]
    BY <1>7 DEF Regrade, ReviewInv
  <2> QED
    BY <1>7, <2>1 DEF Regrade, ReviewInv, TwoRounds
<1>8. CASE UNCHANGED reviewVars
  BY <1>8 DEF reviewVars, ReviewInv, TwoRounds, CheckRounds, Stopping, Blocking, Closed
<1> QED
  BY <1>1, <1>2, <1>3, <1>4, <1>5, <1>6, <1>7, <1>8 DEF ReviewNext

-----------------------------------------------------------------------------
(* The tiers. *)

LEMMA MaxIs ==
  ASSUME NEW S \in SUBSET (1 .. 3), S # {}
  PROVE  Max(S) \in S /\ \A t \in S : t <= Max(S)
<1>1. \E i \in S : \A j \in S : j <= i
  BY HasLast
<1>2. \E i \in S : \A j \in S : i >= j
  BY <1>1
<1>3. Max(S) \in S /\ \A j \in S : Max(S) >= j
  BY <1>2 DEF Max
<1> QED
  BY <1>3

\* What a tier does not allow is covered by a higher one only.
LEMMA CoveringExceeds ==
  ASSUME NEW r, NEW t \in Tiers, Exceeds(t, r)
  PROVE  Covering(r) \in Tiers /\ t < Covering(r)
<1> DEFINE S == {1} \cup (IF Touch.added # {} THEN {2} ELSE {})
                  \cup (IF Touch.revised \cup Touch.removed \cup ProductChanges # {} THEN {3} ELSE {})
                  \cup (IF r.routes \ {"R4"} # {} THEN {2} ELSE {})
                  \cup (IF "R3" \in r.routes THEN {3} ELSE {})
                  \cup (IF Cardinality(Blocking(r)) > 1 \/ AddsCriteria THEN {2} ELSE {})
<1>1. Covering(r) = Max(S)
  BY DEF Covering
<1>2. S \in SUBSET (1 .. 3) /\ S # {}
  OBVIOUS
<1>3. \E u \in S : t < u
  <2>1. CASE t = 1
    <3>1. Touch = [added |-> Touch.added, removed |-> Touch.removed, revised |-> Touch.revised]
      BY DEF Touch, NoTouch
    <3>2. Touch # NoTouch => Touch.added # {} \/ Touch.revised \cup Touch.removed # {}
      BY <3>1 DEF NoTouch
    <3>3. \/ Touch # NoTouch \/ r.routes \ {"R4"} # {}
          \/ Cardinality(Blocking(r)) > 1 \/ AddsCriteria
      BY <2>1 DEF Exceeds
    <3>4. 2 \in S \/ 3 \in S
      BY <3>2, <3>3
    <3> QED
      BY <2>1, <3>4
  <2>2. CASE t = 2
    BY <2>2 DEF Exceeds
  <2>3. CASE t = 3
    BY <2>3 DEF Exceeds
  <2> QED
    BY <2>1, <2>2, <2>3 DEF Tiers
<1> HIDE DEF S
<1>4. Max(S) \in S /\ \A u \in S : u <= Max(S)
  BY <1>2, MaxIs
<1>5. PICK u \in S : t < u
  BY <1>3
<1>6. u \in 1 .. 3 /\ Max(S) \in 1 .. 3 /\ u <= Max(S) /\ t \in 1 .. 3
  BY <1>2, <1>4, <1>5 DEF Tiers
<1> QED
  BY <1>1, <1>5, <1>6 DEF Tiers

\* A lower tier allows less.
LEMMA ExceedsLower ==
  ASSUME NEW r, NEW t \in Tiers, NEW u \in Tiers, t <= u, Exceeds(u, r)
  PROVE  Exceeds(t, r)
<1>1. Touch.revised \cup Touch.removed \cup ProductChanges # {} => Touch # NoTouch
  BY DEF NoTouch, ProductChanges
<1>2. u = 1 \/ u = 2
  BY DEF Exceeds, Tiers
<1>3. t = u \/ (t = 1 /\ u = 2)
  BY <1>2 DEF Tiers
<1> QED
  BY <1>1, <1>3 DEF Exceeds

LEMMA TierHolds == ReviewInv => WithinTier
<1> SUFFICES ASSUME ReviewInv, Accepts,
                    Exceeds(Max({profile.declared, profile.reached}), report)
             PROVE  FALSE
  BY DEF WithinTier
<1> DEFINE m == Max({profile.declared, profile.reached})
<1>1. profile.declared \in 1 .. 3 /\ profile.reached \in 1 .. 3
  BY DEF ReviewInv, Tiers
<1>2. m \in 1 .. 3 /\ profile.declared <= m /\ profile.reached <= m
  BY <1>1, MaxIs
<1> HIDE DEF m
<1>3. Exceeds(m, report)
  BY DEF m
<1>4. Exceeds(profile.declared, report)
  BY <1>1, <1>2, <1>3, ExceedsLower DEF Tiers
<1>5. Covering(report) \in Required(report)
  BY <1>4 DEF Required
<1>6. Covering(report) <= profile.reached
  BY <1>5 DEF Accepts, Gates, ReportGates, CheckTier
<1>7. Covering(report) \in Nat /\ m < Covering(report)
  BY <1>2, <1>3, CoveringExceeds DEF Tiers
<1> QED
  BY <1>1, <1>2, <1>6, <1>7

-----------------------------------------------------------------------------
(* What the profile accepts, status reads in the same way. *)

\* A stop is in the report exactly when a finding asks for it.
LEMMA StopIs ==
  ASSUME NEW r \in Reports, CheckRounds(r)
  PROVE  Stopping(r) # {} <=> r.close = "escalated-stop"
<1>1. CASE r.close # "none" \/ \E f \in Findings : r.kind[f] # "none" /\ r.rounds[f] > 0
  BY <1>1 DEF CheckRounds
<1>2. CASE r.close = "none" /\ ~ \E f \in Findings : r.kind[f] # "none" /\ r.rounds[f] > 0
  <2>1. ASSUME NEW f \in Stopping(r) PROVE FALSE
    <3>1. f \in Findings /\ r.kind[f] # "none" /\ r.rounds[f] \in Nat /\ r.rounds[f] >= 2
      BY DEF Stopping, Blocking, Reports
    <3> QED
      BY <1>2, <3>1
  <2> QED
    BY <1>2, <2>1
<1> QED
  BY <1>1, <1>2

LEMMA StatusHolds == ContractInv /\ BaselineTypeOK /\ ReviewInv => StatusAgrees
<1> SUFFICES ASSUME ContractInv, BaselineTypeOK, ReviewInv PROVE StatusAgrees
  OBVIOUS
<1>1. ReviewTypeOK
  BY DEF ReviewInv, ReviewTypeOK
<1>2. Wellformed /\ WithinTier
  BY <1>1, ContractHolds, TierHolds DEF Wellformed
<1>3. ASSUME Accepts
      PROVE  /\ NextAction = "stop-after-pass" <=> report.verdict = "pass"
             /\ NextAction = "disposition" <=> Stopping(report) # {}
             /\ NextAction \in {"stop-after-pass", "disposition", "repair"}
             /\ NextAction = "stop-after-pass" => \A f \in Blocking(report) : Closed(report, f)
             /\ Integrity \in {"current", "stale"}
  <2>1. report \in Reports /\ report # None /\ Gates(report)
    BY <1>3 DEF Accepts, ReviewInv
  <2>2. ~BaselineOpen
    BY <1>3 DEF Accepts, BaselineGate, Verified, BaselineOpen
  <2>3. report.verdict \in {"pass", "recirculate"}
    BY <2>1 DEF Gates, ReportGates, CheckPointback, RowsHold, FindingsHold, ClosuresHold, Reports
  <2>4. Stopping(report) # {} <=> report.close = "escalated-stop"
    BY <2>1, StopIs DEF Gates, ReportGates
  <2>5. ~(report.verdict = "pass" /\ report.close = "escalated-stop")
    BY <2>1 DEF Gates, ReportGates, CheckRounds
  <2>6. NextAction = IF report.close = "escalated-stop" THEN "disposition"
                     ELSE IF report.verdict = "pass" THEN "stop-after-pass" ELSE "repair"
    BY <2>1, <2>2, <2>3 DEF NextAction, Gates, ReportGates, AuditMarker
  <2>7. report.verdict = "pass" => \A f \in Blocking(report) : Closed(report, f)
    BY <2>1 DEF Gates, ReportGates, CheckPointback, RowsHold, FindingsHold, ClosuresHold
  <2>8. BindState = "complete"
    BY <2>1 DEF Gates, ReportGates, CheckG7, BindState
  <2>9. Integrity \in {"current", "stale"}
    BY <2>8 DEF Integrity
  <2> QED
    BY <2>3, <2>4, <2>5, <2>6, <2>7, <2>9
<1> QED
  BY <1>2, <1>3 DEF StatusAgrees

-----------------------------------------------------------------------------
(* The baseline. As long as nobody edits the files between a check and the *)
(* binding, what a command read is what it replaces, what it wrote is what *)
(* it binds, and an accepted document is the draft the user was shown,     *)
(* grown by components he promoted.                                        *)

Papers   == Documents \cup {Nothing}
Records  == [target : Components, version : Versions]
States   == [status : Statuses, path : CandidatePaths \cup {Nothing}, bound : Papers,
             kind : Kinds \cup {Nothing}, sources : Versions \cup {Nothing},
             draft : Papers, candidates : [CandidatePaths -> Papers] \cup {Nothing},
             promotions : SUBSET Records, replaced : Papers]
Commands == {Idle} \cup [at : {"found"}, path : CandidatePaths, sources : Versions]
            \cup [at : {"drafted"}, sources : Versions, listed : SUBSET CandidatePaths] \cup [at : {"checked"}]
            \cup [at : {"merged", "kept", "written"}, path : CandidatePaths, write : Documents,
                  old : Papers, promotes : Components \cup {Nothing}]

Quiet    == "edit" \notin disturbed
Merging  == command.at \in {"merged", "kept", "written"}
Recorded == {p.target : p \in state.promotions}

\* A document with more components: with those recorded, and with some that a
\* stop may have left unrecorded.
With(doc, more) == [doc EXCEPT !.entries = @ \cup more]
Unrecorded == IF "stop" \in disturbed THEN decided ELSE {}
Grown(doc, from, more, perhaps) == \E some \in SUBSET perhaps : doc = With(from, more \cup some)

Typed ==
  /\ files \in [CandidatePaths -> Papers] /\ source \in Versions
  /\ draft \in Papers /\ previous \in Papers
  /\ state \in States \cup {Nothing} /\ decided \subseteq Components
  /\ command \in Commands

StateIs ==
  state # Nothing =>
    /\ state.status = "ready" => state.path \in CandidatePaths /\ state.bound # Nothing
    /\ state.status = "needs_confirmation" => state.promotions = {}
    /\ state.kind = "accepted" =>
         state.status = "ready" /\ state.path = Canonical /\ state.draft # Nothing

CheckedIs ==
  command.at = "checked" =>
    /\ state # Nothing /\ state.status = "needs_confirmation" /\ state.draft # Nothing
    /\ Quiet => draft = state.draft

MergingIs ==
  Merging =>
    /\ state # Nothing
    /\ Promotes =>
         /\ state.status = "ready" /\ command.path = state.path
         /\ command.promotes \in decided /\ command.old # Nothing
         /\ command.write = With(command.old, {command.promotes})
    /\ ~Promotes =>
         /\ state.status = "needs_confirmation" /\ command.path = Canonical
         /\ state.draft # Nothing
         /\ Quiet => command.write = state.draft
    /\ Quiet => files[command.path] = IF command.at = "written" THEN command.write ELSE command.old

ShownIs ==
  (state # Nothing /\ state.kind = "accepted" /\ Quiet) =>
    /\ Grown(state.bound, state.draft, Recorded, Unrecorded)
    /\ command.at # "written" => Grown(files[Canonical], state.draft, Recorded, Unrecorded)
    /\ command.at = "written" =>
         Grown(files[Canonical], state.draft, Recorded \cup {command.promotes}, Unrecorded)

KeptIs ==
  /\ (command.at \in {"kept", "written"} /\ Replaces /\ Quiet) => previous = command.old
  /\ (/\ state # Nothing /\ state.replaced # Nothing /\ disturbed = {}
      /\ ~(command.at \in {"kept", "written"} /\ Replaces)) => previous = state.replaced

BaselineInv == Typed /\ StateIs /\ CheckedIs /\ MergingIs /\ ShownIs /\ KeptIs

-----------------------------------------------------------------------------
(* Growing a document. *)

LEMMA WithIs ==
  ASSUME NEW doc \in Documents, NEW more \in SUBSET Components
  PROVE  /\ With(doc, more) \in Documents /\ With(doc, more).text = doc.text
         /\ With(doc, more).cites = doc.cites /\ With(doc, more).entries = doc.entries \cup more
BY DEF Documents, With

LEMMA WithNone == ASSUME NEW doc \in Documents PROVE With(doc, {}) = doc
<1>1. doc.entries \cup {} = doc.entries
  OBVIOUS
<1> QED
  BY <1>1 DEF Documents, With

LEMMA WithTwice ==
  ASSUME NEW doc \in Documents, NEW a \in SUBSET Components, NEW b \in SUBSET Components
  PROVE  With(With(doc, a), b) = With(doc, a \cup b)
<1>1. (doc.entries \cup a) \cup b = doc.entries \cup (a \cup b)
  OBVIOUS
<1> QED
  BY <1>1 DEF Documents, With

LEMMA GrownSelf ==
  ASSUME NEW doc \in Documents, NEW perhaps PROVE Grown(doc, doc, {}, perhaps)
<1>1. doc = With(doc, {} \cup {}) /\ {} \in SUBSET perhaps
  BY WithNone
<1> QED
  BY <1>1 DEF Grown

LEMMA GrownMore ==
  ASSUME NEW doc, NEW from, NEW more, NEW perhaps, NEW rather, perhaps \subseteq rather,
         Grown(doc, from, more, perhaps)
  PROVE  Grown(doc, from, more, rather)
BY DEF Grown

LEMMA GrownBy ==
  ASSUME NEW from \in Documents, NEW more \in SUBSET Components, NEW perhaps \in SUBSET Components,
         NEW c \in Components, NEW doc, Grown(doc, from, more, perhaps)
  PROVE  Grown(With(doc, {c}), from, more \cup {c}, perhaps)
<1>1. PICK some \in SUBSET perhaps : doc = With(from, more \cup some)
  BY DEF Grown
<1>2. With(doc, {c}) = With(from, (more \cup some) \cup {c})
  BY <1>1, WithTwice
<1>3. (more \cup some) \cup {c} = (more \cup {c}) \cup some
  OBVIOUS
<1> QED
  BY <1>2, <1>3 DEF Grown

LEMMA GrownStopped ==
  ASSUME NEW doc, NEW from, NEW more, NEW c, NEW perhaps, NEW rather,
         perhaps \subseteq rather, c \in rather, Grown(doc, from, more \cup {c}, perhaps)
  PROVE  Grown(doc, from, more, rather)
<1>1. PICK some \in SUBSET perhaps : doc = With(from, (more \cup {c}) \cup some)
  BY DEF Grown
<1>2. (more \cup {c}) \cup some = more \cup ({c} \cup some) /\ {c} \cup some \in SUBSET rather
  OBVIOUS
<1> QED
  BY <1>1, <1>2 DEF Grown

\* Commands by where they are.
LEMMA CommandIs ==
  ASSUME command \in Commands
  PROVE  /\ command = Idle <=> command.at = "idle"
         /\ command.at = "found" => command.path \in CandidatePaths /\ command.sources \in Versions
         /\ command.at = "drafted" => command.sources \in Versions /\ command.listed \subseteq CandidatePaths
         /\ Merging => command \in [at : {"merged", "kept", "written"}, path : CandidatePaths,
                                    write : Documents, old : Papers,
                                    promotes : Components \cup {Nothing}]
BY DEF Commands, Idle, Merging

LEMMA BaselineStarts == BaselineInit => BaselineInv
<1> SUFFICES ASSUME BaselineInit PROVE BaselineInv
  OBVIOUS
<1> USE BaselineAssumption
<1>1. 1 \in Versions
  BY DEF Versions
<1>2. {[text |-> t, cites |-> 1, entries |-> {}] : t \in Texts} \subseteq Documents
  BY <1>1 DEF Documents
<1>3. files \in [CandidatePaths -> Papers]
  BY <1>2 DEF BaselineInit, Papers
<1> QED
  BY <1>1, <1>3 DEF BaselineInit, BaselineInv, Typed, StateIs, CheckedIs, MergingIs, ShownIs,
                    KeptIs, Papers, Commands, Idle, Merging

-----------------------------------------------------------------------------
(* Types. *)

LEMMA BaselineTyped ==
  Typed /\ StateIs /\ MergingIs /\ [BaselineNext]_baselineVars => Typed'
<1> SUFFICES ASSUME Typed, StateIs, MergingIs, [BaselineNext]_baselineVars PROVE Typed'
  OBVIOUS
<1> USE BaselineAssumption
<1>0. command \in Commands /\ Canonical \in CandidatePaths /\ Idle \in Commands
  BY DEF Typed, CandidatePaths, Commands
<1>1. CASE PrepareLooks
  <2>1. Selected \in CandidatePaths
    BY DEF Selected, CandidatePaths
  <2>2. CASE state' # state
    <3>1. state' = [status |-> "ambiguous", path |-> Nothing, bound |-> Nothing, kind |-> Nothing,
                    sources |-> Nothing, draft |-> Nothing, candidates |-> files,
                    promotions |-> {}, replaced |-> Nothing]
      BY <1>1, <2>2 DEF PrepareLooks, Binding
    <3>2. state' \in States
      BY <3>1 DEF States, Statuses, Papers, Typed
    <3> QED
      BY <1>1, <2>2, <3>2 DEF PrepareLooks, Typed
  <2>3. CASE command' = [at |-> "found", path |-> Selected, sources |-> source]
    <3>1. command' \in Commands
      BY <2>1, <2>3 DEF Commands, Typed
    <3> QED
      BY <1>1, <2>3, <3>1 DEF PrepareLooks, Typed, Idle
  <2>4. CASE /\ draft' = [text |-> Rendered, cites |-> source, entries |-> {}]
             /\ command' = [at |-> "drafted", sources |-> source, listed |-> Candidates]
    <3>1. command' \in Commands /\ draft' \in Papers
      BY <2>4 DEF Commands, Typed, Papers, Documents, Candidates
    <3> QED
      BY <1>1, <2>4, <3>1 DEF PrepareLooks, Typed, Idle
  <2>5. CASE UNCHANGED <<draft, state, command>>
    BY <1>1, <2>5 DEF PrepareLooks, Typed
  <2> QED
    BY <1>1, <2>2, <2>3, <2>4, <2>5 DEF PrepareLooks
<1>2. CASE PrepareBinds
  <2>1. CASE command.at = "found"
    <3>1. command.path \in CandidatePaths /\ command.sources \in Versions /\ files[command.path] \in Papers
      BY <1>0, <2>1, CommandIs DEF Typed
    <3>2. state' = Binding("ready", command.path, files[command.path], "existing", command.sources)
      BY <1>2, <2>1 DEF PrepareBinds
    <3>3. state' \in States
      BY <3>1, <3>2 DEF Binding, States, Statuses, Papers, Kinds
    <3> QED
      BY <1>0, <1>2, <3>3 DEF PrepareBinds, Typed
  <2>2. CASE command.at = "drafted"
    <3>1. command.sources \in Versions
      BY <1>0, <2>2, CommandIs
    <3>2. PICK shot : shot = CandidateSnapshot(command.listed)
      OBVIOUS
    <3>3. shot \in [CandidatePaths -> Papers]
      BY <3>2 DEF CandidateSnapshot, Typed, Papers
    <3>4. state' = [status |-> "needs_confirmation", path |-> Nothing, bound |-> Nothing,
                    kind |-> Nothing, sources |-> command.sources, draft |-> draft,
                    candidates |-> shot, promotions |-> {}, replaced |-> Nothing]
      BY <1>2, <2>2, <3>2 DEF PrepareBinds, Binding
    <3>5. state' \in States
      BY <3>1, <3>3, <3>4 DEF States, Statuses, Papers, Typed
    <3> QED
      BY <1>0, <1>2, <3>5 DEF PrepareBinds, Typed
  <2> QED
    BY <1>2, <2>1, <2>2 DEF PrepareBinds
<1>3. CASE Waive
  <2>1. state' \in States
    BY <1>3 DEF Waive, AsPrepared, Typed, States, Statuses, Papers, Kinds
  <2> QED
    BY <1>3, <2>1 DEF Waive, Typed
<1>4. CASE AcceptChecks
  BY <1>4 DEF AcceptChecks, Typed, Commands
<1>5. CASE AcceptReads
  <2>1. draft \in Documents /\ files[Canonical] \in Papers
    BY <1>0, <1>5 DEF AcceptReads, Vanished, Typed, Papers
  <2>2. command' \in Commands
    BY <1>0, <1>5, <2>1 DEF AcceptReads, Commands
  <2> QED
    BY <1>5, <2>2 DEF AcceptReads, Typed
<1>6. ASSUME NEW c \in Components, PromoteReads(c) PROVE Typed'
  <2>1. state.path \in CandidatePaths /\ files[state.path] \in Documents
    BY <1>6 DEF PromoteReads, Typed, StateIs, Papers
  <2>2. command' = [at |-> "merged", path |-> state.path, old |-> files[state.path],
                    write |-> With(files[state.path], {c}), promotes |-> c]
    BY <1>6 DEF PromoteReads, With
  <2>3. With(files[state.path], {c}) \in Documents
    BY <2>1, WithIs
  <2>4. command' \in Commands
    BY <2>1, <2>2, <2>3 DEF Commands, Papers
  <2> QED
    BY <1>6, <2>4 DEF PromoteReads, Typed
<1>7. ASSUME NEW c \in Components, DecidePromotion(c) PROVE Typed'
  BY <1>7 DEF DecidePromotion, Typed
<1>8. CASE KeepPrevious
  <2>1. Merging
    BY <1>8 DEF KeepPrevious, Merging
  <2>2. command.path \in CandidatePaths /\ files[command.path] \in Papers /\ command' \in Commands
    BY <1>0, <1>8, <2>1, CommandIs DEF KeepPrevious, Commands, Typed
  <2> QED
    BY <1>8, <2>2 DEF KeepPrevious, Typed
<1>9. CASE WriteCanonical
  <2>1. Merging
    BY <1>9 DEF WriteCanonical, Merging
  <2>2. command.write \in Papers /\ command' \in Commands
    BY <1>0, <1>9, <2>1, CommandIs DEF WriteCanonical, Commands, Papers
  <2> QED
    BY <1>9, <2>2 DEF WriteCanonical, Typed
<1>10. CASE BindWritten
  <2>1. Merging
    BY <1>10 DEF BindWritten, Merging
  <2>2. /\ command.path \in CandidatePaths /\ command.write \in Documents /\ command.old \in Papers
        /\ command.promotes \in Components \cup {Nothing} /\ files[command.path] \in Papers
        /\ files[Canonical] \in Papers
    BY <1>0, <2>1, CommandIs DEF Typed
  <2>3. state \in States /\ Names \in Papers
    BY <2>1, <2>2 DEF MergingIs, Typed, Names, States
  <2>4. CASE Promotes
    <3>1. [target |-> command.promotes, version |-> source] \in Records
      BY <2>2, <2>4 DEF Promotes, Records, Typed
    <3>2. state' = [state EXCEPT !.bound = files[command.path], !.replaced = Names,
                      !.promotions = @ \cup {[target |-> command.promotes, version |-> source]}]
      BY <1>10, <2>4 DEF BindWritten
    <3> HIDE DEF Records
    <3>3. state' \in States
      BY <2>2, <2>3, <3>1, <3>2 DEF States
    <3> QED
      BY <1>0, <1>10, <3>3 DEF BindWritten, Typed
  <2>5. CASE ~Promotes
    <3>1. state' = [state EXCEPT !.status = "ready", !.path = Canonical, !.kind = "accepted",
                      !.bound = files[Canonical], !.candidates = files, !.replaced = Names]
      BY <1>10, <2>5 DEF BindWritten
    <3>2. state' \in States
      BY <1>0, <2>2, <2>3, <3>1 DEF States, Statuses, Typed, Kinds
    <3> QED
      BY <1>0, <1>10, <3>2 DEF BindWritten, Typed
  <2> QED
    BY <2>4, <2>5
<1>11. CASE CommandFails
  BY <1>0, <1>11 DEF CommandFails, Typed
<1>12. CASE CommandStops
  BY <1>0, <1>12 DEF CommandStops, Typed
<1>13. ASSUME NEW doc \in Documents \cup {Nothing}, EditDraft(doc) PROVE Typed'
  BY <1>13 DEF EditDraft, Typed, Papers
<1>14. ASSUME NEW doc \in Documents \cup {Nothing}, NEW p \in CandidatePaths, EditFile(p, doc) PROVE Typed'
  BY <1>14 DEF EditFile, Typed, Papers
<1>15. CASE EditSource
  <2>1. source + 1 \in Versions
    BY <1>15 DEF EditSource, Typed, Versions
  <2> QED
    BY <1>15, <2>1 DEF EditSource, Typed
<1>16. CASE UNCHANGED baselineVars
  BY <1>16 DEF baselineVars, Typed
<1> QED
  BY <1>1, <1>2, <1>3, <1>4, <1>5, <1>6, <1>7, <1>8, <1>9, <1>10, <1>11, <1>12, <1>13, <1>14,
     <1>15, <1>16 DEF BaselineNext

-----------------------------------------------------------------------------
(* The steps of the baseline. *)

\* What is promoted is a component, and a component is not nothing.
LEMMA PromotedIs ==
  ASSUME Typed, Merging
  PROVE  /\ Promotes <=> command.promotes \in Components
         /\ command.write \in Documents /\ command.write # Nothing
         /\ command.path \in CandidatePaths /\ command.old \in Papers
BY BaselineAssumption, CommandIs DEF Typed, Promotes

LEMMA RecordedIs ==
  ASSUME Typed, state # Nothing
  PROVE  Recorded \in SUBSET Components /\ Unrecorded \in SUBSET Components
<1>1. state.promotions \subseteq Records
  BY DEF Typed, States
<1>2. \A p \in Records : p.target \in Components
  BY DEF Records
<1> QED
  BY <1>1, <1>2 DEF Recorded, Unrecorded, Typed

\* Steps before a command has read what it merges.
LEMMA EarlySteps ==
  ASSUME BaselineInv, PrepareLooks \/ PrepareBinds \/ Waive \/ AcceptChecks
  PROVE  StateIs' /\ CheckedIs' /\ MergingIs' /\ ShownIs' /\ KeptIs'
<1> USE BaselineAssumption DEF BaselineInv, Kinds
<1>0. command \in Commands
  BY DEF Typed
<1>1. CASE PrepareLooks
  <2>1. /\ command.at = "idle" /\ command'.at \in {"idle", "found", "drafted"}
        /\ files' = files /\ previous' = previous /\ decided' = decided
    BY <1>1 DEF PrepareLooks, Idle
  <2>2. CheckedIs' /\ MergingIs'
    BY <2>1 DEF CheckedIs, MergingIs, Merging
  <2>3. CASE UNCHANGED <<state, disturbed>>
    BY <2>1, <2>2, <2>3 DEF StateIs, ShownIs, KeptIs, Recorded, Unrecorded, Quiet
  <2>4. CASE ~UNCHANGED <<state, disturbed>>
    <3>1. state'.status = "ambiguous" /\ state'.kind = Nothing /\ state'.replaced = Nothing
      BY <1>1, <2>4 DEF PrepareLooks, Binding
    <3> QED
      BY <2>1, <2>2, <3>1 DEF StateIs, ShownIs, KeptIs
  <2> QED
    BY <2>3, <2>4
<1>2. CASE PrepareBinds
  <2>1. command'.at = "idle"
    BY <1>2 DEF PrepareBinds, Idle
  <2>2. CheckedIs' /\ MergingIs'
    BY <2>1 DEF CheckedIs, MergingIs, Merging
  <2>3. /\ state'.kind # "accepted" /\ state'.replaced = Nothing /\ state'.promotions = {}
        /\ state'.status = "ready" => state'.path \in CandidatePaths /\ state'.bound # Nothing
    <3>1. CASE command.at = "found"
      <4>1. /\ files[command.path] # Nothing
            /\ state' = [status |-> "ready", path |-> command.path, bound |-> files[command.path],
                         kind |-> "existing", sources |-> command.sources, draft |-> Nothing,
                         candidates |-> Nothing, promotions |-> {}, replaced |-> Nothing]
        BY <1>2, <3>1 DEF PrepareBinds, Vanished, Binding
      <4>2. command.path \in CandidatePaths
        BY <1>0, <3>1, CommandIs
      <4> QED
        BY <4>1, <4>2
    <3>2. CASE command.at = "drafted"
      <4>1. state' = [status |-> "needs_confirmation", path |-> Nothing, bound |-> Nothing,
                      kind |-> Nothing, sources |-> command.sources, draft |-> draft,
                      candidates |-> CandidateSnapshot(command.listed), promotions |-> {}, replaced |-> Nothing]
        BY <1>2, <3>2 DEF PrepareBinds, Binding
      <4> QED
        BY <4>1
    <3> QED
      BY <1>2, <3>1, <3>2 DEF PrepareBinds
  <2> QED
    BY <2>1, <2>2, <2>3 DEF StateIs, ShownIs, KeptIs
<1>3. CASE Waive
  <2>1. /\ command.at = "idle" /\ command' = command /\ state \in States
        /\ UNCHANGED <<previous, disturbed>>
    BY <1>3 DEF Waive, AsPrepared, Idle, Typed
  <2>2. state'.status = "waived" /\ state'.kind = "waived" /\ state'.replaced = state.replaced
        /\ state # Nothing
    BY <1>3, <2>1 DEF Waive, AsPrepared, States
  <2>3. StateIs' /\ CheckedIs' /\ MergingIs' /\ ShownIs'
    BY <2>1, <2>2 DEF StateIs, CheckedIs, MergingIs, Merging, ShownIs
  <2>4. KeptIs'
    BY <2>1, <2>2 DEF KeptIs
  <2> QED
    BY <2>3, <2>4
<1>4. CASE AcceptChecks
  <2>1. /\ command.at = "idle" /\ command'.at = "checked"
        /\ state # Nothing /\ state.status = "needs_confirmation"
        /\ draft = state.draft /\ state.draft # Nothing
        /\ UNCHANGED <<files, draft, previous, state, decided, disturbed>>
    BY <1>4 DEF AcceptChecks, AsPrepared, Idle, DraftHolds, Valid
  <2>2. StateIs' /\ CheckedIs' /\ MergingIs'
    BY <2>1 DEF StateIs, CheckedIs, MergingIs, Merging, Quiet
  <2>3. ShownIs' /\ KeptIs'
    BY <2>1 DEF ShownIs, KeptIs, Recorded, Unrecorded, Quiet
  <2> QED
    BY <2>2, <2>3
<1> QED
  BY <1>1, <1>2, <1>3, <1>4

\* A command reads what it will replace, and what it will write.
LEMMA ReadSteps ==
  ASSUME BaselineInv, AcceptReads \/ \E c \in Components : PromoteReads(c)
  PROVE  StateIs' /\ CheckedIs' /\ MergingIs' /\ ShownIs' /\ KeptIs'
<1> USE BaselineAssumption DEF BaselineInv
<1>1. CASE AcceptReads
  <2>1. /\ command.at = "checked"
        /\ command' = [at |-> "merged", path |-> Canonical, write |-> draft,
                       old |-> files[Canonical], promotes |-> Nothing]
        /\ UNCHANGED <<files, draft, previous, state, decided, disturbed>>
    BY <1>1 DEF AcceptReads
  <2>2. ~Promotes'
    BY <2>1 DEF Promotes
  <2>3. MergingIs'
    BY <2>1, <2>2 DEF MergingIs, Merging, CheckedIs, Quiet
  <2>4. StateIs' /\ CheckedIs' /\ ShownIs'
    BY <2>1 DEF StateIs, CheckedIs, ShownIs, Recorded, Unrecorded, Quiet
  <2>5. KeptIs'
    BY <2>1 DEF KeptIs, Quiet
  <2> QED
    BY <2>3, <2>4, <2>5
<1>2. ASSUME NEW c \in Components, PromoteReads(c)
      PROVE  StateIs' /\ CheckedIs' /\ MergingIs' /\ ShownIs' /\ KeptIs'
  <2>1. /\ command.at = "idle" /\ state # Nothing /\ state.status = "ready"
        /\ c \in decided /\ files[state.path] # Nothing
        /\ command' = [at |-> "merged", path |-> state.path, old |-> files[state.path],
                       write |-> With(files[state.path], {c}), promotes |-> c]
        /\ UNCHANGED <<files, draft, previous, state, decided, disturbed>>
    BY <1>2 DEF PromoteReads, Idle, With
  <2>2. Promotes'
    BY <2>1 DEF Promotes
  <2>3. MergingIs'
    BY <2>1, <2>2 DEF MergingIs, Merging, Quiet
  <2>4. StateIs' /\ CheckedIs' /\ ShownIs'
    BY <2>1 DEF StateIs, CheckedIs, ShownIs, Recorded, Unrecorded, Quiet
  <2>5. KeptIs'
    BY <2>1 DEF KeptIs, Quiet
  <2> QED
    BY <2>3, <2>4, <2>5
<1> QED
  BY <1>1, <1>2

LEMMA KeepStep ==
  ASSUME BaselineInv, KeepPrevious
  PROVE  StateIs' /\ CheckedIs' /\ MergingIs' /\ ShownIs' /\ KeptIs'
<1> USE BaselineAssumption DEF BaselineInv
<1>1. /\ command.at = "merged" /\ command' = [command EXCEPT !.at = "kept"]
      /\ previous' = IF Replaces THEN files[command.path] ELSE previous
      /\ UNCHANGED <<files, draft, state, decided, disturbed>>
  BY DEF KeepPrevious
<1>2. /\ command'.at = "kept" /\ command'.path = command.path /\ command'.old = command.old
      /\ command'.write = command.write /\ command'.promotes = command.promotes
  BY <1>1, CommandIs DEF Typed, Merging
<1>3. (Promotes' <=> Promotes) /\ (Replaces' <=> Replaces) /\ (Quiet' <=> Quiet)
  BY <1>1, <1>2 DEF Promotes, Replaces, Quiet
<1>4. MergingIs'
  BY <1>1, <1>2, <1>3 DEF MergingIs, Merging
<1>5. StateIs' /\ CheckedIs' /\ ShownIs'
  BY <1>1, <1>2, <1>3 DEF StateIs, CheckedIs, ShownIs, Recorded, Unrecorded
<1>6. KeptIs'
  BY <1>1, <1>2, <1>3 DEF KeptIs, MergingIs, Merging
<1> QED
  BY <1>4, <1>5, <1>6

LEMMA WriteStep ==
  ASSUME BaselineInv, WriteCanonical
  PROVE  StateIs' /\ CheckedIs' /\ MergingIs' /\ ShownIs' /\ KeptIs'
<1> USE BaselineAssumption DEF BaselineInv
<1>1. /\ command.at = "kept" /\ command' = [command EXCEPT !.at = "written"]
      /\ files' = [files EXCEPT ![command.path] = command.write]
      /\ UNCHANGED <<draft, previous, state, decided, disturbed>>
  BY DEF WriteCanonical
<1>2. /\ command'.at = "written" /\ command'.path = command.path /\ command'.old = command.old
      /\ command'.write = command.write /\ command'.promotes = command.promotes
  BY <1>1, CommandIs DEF Typed, Merging
<1>3. (Promotes' <=> Promotes) /\ (Replaces' <=> Replaces) /\ (Quiet' <=> Quiet)
  BY <1>1, <1>2 DEF Promotes, Replaces, Quiet
<1>4. Merging /\ files'[command.path] = command.write
  BY <1>1, PromotedIs DEF Typed, Merging
<1>5. MergingIs'
  BY <1>1, <1>2, <1>3, <1>4 DEF MergingIs, Merging
<1>6. StateIs' /\ CheckedIs'
  BY <1>1, <1>2 DEF StateIs, CheckedIs
<1>7. KeptIs'
  BY <1>1, <1>2, <1>3 DEF KeptIs
<1>8. ShownIs'
  <2> SUFFICES ASSUME state # Nothing, state.kind = "accepted", Quiet
               PROVE  /\ Grown(state.bound, state.draft, Recorded, Unrecorded)
                      /\ Grown(files'[Canonical], state.draft, Recorded \cup {command.promotes},
                               Unrecorded)
    BY <1>1, <1>2, <1>3 DEF ShownIs, Recorded, Unrecorded
  <2>1. /\ state.status = "ready" /\ state.path = Canonical /\ state.draft \in Documents
    BY DEF StateIs, Typed, States, Papers
  <2>2. Promotes /\ command.path = Canonical
    BY <1>4, <2>1 DEF MergingIs
  <2>3. /\ command.promotes \in Components
        /\ files'[Canonical] = With(files[Canonical], {command.promotes})
    BY <1>1, <1>4, <2>2, PromotedIs DEF MergingIs
  <2>4. /\ Grown(state.bound, state.draft, Recorded, Unrecorded)
        /\ Grown(files[Canonical], state.draft, Recorded, Unrecorded)
    BY <1>1 DEF ShownIs
  <2> QED
    BY <2>1, <2>3, <2>4, RecordedIs, GrownBy
<1> QED
  BY <1>5, <1>6, <1>7, <1>8

LEMMA BindStep ==
  ASSUME BaselineInv, BindWritten
  PROVE  StateIs' /\ CheckedIs' /\ MergingIs' /\ ShownIs' /\ KeptIs'
<1> USE BaselineAssumption DEF BaselineInv
<1>1. /\ command.at = "written" /\ files[command.path] # Nothing /\ command'.at = "idle"
      /\ UNCHANGED <<files, draft, previous, decided, disturbed>>
  BY DEF BindWritten, Vanished, Idle
<1>2. Merging /\ state \in States /\ state # Nothing
  BY <1>1 DEF Merging, MergingIs, Typed
<1>3. CheckedIs' /\ MergingIs'
  BY <1>1 DEF CheckedIs, MergingIs, Merging
<1>4. CASE Promotes
  <2>1. /\ state' = [state EXCEPT !.bound = files[command.path], !.replaced = Names,
                       !.promotions = @ \cup {[target |-> command.promotes, version |-> source]}]
    BY <1>4 DEF BindWritten
  <2>2. /\ state'.status = state.status /\ state'.kind = state.kind /\ state'.path = state.path
        /\ state'.draft = state.draft /\ state'.bound = files[command.path]
        /\ state'.replaced = command.old
        /\ state'.promotions = state.promotions \cup {[target |-> command.promotes, version |-> source]}
    BY <1>2, <1>4, <2>1 DEF States, Names
  <2>3. state.status = "ready" /\ command.path = state.path /\ command.old # Nothing
    BY <1>2, <1>4 DEF MergingIs
  <2>4. Recorded' = Recorded \cup {command.promotes}
    <3> DEFINE new == [target |-> command.promotes, version |-> source]
    <3>1. state'.promotions = state.promotions \cup {new} /\ new.target = command.promotes
      BY <2>2
    <3> HIDE DEF new
    <3>2. {p.target : p \in state.promotions \cup {new}}
            = {p.target : p \in state.promotions} \cup {new.target}
      OBVIOUS
    <3> QED
      BY <3>1, <3>2 DEF Recorded
  <2>5. StateIs'
    BY <1>1, <1>2, <2>2, <2>3 DEF StateIs
  <2>6. ShownIs'
    BY <1>1, <1>2, <2>2, <2>3, <2>4 DEF ShownIs, StateIs, Unrecorded, Quiet
  <2>7. KeptIs'
    BY <1>1, <1>4, <2>2, <2>3 DEF KeptIs, Replaces, Quiet
  <2> QED
    BY <1>3, <2>5, <2>6, <2>7
<1>5. CASE ~Promotes
  <2>1. state' = [state EXCEPT !.status = "ready", !.path = Canonical, !.kind = "accepted",
                    !.bound = files[Canonical], !.candidates = files, !.replaced = Names]
    BY <1>5 DEF BindWritten
  <2>2. /\ state'.status = "ready" /\ state'.kind = "accepted" /\ state'.path = Canonical
        /\ state'.draft = state.draft /\ state'.bound = files[Canonical]
        /\ state'.replaced = Names /\ state'.promotions = state.promotions
    BY <1>2, <2>1 DEF States
  <2>3. /\ state.status = "needs_confirmation" /\ command.path = Canonical
        /\ state.draft # Nothing
        /\ Quiet => command.write = state.draft
        /\ Quiet => files[Canonical] = command.write
    BY <1>1, <1>2, <1>5 DEF MergingIs
  <2>4. Recorded' = {}
    <3>1. state'.promotions = {}
      BY <1>2, <2>2, <2>3 DEF StateIs
    <3>2. \A p \in Recorded' : FALSE
      BY <3>1 DEF Recorded
    <3> QED
      BY <3>2
  <2>5. StateIs'
    BY <1>1, <2>2, <2>3 DEF StateIs, CandidatePaths
  <2>6. ShownIs'
    <3>1. state.draft \in Documents
      <4>1. state.draft \in Papers
        BY <1>2 DEF States
      <4> QED
        BY <2>3, <4>1 DEF Papers
    <3>2. Quiet => Grown(files[Canonical], state.draft, {}, Unrecorded)
      BY <2>3, <3>1, GrownSelf
    <3> QED
      BY <1>1, <2>2, <2>4, <3>2 DEF ShownIs, Unrecorded, Quiet
  <2>7. KeptIs'
    <3>1. CASE command.old \notin {Nothing, state.draft}
      <4>1. Replaces /\ state'.replaced = command.old
        BY <2>2, <3>1 DEF Replaces, Names
      <4> QED
        BY <1>1, <4>1 DEF KeptIs, Quiet
    <3>2. CASE command.old \in {Nothing, state.draft}
      <4>1. ~Replaces /\ state'.replaced = state.replaced
        BY <1>5, <2>2, <3>2 DEF Replaces, Names
      <4> QED
        BY <1>1, <1>2, <4>1 DEF KeptIs
    <3> QED
      BY <3>1, <3>2
  <2> QED
    BY <1>3, <2>5, <2>6, <2>7
<1> QED
  BY <1>4, <1>5

\* A command that fails has written nothing that is not bound; one that stops
\* may have.
LEMMA EndSteps ==
  ASSUME BaselineInv, CommandFails \/ CommandStops
  PROVE  StateIs' /\ CheckedIs' /\ MergingIs' /\ ShownIs' /\ KeptIs'
<1> USE BaselineAssumption DEF BaselineInv
<1>1. /\ command'.at = "idle" /\ UNCHANGED <<files, previous, state, decided>>
      /\ disturbed \subseteq disturbed' /\ (Quiet' <=> Quiet)
  BY DEF CommandFails, CommandStops, Idle, Quiet
<1>2. StateIs' /\ CheckedIs' /\ MergingIs'
  BY <1>1 DEF StateIs, CheckedIs, MergingIs, Merging
<1>3. CASE CommandFails
  <2>1. Quiet => command.at # "written" /\ ~(command.at \in {"kept", "written"} /\ Replaces)
    <3>1. CASE command.at = "written"
      <4>1. Merging /\ files[command.path] = Nothing
        BY <1>3, <3>1 DEF CommandFails, Vanished, Merging
      <4>2. Quiet => files[command.path] = command.write
        BY <3>1, <4>1 DEF MergingIs
      <4> QED
        BY <4>1, <4>2, PromotedIs
    <3>2. CASE command.at # "written"
      BY <1>3, <3>2 DEF CommandFails, Vanished
    <3> QED
      BY <3>1, <3>2
  <2>2. disturbed' = disturbed
    BY <1>3 DEF CommandFails
  <2> QED
    BY <1>1, <1>2, <2>1, <2>2 DEF ShownIs, KeptIs, Recorded, Unrecorded, Quiet
<1>4. CASE CommandStops
  <2>1. disturbed' = disturbed \cup {"stop"}
    BY <1>4 DEF CommandStops
  <2>2. KeptIs'
    BY <1>1, <2>1 DEF KeptIs
  <2>3. Unrecorded' = decided /\ Unrecorded \subseteq decided
    BY <1>1, <2>1 DEF Unrecorded
  <2>4. ASSUME state # Nothing, state.kind = "accepted", Quiet
        PROVE  /\ Grown(state.bound, state.draft, Recorded, decided)
               /\ Grown(files[Canonical], state.draft, Recorded, decided)
    <3>1. Grown(state.bound, state.draft, Recorded, decided)
      BY <2>3, <2>4, GrownMore DEF ShownIs
    <3>2. CASE command.at = "written"
      <4>1. command.promotes \in decided
        BY <2>4, <3>2 DEF MergingIs, Merging, StateIs
      <4>2. Grown(files[Canonical], state.draft, Recorded \cup {command.promotes}, Unrecorded)
        BY <2>4, <3>2 DEF ShownIs
      <4> QED
        BY <2>3, <3>1, <4>1, <4>2, GrownStopped
    <3>3. CASE command.at # "written"
      BY <2>3, <2>4, <3>1, <3>3, GrownMore DEF ShownIs
    <3> QED
      BY <3>2, <3>3
  <2>5. ShownIs'
    BY <1>1, <2>3, <2>4 DEF ShownIs, Recorded
  <2> QED
    BY <1>2, <2>2, <2>5
<1> QED
  BY <1>3, <1>4

\* An edit is seen, or it meets no command and no binding.
LEMMA OtherSteps ==
  ASSUME BaselineInv,
         \/ \E c \in Components : DecidePromotion(c)
         \/ \E doc \in Documents \cup {Nothing} :
              EditDraft(doc) \/ \E p \in CandidatePaths : EditFile(p, doc)
         \/ EditSource \/ UNCHANGED baselineVars
  PROVE  StateIs' /\ CheckedIs' /\ MergingIs' /\ ShownIs' /\ KeptIs'
<1> USE BaselineAssumption DEF BaselineInv
<1>1. CASE UNCHANGED <<files, draft, previous, state, command, disturbed>> /\ decided \subseteq decided'
  <2>1. StateIs' /\ CheckedIs'
    BY <1>1 DEF StateIs, CheckedIs, Quiet
  <2>2. MergingIs'
    BY <1>1 DEF MergingIs, Merging, Promotes, Quiet
  <2>3. KeptIs'
    BY <1>1 DEF KeptIs, Replaces, Promotes, Quiet
  <2>4. Unrecorded \subseteq Unrecorded' /\ Recorded' = Recorded
    BY <1>1 DEF Unrecorded, Recorded
  <2>5. \A doc, more : Grown(doc, state.draft, more, Unrecorded)
                         => Grown(doc, state.draft, more, Unrecorded')
    BY <2>4 DEF Grown
  <2>6. ShownIs'
    BY <1>1, <2>4, <2>5 DEF ShownIs, Quiet
  <2> QED
    BY <2>1, <2>2, <2>3, <2>6
<1>2. CASE Disturbs /\ UNCHANGED <<previous, state, decided, command>>
  <2>1. Quiet' => /\ disturbed' = disturbed /\ command.at = "idle"
                  /\ ~(state # Nothing /\ state.status = "ready")
    BY <1>2 DEF Disturbs, Quiet, Idle
  <2>2. disturbed' = {} => Quiet'
    BY DEF Quiet
  <2>3. StateIs'
    BY <1>2 DEF StateIs
  <2>4. CheckedIs' /\ MergingIs'
    BY <1>2, <2>1 DEF CheckedIs, MergingIs, Merging, Promotes
  <2>5. ShownIs'
    BY <1>2, <2>1, <2>3 DEF ShownIs, StateIs
  <2>6. KeptIs'
    BY <1>2, <2>1, <2>2 DEF KeptIs, Replaces, Promotes
  <2> QED
    BY <2>3, <2>4, <2>5, <2>6
<1> QED
  BY <1>1, <1>2 DEF DecidePromotion, EditDraft, EditFile, EditSource, baselineVars

LEMMA BaselineSteps == BaselineInv /\ [BaselineNext]_baselineVars => BaselineInv'
<1> SUFFICES ASSUME BaselineInv, [BaselineNext]_baselineVars PROVE BaselineInv'
  OBVIOUS
<1>1. Typed'
  BY BaselineTyped DEF BaselineInv
<1>2. StateIs' /\ CheckedIs' /\ MergingIs' /\ ShownIs' /\ KeptIs'
  BY EarlySteps, ReadSteps, KeepStep, WriteStep, BindStep, EndSteps, OtherSteps DEF BaselineNext
<1> QED
  BY <1>1, <1>2 DEF BaselineInv

\* What the invariant says of the files is what is expected of them.
LEMMA BaselineHolds ==
  BaselineInv => BaselineTypeOK /\ AcceptedIsShown /\ NamesTheKept
<1> SUFFICES ASSUME BaselineInv PROVE BaselineTypeOK /\ AcceptedIsShown /\ NamesTheKept
  OBVIOUS
<1> USE DEF BaselineInv
<1>1. BaselineTypeOK
  <2>1. CASE state = Nothing
    BY <2>1 DEF Typed, BaselineTypeOK, Papers
  <2>2. CASE state # Nothing
    <3>1. state.status \in Statuses /\ {state.bound, state.draft, state.replaced} \subseteq Papers
      BY <2>2 DEF Typed, States
    <3>2. state.status = "ready" => state.path \in CandidatePaths /\ state.bound # Nothing
      BY <2>2 DEF StateIs
    <3> QED
      BY <3>1, <3>2 DEF Typed, BaselineTypeOK, Papers
  <2> QED
    BY <2>1, <2>2
<1>2. AcceptedIsShown
  <2> SUFFICES ASSUME Verified, state.kind = "accepted", "edit" \notin disturbed
               PROVE  \E unrecorded \in SUBSET decided :
                        /\ state.bound = [state.draft EXCEPT !.entries =
                             @ \cup {p.target : p \in state.promotions} \cup unrecorded]
                        /\ "stop" \notin disturbed => unrecorded = {}
    BY DEF AcceptedIsShown
  <2>1. Grown(state.bound, state.draft, Recorded, Unrecorded)
    BY DEF ShownIs, Quiet, Verified
  <2>2. PICK some \in SUBSET Unrecorded : state.bound = With(state.draft, Recorded \cup some)
    BY <2>1 DEF Grown
  <2>3. state.draft.entries \cup (Recorded \cup some) = state.draft.entries \cup Recorded \cup some
    OBVIOUS
  <2>4. state.bound = [state.draft EXCEPT !.entries =
                         @ \cup {p.target : p \in state.promotions} \cup some]
    BY <2>2, <2>3 DEF With, Recorded
  <2>5. some \in SUBSET decided /\ ("stop" \notin disturbed => some = {})
    BY DEF Unrecorded
  <2> QED
    BY <2>4, <2>5
<1>3. NamesTheKept
  BY DEF NamesTheKept, KeptIs, Idle
<1> QED
  BY <1>1, <1>2, <1>3

\* A document is replaced from a backup of it, or by itself.
LEMMA StepsReplaceTheKept ==
  BaselineInv /\ [BaselineNext]_baselineVars => [ReplacesTheKept]_baselineVars
<1> SUFFICES ASSUME BaselineInv, [BaselineNext]_baselineVars, NEW p \in CandidatePaths,
                    command.at = "kept", command'.at = "written", Quiet,
                    files'[p] # files[p], files[p] # Nothing
             PROVE  previous = files[p]
  BY DEF ReplacesTheKept, Quiet
<1> USE DEF BaselineInv
<1>1. files' = [files EXCEPT ![command.path] = command.write]
  BY DEF BaselineNext, PrepareLooks, PrepareBinds, Waive, AsPrepared, AcceptChecks, AcceptReads,
         PromoteReads, DecidePromotion, KeepPrevious, WriteCanonical, BindWritten, CommandFails,
         CommandStops, EditDraft, EditFile, EditSource, baselineVars, Idle
<1>2. Merging
  BY DEF Merging
<1>3. command.path = p /\ command.write # files[p] /\ files[p] = command.old
  BY <1>1, <1>2 DEF Typed, MergingIs
<1>4. Replaces
  BY <1>2, <1>3 DEF MergingIs, Replaces
<1> QED
  BY <1>3, <1>4 DEF KeptIs

-----------------------------------------------------------------------------
(* The run. *)

runVars == <<contractVars, baselineVars, reviewVars>>
RunInv  == ContractInv /\ BaselineInv /\ ReviewInv

\* A step of the run is one of one part, and the others stand still.
LEMMA PartsStep ==
  [RunNext]_runVars => /\ [ContractNext]_contractVars /\ [BaselineNext]_baselineVars
                       /\ [ReviewNext]_reviewVars
BY DEF RunNext, runVars

LEMMA RunInvariant == RunSpec => []RunInv
<1>1. RunInit => RunInv
  BY ContractStarts, BaselineStarts, ReviewStarts DEF RunInit, RunInv
<1>2. RunInv /\ [RunNext]_runVars => RunInv'
  BY PartsStep, ContractSteps, BaselineSteps, ReviewSteps DEF RunInv
<1> QED
  BY <1>1, <1>2, PTL DEF RunSpec, runVars

(***************************************************************************)
(* No finding is repaired more than twice before the user is asked,        *)
(* whatever the evaluator overlooks or gets wrong in one field, as long as *)
(* it counts the rounds (check_rounds, run status, the repair loop).       *)
(***************************************************************************)
THEOREM RepairsStop == RunSpec => []TwoRounds
<1>1. RunInv => TwoRounds
  BY DEF RunInv, ReviewInv
<1> QED
  BY <1>1, RunInvariant, PTL

(***************************************************************************)
(* What the complete profile accepts, run status and the continuation read *)
(* in the same way: with every field of the contract as it was bound or as *)
(* the user decided, and within the tier of the run (validate_run.py,      *)
(* g7_contract_drift.py, g12_decision_gate.py, status_projection.py).      *)
(***************************************************************************)
THEOREM ReadersAgree == RunSpec => []StatusAgrees
<1>1. RunInv => StatusAgrees
  BY StatusHolds, BaselineHolds DEF RunInv
<1> QED
  BY <1>1, RunInvariant, PTL

(***************************************************************************)
(* What verify passes under an acceptance is the draft the user was shown, *)
(* grown only by components he promoted; and no command of the run         *)
(* replaces a document without a copy (design_baseline.py).                *)
(***************************************************************************)
THEOREM BaselineStaysAsShown == RunSpec => BaselineIsKept
<1>1. RunInv => AcceptedIsShown /\ NamesTheKept
  BY BaselineHolds DEF RunInv
<1>2. RunInv /\ [RunNext]_runVars => [ReplacesTheKept]_baselineVars
  BY PartsStep, StepsReplaceTheKept DEF RunInv
<1> QED
  BY <1>1, <1>2, RunInvariant, PTL DEF RunSpec, runVars, BaselineIsKept, ReplacedIsKept

-----------------------------------------------------------------------------
(* Source proposals and their application (ProposalApply). *)

USE DEF Hashes, Incomplete, Critical

-----------------------------------------------------------------------------
(* Type correctness. *)

LEMMA InitType == Init => TypeOK
BY FilesAssumption, BoundsAssumption
   DEF Init, TypeOK, ProposalStates, JournalStates, Positions

\* The staging loop of create sees well-formed files.
LEMMA StagingViewsType ==
  ASSUME TypeOK, NEW wanted, \A w \in wanted : w.path \in Paths,
         NEW seen \in StagingViews(wanted)
  PROVE  seen \in [Paths -> Hashes] /\ (seen # file => edits < MaxEdits)
<1>1. file \in [Paths -> Hashes]
  BY DEF TypeOK
<1>2. CASE seen = file
  BY <1>1, <1>2
<1>3. CASE seen # file
  <2>1. PICK w \in wanted, c \in Contents :
          edits < MaxEdits /\ seen = [file EXCEPT ![w.path] = c]
    BY <1>3 DEF StagingViews
  <2> QED BY <1>1, <2>1
<1> QED BY <1>2, <1>3

LEMMA StageType ==
  ASSUME TypeOK, NEW p \in Proposals, NEW op \in Operations,
         NEW wanted, \A w \in wanted : w.ord \in Nat /\ w.path \in Paths /\ w.result \in Hashes,
         Stage(p, wanted, op)
  PROVE  TypeOK'
<1>1. PICK seen \in StagingViews(wanted) :
        /\ steps' = [steps EXCEPT ![p] =
             {[ord |-> w.ord, path |-> w.path, base |-> file[w.path],
               result |-> w.result,
               backup |-> IF file[w.path] = Absent THEN Absent ELSE seen[w.path]] :
              w \in wanted}]
        /\ file' = seen
        /\ edits' = IF seen = file THEN edits ELSE edits + 1
        /\ touched' = IF seen = file \/ lock = NoThread THEN touched
                      ELSE touched \cup {w \in Paths : seen[w] # file[w]}
  BY DEF Stage
<1>2. seen \in [Paths -> Hashes] /\ (seen # file => edits < MaxEdits)
  BY StagingViewsType
<1>3. {[ord |-> w.ord, path |-> w.path, base |-> file[w.path],
        result |-> w.result,
        backup |-> IF file[w.path] = Absent THEN Absent ELSE seen[w.path]] :
       w \in wanted} \subseteq Step
  BY <1>2 DEF TypeOK, Step
<1>4. steps' \in [Proposals -> SUBSET Step]
  BY <1>1, <1>3 DEF TypeOK
<1>5. edits' \in 0 .. MaxEdits
  BY <1>1, <1>2, BoundsAssumption DEF TypeOK
<1>6. file' \in [Paths -> Hashes] /\ touched' \subseteq Paths
  BY <1>1, <1>2 DEF TypeOK
<1>7. pstate' \in [Proposals -> ProposalStates] /\ ledger' \subseteq Operations
  BY DEF Stage, TypeOK, ProposalStates
<1>8. UNCHANGED <<late, jstate, lock, pc, req, todo, faults, crashes>>
  BY DEF Stage
<1> QED
  BY <1>4, <1>5, <1>6, <1>7, <1>8 DEF TypeOK

\* The changes _parse_changes accepts are well-formed steps.
LEMMA ChangesType ==
  ASSUME NEW p \in Proposals
  PROVE  \A i \in DOMAIN Changes[p] :
           i \in Nat /\ Changes[p][i].path \in Paths /\ Changes[p][i].content \in Hashes
<1> DEFINE Change == [path : Paths, content : Hashes]
<1>1. Changes[p] \in Seq(Change)
  BY ChangesAssumption
<1> SUFFICES ASSUME NEW i \in DOMAIN Changes[p]
             PROVE  i \in Nat /\ Changes[p][i] \in Change
  OBVIOUS
<1> HIDE DEF Change
<1> QED BY <1>1

LEMMA CreateType ==
  ASSUME TypeOK, NEW p \in Proposals, NEW op \in Operations, Create(p, op)
  PROVE  TypeOK'
<1> DEFINE wanted == {[ord |-> i, path |-> Changes[p][i].path, result |-> Changes[p][i].content] :
                      i \in DOMAIN Changes[p]}
<1>1. \A w \in wanted : w.ord \in Nat /\ w.path \in Paths /\ w.result \in Hashes
  BY ChangesType
<1>2. Stage(p, wanted, op)
  BY DEF Create
<1> HIDE DEF wanted
<1> QED BY <1>1, <1>2, StageType

LEMMA RevertType ==
  ASSUME TypeOK, NEW p \in Proposals, NEW q \in Proposals, NEW op \in Operations,
         Revert(p, q, op)
  PROVE  TypeOK'
<1> DEFINE wanted == {[ord |-> s.ord, path |-> s.path, result |-> s.backup] : s \in steps[p]}
<1>1. steps[p] \subseteq Step
  BY DEF TypeOK
<1>2. \A w \in wanted : w.ord \in Nat /\ w.path \in Paths /\ w.result \in Hashes
  BY <1>1 DEF Step
<1>3. Stage(q, wanted, op)
  BY DEF Revert
<1> HIDE DEF wanted
<1> QED BY <1>2, <1>3, StageType

\* A started request was checked against a row of the proposals table.
LEMMA StartsType ==
  ASSUME TypeOK, NEW t \in Threads, NEW p \in Proposals, NEW op \in Operations,
         NEW mode \in {"apply", "rollback", "finish"},
         NEW position \in Positions \ {"idle"},
         Starts(t, p, mode, op, position)
  PROVE  TypeOK'
<1>1. [prop |-> p, mode |-> mode, op |-> op] \in Request
  BY DEF Request
<1>2. pc' \in [Threads -> Positions] /\ req' \in [Threads -> Request \cup {NoRequest}]
  BY <1>1 DEF Starts, TypeOK
<1>3. ASSUME NEW u \in Threads
      PROVE  IF pc'[u] = "idle" THEN req'[u] = NoRequest ELSE req'[u] \in Request
  BY <1>1 DEF Starts, TypeOK
<1> QED
  BY <1>2, <1>3 DEF Starts, TypeOK, store, bounds

\* What the operators that end a request leave behind.
LEMMA ReturnsType ==
  ASSUME TypeOK, NEW t \in Threads, Returns(t)
  PROVE  /\ pc' \in [Threads -> Positions]
         /\ req' \in [Threads -> Request \cup {NoRequest}]
         /\ todo' \in [Threads -> SUBSET Step]
         /\ \A u \in Threads : IF pc'[u] = "idle" THEN req'[u] = NoRequest ELSE req'[u] \in Request
BY DEF Returns, TypeOK, Positions

LEMMA AcquiresType ==
  ASSUME TypeOK, NEW t \in Threads, pc[t] # "idle", NEW position \in {"write", "restore"},
         NEW S \in SUBSET Step, Acquires(t, position, S)
  PROVE  /\ pc' \in [Threads -> Positions]
         /\ req' \in [Threads -> Request \cup {NoRequest}]
         /\ todo' \in [Threads -> SUBSET Step]
         /\ lock' = t
         /\ touched' = {}
         /\ \A u \in Threads : IF pc'[u] = "idle" THEN req'[u] = NoRequest ELSE req'[u] \in Request
BY DEF Acquires, TypeOK, Positions

\* Between its start and its return a thread serves a well-formed request.
LEMMA ServedRequest ==
  ASSUME TypeOK, NEW t \in Threads, pc[t] # "idle"
  PROVE  /\ req[t] \in Request
         /\ req[t].prop \in Proposals
         /\ req[t].op \in Operations
         /\ steps[req[t].prop] \subseteq Step
BY DEF TypeOK, Request

LEMMA NextType == TypeOK /\ [Next]_vars => TypeOK'
<1> SUFFICES ASSUME TypeOK, [Next]_vars PROVE TypeOK'
  OBVIOUS
<1> USE DEF store, process, bounds
<1>1. CASE Gate
  <2>1. ASSUME NEW p \in Proposals, NEW op \in Operations, Create(p, op) PROVE TypeOK'
    BY <2>1, CreateType
  <2>2. ASSUME NEW p \in Proposals, NEW op \in Operations, Reject(p, op) PROVE TypeOK'
    BY <2>2 DEF Reject, TypeOK, ProposalStates
  <2>3. ASSUME NEW p \in Proposals, NEW q \in Proposals, NEW op \in Operations, Revert(p, q, op)
        PROVE TypeOK'
    BY <2>3, RevertType
  <2> QED BY <1>1, <2>1, <2>2, <2>3 DEF Gate
<1>2. ASSUME NEW t \in Threads, Start(t) PROVE TypeOK'
  <2>1. PICK p \in Proposals, op \in Operations, mode \in {"apply", "rollback", "finish"},
             position \in Positions \ {"idle"} : Starts(t, p, mode, op, position)
    BY <1>2 DEF Start, ApplyChecked, ApplyTooLate, RecoverChecked, Positions
  <2> QED BY <2>1, StartsType
<1>3. ASSUME NEW t \in Threads, Serve(t) PROVE TypeOK'
  <2>1. CASE MarkExpired(t)
    BY <2>1, ReturnsType, ServedRequest DEF MarkExpired, TypeOK, ProposalStates
  <2>2. CASE ApplyRefused(t)
    BY <2>2, ReturnsType DEF ApplyRefused, TypeOK
  <2>3. CASE ApplyBegins(t)
    BY <2>3, AcquiresType, ServedRequest DEF ApplyBegins, TypeOK, JournalStates
  <2>4. CASE RecoverRefused(t)
    BY <2>4, ReturnsType DEF RecoverRefused, TypeOK
  <2>5. CASE RollbackBegins(t)
    <3>1. Applied(steps[req[t].prop]) \in SUBSET Step
      BY <2>5, ServedRequest DEF RollbackBegins, Applied
    <3> QED BY <2>5, <3>1, AcquiresType DEF RollbackBegins, TypeOK
  <2>6. CASE FinishBegins(t)
    <3>1. Pending(steps[req[t].prop]) \in SUBSET Step
      BY <2>6, ServedRequest DEF FinishBegins, Pending
    <3> QED BY <2>6, <3>1, AcquiresType DEF FinishBegins, TypeOK
  <2>7. CASE WriteFile(t)
    <3>1. PICK s \in todo[t] : file' = [file EXCEPT ![s.path] = s.result]
      BY <2>7 DEF WriteFile
    <3>2. s \in Step
      BY DEF TypeOK
    <3> QED BY <2>7, <3>1, <3>2 DEF WriteFile, TypeOK, Step, Positions
  <2>8. CASE VerifyFile(t)
    BY <2>8, ServedRequest DEF VerifyFile, TypeOK, JournalStates, Positions
  <2>9. CASE VerifyFails(t)
    BY <2>9, ReturnsType, ServedRequest
       DEF VerifyFails, FailsJournal, ReleasesAndReturns, TypeOK, JournalStates
  <2>10. CASE CommitApply(t)
    BY <2>10, ReturnsType, ServedRequest
       DEF CommitApply, Settles, ReleasesAndReturns, TypeOK, JournalStates, ProposalStates
  <2>11. CASE CommitFinish(t)
    BY <2>11, ReturnsType, ServedRequest
       DEF CommitFinish, Settles, ReleasesAndReturns, TypeOK, JournalStates, ProposalStates
  <2>12. CASE FinishFails(t)
    BY <2>12, ReturnsType, ServedRequest
       DEF FinishFails, FailsJournal, ReleasesAndReturns, TypeOK, JournalStates
  <2>13. CASE RestoreFile(t)
    <3>1. PICK s \in todo[t] : file' = [file EXCEPT ![s.path] = s.backup]
      BY <2>13 DEF RestoreFile
    <3>2. s \in Step
      BY DEF TypeOK
    <3> QED BY <2>13, <3>1, <3>2 DEF RestoreFile, TypeOK, Step, Positions
  <2>14. CASE RestoreVerified(t)
    BY <2>14 DEF RestoreVerified, TypeOK, Positions
  <2>15. CASE RestoreCorrupt(t)
    BY <2>15, ReturnsType DEF RestoreCorrupt, ReleasesAndReturns, TypeOK
  <2>16. CASE CommitRollback(t)
    BY <2>16, ReturnsType, ServedRequest
       DEF CommitRollback, Settles, ReleasesAndReturns, TypeOK, JournalStates, ProposalStates
  <2> QED
    BY <1>3, <2>1, <2>2, <2>3, <2>4, <2>5, <2>6, <2>7, <2>8, <2>9, <2>10, <2>11, <2>12,
       <2>13, <2>14, <2>15, <2>16 DEF Serve
<1>4. ASSUME NEW t \in Threads, Refused(t) PROVE TypeOK'
  <2>1. CASE WriteRefused(t)
    BY <2>1, ReturnsType, ServedRequest, BoundsAssumption
       DEF WriteRefused, FailsJournal, ReleasesAndReturns, TypeOK, JournalStates
  <2>2. CASE RestoreRefused(t)
    BY <2>2, ReturnsType, BoundsAssumption DEF RestoreRefused, ReleasesAndReturns, TypeOK
  <2> QED BY <1>4, <2>1, <2>2 DEF Refused
<1>5. CASE Environment
  <2>1. CASE Crash
    BY <2>1, BoundsAssumption DEF Crash, TypeOK, Positions
  <2>2. ASSUME NEW p \in Proposals, Expiry(p) PROVE TypeOK'
    BY <2>2 DEF Expiry, TypeOK
  <2>3. ASSUME NEW path \in Paths, NEW content \in Hashes, ExternalEdit(path, content)
        PROVE TypeOK'
    BY <2>3, BoundsAssumption DEF ExternalEdit, TypeOK
  <2> QED BY <1>5, <2>1, <2>2, <2>3 DEF Environment
<1>6. CASE UNCHANGED vars
  BY <1>6 DEF vars, TypeOK
<1> QED
  BY <1>1, <1>2, <1>3, <1>4, <1>5, <1>6 DEF Next

\* The tables, the files and the threads only ever hold what the code puts
\* there.
THEOREM TypeCorrect == Spec => []TypeOK
BY InitType, NextType, PTL DEF Spec

-----------------------------------------------------------------------------
(* The invariant behind the safety of concurrent writes. *)

\* The lock and the threads agree on who is in the critical section.
LockInv == \A t \in Threads : pc[t] \in Critical <=> lock = t

\* A proposal with a journal, or with a request in flight, has its row, so
\* that create cannot give it other steps.
RowInv ==
  /\ \A p \in Proposals : jstate[p] # "none" => pstate[p] # "none"
  /\ \A t \in Threads : pc[t] # "idle" => pstate[req[t].prop] # "none"

\* No two steps of a proposal write the same file or have the same position.
StepsInv ==
  \A p \in Proposals : \A r, s \in steps[p] :
    r.path = s.path \/ r.ord = s.ord => r = s

\* Writing in order: the finished steps show the result, the others the base.
Written(t, s) ==
  IF s \in todo[t]
  THEN file[s.path] = s.base \/ (pc[t] = "verify" /\ IsFirst(s, todo[t]))
  ELSE file[s.path] = s.result

\* Undoing in reverse: the finished steps show the base, the others the result.
Restored(t, s) ==
  IF s \in todo[t]
  THEN file[s.path] = s.result \/ (pc[t] = "restored" /\ IsLast(s, todo[t]))
  ELSE file[s.path] = s.base

\* In the critical section the files of the proposal are where the steps left
\* them, but for those another tool has changed since the lock was taken.
Progress(t) ==
  /\ todo[t] \subseteq steps[req[t].prop]
  /\ \A s \in steps[req[t].prop] :
       \/ s.path \in touched
       \/ pc[t] \in {"write", "verify"} /\ Written(t, s)
       \/ pc[t] \in {"restore", "restored"} /\ Restored(t, s)

ProgressInv == \A t \in Threads : pc[t] \in Critical => Progress(t)

IInv == TypeOK /\ LockInv /\ RowInv /\ StepsInv /\ ProgressInv

LEMMA InitInv == Init => IInv
<1> SUFFICES ASSUME Init PROVE IInv
  OBVIOUS
<1>1. TypeOK
  BY InitType
<1>2. LockInv /\ RowInv /\ StepsInv /\ ProgressInv
  BY NamesAssumption DEF Init, LockInv, RowInv, StepsInv, ProgressInv
<1> QED BY <1>1, <1>2 DEF IInv

\* Two threads are never in the critical section of the project together.
LEMMA MutualExclusion ==
  ASSUME LockInv, NEW t \in Threads, NEW u \in Threads,
         pc[t] \in Critical, pc[u] \in Critical
  PROVE  t = u
BY DEF LockInv

-----------------------------------------------------------------------------
(* The lock. *)

LEMMA StartsLock ==
  ASSUME TypeOK, LockInv, NEW t \in Threads, NEW p, NEW mode, NEW op,
         NEW position \in {"expire", "applyWait", "recoverWait"},
         Starts(t, p, mode, op, position)
  PROVE  LockInv'
BY DEF Starts, TypeOK, LockInv

LEMMA AcquiresLock ==
  ASSUME TypeOK, LockInv, NEW t \in Threads, lock = NoThread,
         NEW position \in {"write", "restore"}, NEW S, Acquires(t, position, S)
  PROVE  LockInv'
BY NamesAssumption DEF Acquires, TypeOK, LockInv

LEMMA ReleasesLock ==
  ASSUME TypeOK, LockInv, NEW t \in Threads, lock = t, ReleasesAndReturns(t)
  PROVE  LockInv' /\ \A u \in Threads : pc'[u] \notin Critical
BY NamesAssumption DEF ReleasesAndReturns, Returns, TypeOK, LockInv

LEMMA LockNext == TypeOK /\ LockInv /\ [Next]_vars => LockInv'
<1> SUFFICES ASSUME TypeOK, LockInv, [Next]_vars PROVE LockInv'
  OBVIOUS
<1> USE DEF store, process, bounds
<1>1. CASE Gate
  BY <1>1 DEF Gate, Create, Revert, Stage, Reject, LockInv
<1>2. ASSUME NEW t \in Threads, Start(t) PROVE LockInv'
  BY <1>2, StartsLock DEF Start, ApplyChecked, ApplyTooLate, RecoverChecked
<1>3. ASSUME NEW t \in Threads, Serve(t) PROVE LockInv'
  <2>1. CASE MarkExpired(t) \/ ApplyRefused(t) \/ RecoverRefused(t)
    BY <2>1 DEF MarkExpired, ApplyRefused, RecoverRefused, Returns, TypeOK, LockInv
  <2>2. CASE ApplyBegins(t) \/ RollbackBegins(t) \/ FinishBegins(t)
    BY <2>2, AcquiresLock DEF ApplyBegins, RollbackBegins, FinishBegins
  <2>3. CASE WriteFile(t) \/ VerifyFile(t) \/ RestoreFile(t) \/ RestoreVerified(t)
    BY <2>3 DEF WriteFile, VerifyFile, RestoreFile, RestoreVerified, TypeOK, LockInv
  <2>4. CASE CommitApply(t) \/ CommitFinish(t) \/ CommitRollback(t)
    BY <2>4, ReleasesLock DEF CommitApply, CommitFinish, CommitRollback, Settles, LockInv
  <2>5. CASE VerifyFails(t) \/ FinishFails(t) \/ RestoreCorrupt(t)
    BY <2>5, ReleasesLock DEF VerifyFails, FinishFails, FailsJournal, RestoreCorrupt, LockInv
  <2> QED BY <1>3, <2>1, <2>2, <2>3, <2>4, <2>5 DEF Serve
<1>4. ASSUME NEW t \in Threads, Refused(t) PROVE LockInv'
  BY <1>4, ReleasesLock DEF Refused, WriteRefused, FailsJournal, RestoreRefused, LockInv
<1>5. CASE Environment
  BY <1>5, NamesAssumption DEF Environment, Crash, Expiry, ExternalEdit, LockInv
<1>6. CASE UNCHANGED vars
  BY <1>6 DEF vars, LockInv
<1> QED
  BY <1>1, <1>2, <1>3, <1>4, <1>5, <1>6 DEF Next

-----------------------------------------------------------------------------
(* The rows. *)

\* No step takes the row of a proposal away.
RowsStay == \A p \in Proposals : pstate[p] # "none" => pstate'[p] # "none"

LEMMA StartsRow ==
  ASSUME TypeOK, RowInv, NEW t \in Threads, NEW p \in Proposals, NEW mode, NEW op,
         NEW position, pstate[p] # "none", Starts(t, p, mode, op, position)
  PROVE  RowsStay /\ RowInv'
BY DEF Starts, TypeOK, RowInv, RowsStay, store

\* Whatever a thread in flight does to its own request and proposal, it keeps
\* the row it works for and leaves the requests of the others alone.
LEMMA ServingKeepsRows ==
  ASSUME TypeOK, RowInv, NEW t \in Threads, pc[t] # "idle",
         \A u \in Threads \ {t} : pc'[u] = pc[u] /\ req'[u] = req[u],
         pc'[t] = "idle" \/ req'[t] = req[t],
         \A p \in Proposals \ {req[t].prop} : jstate'[p] = jstate[p] /\ pstate'[p] = pstate[p],
         pstate'[req[t].prop] # "none"
  PROVE  RowsStay /\ RowInv'
<1>1. RowsStay
  BY DEF RowsStay
<1>2. ASSUME NEW p \in Proposals, jstate'[p] # "none" PROVE pstate'[p] # "none"
  BY <1>2 DEF RowInv
<1>3. ASSUME NEW u \in Threads, pc'[u] # "idle" PROVE pstate'[req'[u].prop] # "none"
  <2>1. req'[u] = req[u] /\ pc[u] # "idle"
    BY <1>3
  <2>2. req[u].prop \in Proposals /\ pstate[req[u].prop] # "none"
    BY <2>1, ServedRequest DEF RowInv
  <2> QED BY <1>1, <2>1, <2>2 DEF RowsStay
<1> QED BY <1>1, <1>2, <1>3 DEF RowInv

LEMMA RowNext == TypeOK /\ RowInv /\ [Next]_vars => RowsStay /\ RowInv'
<1> SUFFICES ASSUME TypeOK, RowInv, [Next]_vars PROVE RowsStay /\ RowInv'
  OBVIOUS
<1> USE DEF store, process, bounds
<1>1. CASE Gate
  <2>1. PICK p \in Proposals, next \in ProposalStates \ {"none"} :
          /\ pstate' = [pstate EXCEPT ![p] = next]
          /\ UNCHANGED <<jstate, pc, req>>
    BY <1>1 DEF Gate, Create, Revert, Stage, Reject, ProposalStates
  <2>2. RowsStay
    BY <2>1 DEF RowsStay, TypeOK
  <2> QED BY <2>1, <2>2, ServedRequest DEF RowInv, RowsStay, TypeOK
<1>2. ASSUME NEW t \in Threads, Start(t) PROVE RowsStay /\ RowInv'
  BY <1>2, StartsRow DEF Start, ApplyChecked, ApplyTooLate, RecoverChecked, RowInv
<1>3. ASSUME NEW t \in Threads, Serve(t) \/ Refused(t) PROVE RowsStay /\ RowInv'
  <2>1. pc[t] # "idle" /\ req[t].prop \in Proposals /\ pstate[req[t].prop] # "none"
    <3>1. pc[t] # "idle"
      BY <1>3 DEF Serve, MarkExpired, ApplyRefused, ApplyBegins, RecoverRefused, RollbackBegins,
                  FinishBegins, WriteFile, VerifyFile, VerifyFails, CommitApply, CommitFinish,
                  FinishFails, RestoreFile, RestoreVerified, RestoreCorrupt, CommitRollback,
                  Refused, WriteRefused, RestoreRefused
    <3> QED BY <3>1, ServedRequest DEF RowInv
  <2>2. /\ \A u \in Threads \ {t} : pc'[u] = pc[u] /\ req'[u] = req[u]
        /\ pc'[t] = "idle" \/ req'[t] = req[t]
    <3>1. CASE MarkExpired(t) \/ ApplyRefused(t) \/ RecoverRefused(t)
      BY <3>1 DEF MarkExpired, ApplyRefused, RecoverRefused, Returns, TypeOK
    <3>2. CASE ApplyBegins(t) \/ RollbackBegins(t) \/ FinishBegins(t)
      BY <3>2 DEF ApplyBegins, RollbackBegins, FinishBegins, Acquires, TypeOK
    <3>3. CASE WriteFile(t) \/ VerifyFile(t) \/ RestoreFile(t) \/ RestoreVerified(t)
      BY <3>3 DEF WriteFile, VerifyFile, RestoreFile, RestoreVerified, TypeOK
    <3>4. CASE CommitApply(t) \/ CommitFinish(t) \/ CommitRollback(t)
      BY <3>4 DEF CommitApply, CommitFinish, CommitRollback, Settles, ReleasesAndReturns,
                  Returns, TypeOK
    <3>5. CASE VerifyFails(t) \/ FinishFails(t) \/ RestoreCorrupt(t) \/ Refused(t)
      BY <3>5 DEF VerifyFails, FinishFails, FailsJournal, RestoreCorrupt, Refused, WriteRefused,
                  RestoreRefused, ReleasesAndReturns, Returns, TypeOK
    <3> QED BY <1>3, <3>1, <3>2, <3>3, <3>4, <3>5 DEF Serve
  <2>3. /\ \A p \in Proposals \ {req[t].prop} : jstate'[p] = jstate[p] /\ pstate'[p] = pstate[p]
        /\ pstate'[req[t].prop] # "none"
    <3>1. CASE MarkExpired(t) \/ ApplyRefused(t) \/ RecoverRefused(t)
      BY <2>1, <3>1 DEF MarkExpired, ApplyRefused, RecoverRefused, TypeOK
    <3>2. CASE ApplyBegins(t) \/ RollbackBegins(t) \/ FinishBegins(t)
      BY <2>1, <3>2 DEF ApplyBegins, RollbackBegins, FinishBegins, TypeOK
    <3>3. CASE WriteFile(t) \/ VerifyFile(t) \/ RestoreFile(t) \/ RestoreVerified(t)
      BY <2>1, <3>3 DEF WriteFile, VerifyFile, RestoreFile, RestoreVerified, TypeOK
    <3>4. CASE CommitApply(t) \/ CommitFinish(t) \/ CommitRollback(t)
      BY <2>1, <3>4 DEF CommitApply, CommitFinish, CommitRollback, Settles, TypeOK
    <3>5. CASE VerifyFails(t) \/ FinishFails(t) \/ RestoreCorrupt(t) \/ Refused(t)
      BY <2>1, <3>5 DEF VerifyFails, FinishFails, FailsJournal, RestoreCorrupt, Refused,
                        WriteRefused, RestoreRefused, TypeOK
    <3> QED BY <1>3, <3>1, <3>2, <3>3, <3>4, <3>5 DEF Serve
  <2> QED BY <2>1, <2>2, <2>3, ServingKeepsRows
<1>4. CASE Environment
  BY <1>4 DEF Environment, Crash, Expiry, ExternalEdit, RowInv, RowsStay
<1>5. CASE UNCHANGED vars
  BY <1>5 DEF vars, RowInv, RowsStay
<1> QED
  BY <1>1, <1>2, <1>3, <1>4, <1>5 DEF Next

-----------------------------------------------------------------------------
(* The steps of a proposal. *)

LEMMA StageSteps ==
  ASSUME TypeOK, StepsInv, NEW p \in Proposals, NEW op, NEW wanted,
         \A v, w \in wanted : v.path = w.path \/ v.ord = w.ord => v = w,
         Stage(p, wanted, op)
  PROVE  StepsInv'
<1>1. PICK seen \in StagingViews(wanted) : steps' = [steps EXCEPT ![p] =
             {[ord |-> w.ord, path |-> w.path, base |-> file[w.path],
               result |-> w.result,
               backup |-> IF file[w.path] = Absent THEN Absent ELSE seen[w.path]] :
              w \in wanted}]
  BY DEF Stage
<1>2. ASSUME NEW q \in Proposals, NEW r \in steps'[q], NEW s \in steps'[q],
             r.path = s.path \/ r.ord = s.ord
      PROVE  r = s
  <2>1. CASE q = p
    <3>1. PICK v \in wanted :
            r = [ord |-> v.ord, path |-> v.path, base |-> file[v.path], result |-> v.result,
                 backup |-> IF file[v.path] = Absent THEN Absent ELSE seen[v.path]]
      BY <1>1, <2>1 DEF TypeOK
    <3>2. PICK w \in wanted :
            s = [ord |-> w.ord, path |-> w.path, base |-> file[w.path], result |-> w.result,
                 backup |-> IF file[w.path] = Absent THEN Absent ELSE seen[w.path]]
      BY <1>1, <2>1 DEF TypeOK
    <3>3. v.path = w.path \/ v.ord = w.ord
      BY <1>2, <3>1, <3>2
    <3>4. v = w
      BY <3>3
    <3> QED BY <3>1, <3>2, <3>4
  <2>2. CASE q # p
    BY <1>1, <1>2, <2>2 DEF TypeOK, StepsInv
  <2> QED BY <2>1, <2>2
<1> QED BY <1>2 DEF StepsInv

LEMMA StepsNext == TypeOK /\ StepsInv /\ [Next]_vars => StepsInv'
<1> SUFFICES ASSUME TypeOK, StepsInv, [Next]_vars PROVE StepsInv'
  OBVIOUS
<1> USE DEF store, process, bounds
<1>1. ASSUME NEW p \in Proposals, NEW op \in Operations, Create(p, op) PROVE StepsInv'
  <2> DEFINE wanted == {[ord |-> i, path |-> Changes[p][i].path, result |-> Changes[p][i].content] :
                        i \in DOMAIN Changes[p]}
  <2>1. ASSUME NEW v \in wanted, NEW w \in wanted, v.path = w.path \/ v.ord = w.ord PROVE v = w
    BY <2>1, ChangesAssumption
  <2>2. Stage(p, wanted, op)
    BY <1>1 DEF Create
  <2> HIDE DEF wanted
  <2> QED BY <2>1, <2>2, StageSteps
<1>2. ASSUME NEW p \in Proposals, NEW q \in Proposals, NEW op \in Operations, Revert(p, q, op)
      PROVE StepsInv'
  <2> DEFINE wanted == {[ord |-> s.ord, path |-> s.path, result |-> s.backup] : s \in steps[p]}
  <2>1. ASSUME NEW v \in wanted, NEW w \in wanted, v.path = w.path \/ v.ord = w.ord PROVE v = w
    BY <2>1 DEF StepsInv
  <2>2. Stage(q, wanted, op)
    BY <1>2 DEF Revert
  <2> HIDE DEF wanted
  <2> QED BY <2>1, <2>2, StageSteps
<1>3. CASE UNCHANGED steps
  BY <1>3 DEF StepsInv
<1>4. ASSUME NEW p \in Proposals, NEW op \in Operations, Reject(p, op) PROVE UNCHANGED steps
  BY <1>4 DEF Reject
<1>5. ASSUME NEW t \in Threads, Start(t) PROVE UNCHANGED steps
  BY <1>5 DEF Start, ApplyChecked, ApplyTooLate, RecoverChecked, Starts
<1>6. ASSUME NEW t \in Threads, Serve(t) \/ Refused(t) PROVE UNCHANGED steps
  BY <1>6 DEF Serve, MarkExpired, ApplyRefused, ApplyBegins, RecoverRefused, RollbackBegins,
              FinishBegins, WriteFile, VerifyFile, VerifyFails, CommitApply, CommitFinish,
              FinishFails, FailsJournal, Settles, RestoreFile, RestoreVerified, RestoreCorrupt,
              CommitRollback, Refused, WriteRefused, RestoreRefused
<1>7. CASE Environment \/ UNCHANGED vars
  BY <1>3, <1>7 DEF Environment, Crash, Expiry, ExternalEdit, vars
<1> QED
  BY <1>1, <1>2, <1>3, <1>4, <1>5, <1>6, <1>7 DEF Next, Gate

-----------------------------------------------------------------------------
(* The progress of the thread in the critical section. *)

\* Other tools may change files under a writing thread; each one is recorded.
LEMMA ProgressFrame ==
  ASSUME TypeOK, ProgressInv, touched \subseteq touched',
         \A e \in Paths \ touched' : file'[e] = file[e],
         \A u \in Threads : pc'[u] \in Critical =>
           /\ pc'[u] = pc[u] /\ todo'[u] = todo[u] /\ req'[u] = req[u]
           /\ steps'[req[u].prop] = steps[req[u].prop]
  PROVE  ProgressInv'
<1> SUFFICES ASSUME NEW u \in Threads, pc'[u] \in Critical PROVE Progress(u)'
  BY DEF ProgressInv
<1>1. /\ pc'[u] = pc[u] /\ todo'[u] = todo[u] /\ req'[u] = req[u]
      /\ steps'[req[u].prop] = steps[req[u].prop]
  OBVIOUS
<1>2. Progress(u)
  BY <1>1 DEF ProgressInv
<1>3. ASSUME NEW s \in steps[req[u].prop], s.path \notin touched' PROVE file'[s.path] = file[s.path]
  BY <1>1, <1>3, ServedRequest DEF Step
<1> QED BY <1>1, <1>2, <1>3 DEF Progress, Written, Restored

LEMMA NobodyCritical == (\A u \in Threads : pc'[u] \notin Critical) => ProgressInv'
BY DEF ProgressInv

\* The other threads are not in the critical section.
LEMMA ProgressOfHolder ==
  ASSUME LockInv, NEW t \in Threads, pc[t] \in Critical,
         \A u \in Threads \ {t} : pc'[u] = pc[u], Progress(t)'
  PROVE  ProgressInv'
BY MutualExclusion DEF ProgressInv

LEMMA ProgressAcquired ==
  ASSUME TypeOK, LockInv, NEW t \in Threads, lock = NoThread,
         NEW position \in {"write", "restore"}, NEW S, Acquires(t, position, S), Progress(t)'
  PROVE  ProgressInv'
BY NamesAssumption DEF Acquires, TypeOK, LockInv, ProgressInv

LEMMA ProgressNext == IInv /\ [Next]_vars => ProgressInv'
<1> SUFFICES ASSUME IInv, [Next]_vars PROVE ProgressInv'
  OBVIOUS
<1> USE DEF store, process, bounds
<1>0. TypeOK /\ LockInv /\ RowInv /\ StepsInv /\ ProgressInv
  BY DEF IInv
<1>1. CASE Gate
  <2>1. ASSUME NEW p \in Proposals, NEW op \in Operations, NEW wanted, Stage(p, wanted, op)
        PROVE  ProgressInv'
    <3>1. PICK seen \in StagingViews(wanted) :
            /\ file' = seen
            /\ touched' = IF seen = file \/ lock = NoThread THEN touched
                          ELSE touched \cup {w \in Paths : seen[w] # file[w]}
      BY <2>1 DEF Stage
    <3>2. UNCHANGED <<lock, pc, req, todo>>
      BY <2>1 DEF Stage
    <3>3. CASE lock = NoThread
      BY <1>0, <3>2, <3>3, NamesAssumption, NobodyCritical DEF LockInv
    <3>4. CASE lock # NoThread
      <4>1. \A e \in Paths \ touched' : file'[e] = file[e]
        BY <3>1, <3>4
      <4>2. ASSUME NEW u \in Threads, pc[u] \in Critical
            PROVE  steps'[req[u].prop] = steps[req[u].prop]
        <5>1. req[u].prop \in Proposals /\ pstate[req[u].prop] # "none"
          BY <1>0, <4>2, ServedRequest DEF RowInv
        <5>2. pstate[p] = "none"
          BY <2>1 DEF Stage
        <5>3. ASSUME NEW r \in Proposals \ {p} PROVE steps'[r] = steps[r]
          BY <1>0, <2>1 DEF Stage, TypeOK
        <5> QED BY <5>1, <5>2, <5>3
      <4>3. touched \subseteq touched'
        BY <3>1
      <4> QED BY <1>0, <3>2, <4>1, <4>2, <4>3, ProgressFrame
    <3> QED BY <3>3, <3>4
  <2>2. ASSUME NEW p \in Proposals, NEW op \in Operations, Reject(p, op) PROVE ProgressInv'
    BY <1>0, <2>2, ProgressFrame DEF Reject
  <2> QED BY <1>1, <2>1, <2>2 DEF Gate, Create, Revert
<1>2. ASSUME NEW t \in Threads, Start(t) PROVE ProgressInv'
  <2>1. PICK p \in Proposals, op \in Operations, mode \in {"apply", "rollback", "finish"},
             position \in {"expire", "applyWait", "recoverWait"} :
          Starts(t, p, mode, op, position)
    BY <1>2 DEF Start, ApplyChecked, ApplyTooLate, RecoverChecked
  <2> QED BY <1>0, <2>1, ProgressFrame DEF Starts, TypeOK
<1>3. ASSUME NEW t \in Threads, Serve(t) PROVE ProgressInv'
  <2>1. CASE MarkExpired(t) \/ ApplyRefused(t) \/ RecoverRefused(t)
    BY <1>0, <2>1, ProgressFrame DEF MarkExpired, ApplyRefused, RecoverRefused, Returns, TypeOK
  <2>2. CASE ApplyBegins(t)
    <3>1. Progress(t)'
      BY <1>0, <2>2 DEF ApplyBegins, Acquires, Progress, Written, PlanHolds, TypeOK
    <3> QED BY <1>0, <2>2, <3>1, ProgressAcquired DEF ApplyBegins
  <2>3. CASE RollbackBegins(t)
    <3>1. Progress(t)'
      BY <1>0, <2>3 DEF RollbackBegins, Acquires, Progress, Restored, Applied, Pending, External,
                        TypeOK
    <3> QED BY <1>0, <2>3, <3>1, ProgressAcquired DEF RollbackBegins
  <2>4. CASE FinishBegins(t)
    <3>1. Progress(t)'
      BY <1>0, <2>4 DEF FinishBegins, Acquires, Progress, Written, Applied, Pending, External,
                        TypeOK
    <3> QED BY <1>0, <2>4, <3>1, ProgressAcquired DEF FinishBegins
  <2>5. CASE WriteFile(t)
    <3>1. /\ pc[t] = "write" /\ pc'[t] = "verify"
          /\ \A u \in Threads \ {t} : pc'[u] = pc[u]
          /\ UNCHANGED <<steps, req, todo, touched>>
      BY <1>0, <2>5 DEF WriteFile, TypeOK
    <3>2. PICK s \in todo[t] :
            IsFirst(s, todo[t]) /\ file' = [file EXCEPT ![s.path] = s.result]
      BY <2>5 DEF WriteFile
    <3>3. Progress(t)
      BY <1>0, <3>1 DEF ProgressInv
    <3>4. ASSUME NEW r \in steps[req[t].prop], r # s PROVE file'[r.path] = file[r.path]
      <4>1. s \in steps[req[t].prop] /\ req[t].prop \in Proposals
        BY <1>0, <3>1, <3>3, ServedRequest DEF Progress
      <4>2. r.path # s.path
        BY <1>0, <3>4, <4>1 DEF StepsInv
      <4> QED BY <1>0, <3>2, <4>1, <4>2, ServedRequest DEF TypeOK, Step
    <3>5. Progress(t)'
      BY <3>1, <3>2, <3>3, <3>4 DEF Progress, Written, IsFirst
    <3> QED BY <1>0, <3>1, <3>5, ProgressOfHolder
  <2>6. CASE VerifyFile(t)
    <3>1. /\ pc[t] = "verify" /\ pc'[t] = "write"
          /\ \A u \in Threads \ {t} : pc'[u] = pc[u]
          /\ UNCHANGED <<file, steps, req, touched>>
      BY <1>0, <2>6 DEF VerifyFile, TypeOK
    <3>2. PICK s \in todo[t] :
            /\ IsFirst(s, todo[t])
            /\ file[s.path] = s.result
            /\ todo'[t] = todo[t] \ {s}
      BY <1>0, <2>6 DEF VerifyFile, TypeOK
    <3>3. Progress(t)
      BY <1>0, <3>1 DEF ProgressInv
    <3>4. ASSUME NEW r \in todo[t], IsFirst(r, todo[t]) PROVE r = s
      <4>1. r \in steps[req[t].prop] /\ s \in steps[req[t].prop] /\ req[t].prop \in Proposals
            /\ r \in Step /\ s \in Step
        BY <1>0, <3>1, <3>3, ServedRequest DEF Progress
      <4>2. r.ord = s.ord
        BY <3>2, <3>4, <4>1 DEF IsFirst, Step
      <4> QED BY <1>0, <4>1, <4>2 DEF StepsInv
    <3>5. Progress(t)'
      BY <3>1, <3>2, <3>3, <3>4 DEF Progress, Written
    <3> QED BY <1>0, <3>1, <3>5, ProgressOfHolder
  <2>7. CASE RestoreFile(t)
    <3>1. /\ pc[t] = "restore" /\ pc'[t] = "restored"
          /\ \A u \in Threads \ {t} : pc'[u] = pc[u]
          /\ UNCHANGED <<steps, req, todo, touched>>
      BY <1>0, <2>7 DEF RestoreFile, TypeOK
    <3>2. PICK s \in todo[t] :
            IsLast(s, todo[t]) /\ file' = [file EXCEPT ![s.path] = s.backup]
      BY <2>7 DEF RestoreFile
    <3>3. Progress(t)
      BY <1>0, <3>1 DEF ProgressInv
    <3>4. ASSUME NEW r \in steps[req[t].prop], r # s PROVE file'[r.path] = file[r.path]
      <4>1. s \in steps[req[t].prop] /\ req[t].prop \in Proposals
        BY <1>0, <3>1, <3>3, ServedRequest DEF Progress
      <4>2. r.path # s.path
        BY <1>0, <3>4, <4>1 DEF StepsInv
      <4> QED BY <1>0, <3>2, <4>1, <4>2, ServedRequest DEF TypeOK, Step
    <3>5. Progress(t)'
      BY <3>1, <3>2, <3>3, <3>4 DEF Progress, Restored, IsLast
    <3> QED BY <1>0, <3>1, <3>5, ProgressOfHolder
  <2>8. CASE RestoreVerified(t)
    <3>1. /\ pc[t] = "restored" /\ pc'[t] = "restore"
          /\ \A u \in Threads \ {t} : pc'[u] = pc[u]
          /\ UNCHANGED <<file, steps, req, touched>>
      BY <1>0, <2>8 DEF RestoreVerified, TypeOK
    <3>2. PICK s \in todo[t] :
            /\ IsLast(s, todo[t])
            /\ file[s.path] = s.base
            /\ todo'[t] = todo[t] \ {s}
      BY <1>0, <2>8 DEF RestoreVerified, TypeOK
    <3>3. Progress(t)
      BY <1>0, <3>1 DEF ProgressInv
    <3>4. ASSUME NEW r \in todo[t], IsLast(r, todo[t]) PROVE r = s
      <4>1. r \in steps[req[t].prop] /\ s \in steps[req[t].prop] /\ req[t].prop \in Proposals
            /\ r \in Step /\ s \in Step
        BY <1>0, <3>1, <3>3, ServedRequest DEF Progress
      <4>2. r.ord = s.ord
        BY <3>2, <3>4, <4>1 DEF IsLast, Step
      <4> QED BY <1>0, <4>1, <4>2 DEF StepsInv
    <3>5. Progress(t)'
      BY <3>1, <3>2, <3>3, <3>4 DEF Progress, Restored
    <3> QED BY <1>0, <3>1, <3>5, ProgressOfHolder
  <2>9. CASE CommitApply(t) \/ CommitFinish(t) \/ CommitRollback(t)
    BY <1>0, <2>9, ReleasesLock, NobodyCritical
       DEF CommitApply, CommitFinish, CommitRollback, Settles, LockInv
  <2>10. CASE VerifyFails(t) \/ FinishFails(t) \/ RestoreCorrupt(t)
    BY <1>0, <2>10, ReleasesLock, NobodyCritical
       DEF VerifyFails, FinishFails, FailsJournal, RestoreCorrupt, LockInv
  <2> QED
    BY <1>3, <2>1, <2>2, <2>3, <2>4, <2>5, <2>6, <2>7, <2>8, <2>9, <2>10 DEF Serve
<1>4. ASSUME NEW t \in Threads, Refused(t) PROVE ProgressInv'
  BY <1>0, <1>4, ReleasesLock, NobodyCritical
     DEF Refused, WriteRefused, FailsJournal, RestoreRefused, LockInv
<1>5. CASE Environment
  <2>1. CASE Crash
    BY <2>1, NobodyCritical DEF Crash
  <2>2. ASSUME NEW p \in Proposals, Expiry(p) PROVE ProgressInv'
    BY <1>0, <2>2, ProgressFrame DEF Expiry
  <2>3. ASSUME NEW path \in Paths, NEW content \in Hashes, ExternalEdit(path, content)
        PROVE  ProgressInv'
    <3>1. CASE lock = NoThread
      BY <1>0, <2>3, <3>1, NamesAssumption, NobodyCritical DEF ExternalEdit, LockInv
    <3>2. CASE lock # NoThread
      BY <1>0, <2>3, <3>2, ProgressFrame DEF ExternalEdit, TypeOK
    <3> QED BY <3>1, <3>2
  <2> QED BY <1>5, <2>1, <2>2, <2>3 DEF Environment
<1>6. CASE UNCHANGED vars
  BY <1>0, <1>6, ProgressFrame DEF vars
<1> QED
  BY <1>1, <1>2, <1>3, <1>4, <1>5, <1>6 DEF Next

\* Every reachable state satisfies the invariant.
THEOREM InvariantHolds == Spec => []IInv
<1>1. IInv /\ [Next]_vars => IInv'
  BY NextType, LockNext, RowNext, StepsNext, ProgressNext DEF IInv
<1> QED BY <1>1, InitInv, PTL DEF Spec

-----------------------------------------------------------------------------
(* What the invariant is for. *)

\* A file is written by the thread in the critical section, for the proposal
\* it serves, and only where that thread found the base or the result.
LEMMA OverwriteStep ==
  ASSUME IInv, [Next]_vars, NEW e \in Paths \ touched, Writes(e)
  PROVE  /\ lock \in Threads
         /\ \E s \in steps[req[lock].prop] : s.path = e /\ file[e] \in {s.base, s.result}
<1> USE DEF store, process, bounds
<1>0. TypeOK /\ LockInv /\ ProgressInv
  BY DEF IInv
<1>1. file'[e] # file[e] /\ edits' = edits
  BY DEF Writes
<1>2. CASE Gate
  <2>1. ASSUME NEW p, NEW op, NEW wanted, Stage(p, wanted, op) PROVE FALSE
    BY <1>0, <1>1, <2>1 DEF Stage, TypeOK
  <2>2. ASSUME NEW p, NEW op, Reject(p, op) PROVE FALSE
    BY <1>1, <2>2 DEF Reject
  <2> QED BY <1>2, <2>1, <2>2 DEF Gate, Create, Revert
<1>3. ASSUME NEW t \in Threads, WriteFile(t)
      PROVE  /\ lock \in Threads
             /\ \E s \in steps[req[lock].prop] : s.path = e /\ file[e] \in {s.base, s.result}
  <2>1. pc[t] = "write" /\ lock = t /\ Progress(t)
    BY <1>0, <1>3 DEF WriteFile, LockInv, ProgressInv
  <2>2. PICK s \in todo[t] : file' = [file EXCEPT ![s.path] = s.result]
    BY <1>3 DEF WriteFile
  <2>3. s.path = e /\ s \in steps[req[t].prop]
    BY <1>0, <1>1, <2>1, <2>2 DEF TypeOK, Progress
  <2>4. file[e] = s.base
    BY <2>1, <2>2, <2>3 DEF Progress, Written
  <2> QED BY <2>1, <2>3, <2>4
<1>4. ASSUME NEW t \in Threads, RestoreFile(t)
      PROVE  /\ lock \in Threads
             /\ \E s \in steps[req[lock].prop] : s.path = e /\ file[e] \in {s.base, s.result}
  <2>1. pc[t] = "restore" /\ lock = t /\ Progress(t)
    BY <1>0, <1>4 DEF RestoreFile, LockInv, ProgressInv
  <2>2. PICK s \in todo[t] : file' = [file EXCEPT ![s.path] = s.backup]
    BY <1>4 DEF RestoreFile
  <2>3. s.path = e /\ s \in steps[req[t].prop]
    BY <1>0, <1>1, <2>1, <2>2 DEF TypeOK, Progress
  <2>4. file[e] = s.result
    BY <2>1, <2>2, <2>3 DEF Progress, Restored
  <2> QED BY <2>1, <2>3, <2>4
<1>5. ASSUME NEW t \in Threads, Start(t) PROVE FALSE
  BY <1>1, <1>5 DEF Start, ApplyChecked, ApplyTooLate, RecoverChecked, Starts
<1>6. ASSUME NEW t \in Threads, Serve(t), ~WriteFile(t), ~RestoreFile(t) PROVE FALSE
  BY <1>1, <1>6 DEF Serve, MarkExpired, ApplyRefused, ApplyBegins, RecoverRefused,
       RollbackBegins, FinishBegins, VerifyFile, VerifyFails, CommitApply, CommitFinish,
       FinishFails, FailsJournal, Settles, RestoreVerified, RestoreCorrupt, CommitRollback
<1>7. ASSUME NEW t \in Threads, Refused(t) PROVE FALSE
  BY <1>1, <1>7 DEF Refused, WriteRefused, FailsJournal, RestoreRefused
<1>8. CASE Environment
  <2>1. ASSUME NEW path \in Paths, NEW content \in Hashes, ExternalEdit(path, content) PROVE FALSE
    BY <1>0, <1>1, <2>1, BoundsAssumption DEF ExternalEdit, TypeOK
  <2> QED BY <1>1, <1>8, <2>1 DEF Environment, Crash, Expiry
<1>9. CASE UNCHANGED vars
  BY <1>1, <1>9 DEF vars
<1> QED
  BY <1>2, <1>3, <1>4, <1>5, <1>6, <1>7, <1>8, <1>9 DEF Next

\* No interleaving of requests, stops, refused writes and edits lets the
\* workbench overwrite what another tool wrote before the lock was taken.
THEOREM EditsAreSafe == Spec => NeverOverwritesEdit
<1>1. IInv /\ [Next]_vars =>
        [ \A e \in Paths \ touched : Writes(e) =>
            /\ lock \in Threads
            /\ \E s \in steps[req[lock].prop] :
                 s.path = e /\ file[e] \in {s.base, s.result} ]_vars
  BY OverwriteStep
<1> QED BY <1>1, InvariantHolds, PTL DEF Spec, NeverOverwritesEdit

\* A journal is committed or rolled back by the last transaction of a request,
\* when no step of the proposal is left to do.
LEMMA SettlingStep ==
  ASSUME IInv, [Next]_vars, NEW p \in Proposals, jstate'[p] # jstate[p],
         jstate'[p] \in {"committed", "rolled-back"}
  PROVE  \E t \in Threads :
           /\ req[t].prop = p /\ todo[t] = {} /\ Progress(t)
           /\ jstate'[p] = "committed" => pc[t] = "write"
           /\ jstate'[p] = "rolled-back" => pc[t] = "restore"
<1> USE DEF store, process, bounds
<1>0. TypeOK /\ ProgressInv
  BY DEF IInv
<1>1. CASE Gate
  BY <1>1 DEF Gate, Create, Revert, Stage, Reject
<1>2. ASSUME NEW t \in Threads, Start(t) PROVE FALSE
  BY <1>2 DEF Start, ApplyChecked, ApplyTooLate, RecoverChecked, Starts
<1>3. ASSUME NEW t \in Threads, CommitApply(t) \/ CommitFinish(t) \/ CommitRollback(t)
      PROVE  /\ req[t].prop = p /\ todo[t] = {} /\ Progress(t)
             /\ jstate'[p] = "committed" => pc[t] = "write"
             /\ jstate'[p] = "rolled-back" => pc[t] = "restore"
  <2>1. todo[t] = {} /\ pc[t] \in {"write", "restore"}
    BY <1>3 DEF CommitApply, CommitFinish, CommitRollback
  <2>2. Progress(t)
    BY <1>0, <2>1 DEF ProgressInv
  <2>3. PICK journal \in {"committed", "rolled-back"} :
          /\ jstate' = [jstate EXCEPT ![req[t].prop] = journal]
          /\ journal = "committed" => pc[t] = "write"
          /\ journal = "rolled-back" => pc[t] = "restore"
    BY <1>3 DEF CommitApply, CommitFinish, CommitRollback, Settles
  <2> QED BY <1>0, <2>1, <2>2, <2>3 DEF TypeOK
<1>4. ASSUME NEW t \in Threads, Serve(t) \/ Refused(t),
             ~CommitApply(t), ~CommitFinish(t), ~CommitRollback(t)
      PROVE  FALSE
  <2>1. \/ UNCHANGED jstate
        \/ jstate' = [jstate EXCEPT ![req[t].prop] = "writing"]
        \/ jstate' = [jstate EXCEPT ![req[t].prop] = "recovery-required"]
    BY <1>4 DEF Serve, MarkExpired, ApplyRefused, ApplyBegins, RecoverRefused, RollbackBegins,
         FinishBegins, WriteFile, VerifyFile, VerifyFails, FinishFails, FailsJournal,
         RestoreFile, RestoreVerified, RestoreCorrupt, Refused, WriteRefused, RestoreRefused
  <2> QED BY <1>0, <2>1 DEF TypeOK
<1>5. CASE Environment \/ UNCHANGED vars
  BY <1>5 DEF Environment, Crash, Expiry, ExternalEdit, vars
<1> QED
  BY <1>1, <1>2, <1>3, <1>4, <1>5 DEF Next, Serve

\* A proposal reported applied has its reviewed result in every file.
THEOREM AppliedIsComplete == Spec => CommitMeansResult
<1>1. ASSUME IInv, [Next]_vars, NEW p \in Proposals,
             jstate[p] # "committed", jstate'[p] = "committed", NEW s \in steps[p]
      PROVE  file[s.path] = s.result \/ s.path \in touched
  BY <1>1, SettlingStep DEF Progress, Written
<1>2. IInv /\ [Next]_vars =>
        [ \A p \in Proposals : jstate[p] # "committed" /\ jstate'[p] = "committed" =>
            \A s \in steps[p] : file[s.path] = s.result \/ s.path \in touched ]_vars
  BY <1>1
<1> QED BY <1>2, InvariantHolds, PTL DEF Spec, CommitMeansResult

\* A proposal reported rolled back has its reviewed base in every file.
THEOREM RolledBackIsComplete == Spec => RollbackMeansBase
<1>1. ASSUME IInv, [Next]_vars, NEW p \in Proposals,
             jstate[p] # "rolled-back", jstate'[p] = "rolled-back", NEW s \in steps[p]
      PROVE  file[s.path] = s.base \/ s.path \in touched
  BY <1>1, SettlingStep DEF Progress, Restored
<1>2. IInv /\ [Next]_vars =>
        [ \A p \in Proposals : jstate[p] # "rolled-back" /\ jstate'[p] = "rolled-back" =>
            \A s \in steps[p] : file[s.path] = s.base \/ s.path \in touched ]_vars
  BY <1>1
<1> QED BY <1>2, InvariantHolds, PTL DEF Spec, RollbackMeansBase

-----------------------------------------------------------------------------
(* One request after another: what holds when the server has one thread.   *)

Alone == \A t, u \in Threads : t = u

\* What a request was checked against is still so while it waits, and a
\* recovery works on a journal that is not settled.
Serial ==
  \A t \in Threads :
    /\ pc[t] \in {"applyWait", "expire"} =>
         pstate[req[t].prop] = "awaiting-authorization" /\ ~Blocked
    /\ pc[t] = "expire" => req[t].prop \in late
    /\ pc[t] \in Critical \cup {"recoverWait"} => jstate[req[t].prop] \in Incomplete

\* Only a proposal with a row can be late.
LateInv == \A p \in late : pstate[p] # "none"

\* While no other tool touches the project, the backups are the files they were
\* taken of and a half-written file is as before or as proposed.
Whole ==
  edits = 0 =>
    \A p \in Proposals : \A s \in steps[p] :
      /\ s.backup = s.base
      /\ jstate[p] \in Incomplete => file[s.path] \in {s.base, s.result}

SerialInv == IInv /\ OneIncomplete /\ Serial /\ LateInv /\ Whole

LEMMA InitSerial == Init => SerialInv
BY InitInv DEF Init, SerialInv, OneIncomplete, Serial, LateInv, Whole

\* A step that leaves the thread idle, and at most settles the journal.
LEMMA WholeFrame ==
  ASSUME TypeOK, Whole, edits' = edits, UNCHANGED <<file, steps>>,
         \A p \in Proposals : jstate'[p] \in Incomplete => jstate[p] \in Incomplete
  PROVE  Whole'
BY DEF Whole

LEMMA IdleSerial == (\A t \in Threads : pc'[t] = "idle") => Serial'
BY DEF Serial

\* A request that is over: nothing of the database changes, or its own row and
\* journal.
LEMMA OverSerial ==
  ASSUME Alone, SerialInv, IInv', NEW t \in Threads, pc[t] # "idle", pc'[t] = "idle",
         UNCHANGED <<file, steps, late, edits>>,
         \A p \in Proposals \ {req[t].prop} : jstate'[p] = jstate[p] /\ pstate'[p] = pstate[p],
         jstate'[req[t].prop] \in Incomplete => jstate[req[t].prop] \in Incomplete,
         pstate'[req[t].prop] # "none"
  PROVE  SerialInv'
<1>1. TypeOK /\ req[t].prop \in Proposals
  BY ServedRequest DEF SerialInv, IInv
<1>2. \A p \in Proposals : jstate'[p] \in Incomplete => jstate[p] \in Incomplete
  BY <1>1
<1>3. OneIncomplete' /\ Whole'
  BY <1>1, <1>2, WholeFrame DEF SerialInv, OneIncomplete
<1>4. LateInv'
  BY <1>1 DEF SerialInv, LateInv, TypeOK
<1>5. Serial'
  BY IdleSerial DEF Alone
<1> QED
  BY <1>3, <1>4, <1>5 DEF SerialInv

LEMMA StageSerial ==
  ASSUME Alone, SerialInv, IInv', NEW p \in Proposals, NEW op \in Operations, NEW wanted,
         \A t \in Threads : pc[t] = "idle",
         \A w \in wanted : w.path \in Paths,
         Stage(p, wanted, op)
  PROVE  SerialInv'
<1>1. TypeOK /\ RowInv
  BY DEF SerialInv, IInv
<1>2. /\ pstate[p] = "none" /\ UNCHANGED <<late, jstate, pc, req, lock>>
      /\ pstate' = [pstate EXCEPT ![p] = "awaiting-authorization"]
  BY DEF Stage
<1>3. jstate[p] = "none"
  BY <1>1, <1>2 DEF RowInv
<1>4. OneIncomplete' /\ Serial'
  BY <1>2, IdleSerial DEF SerialInv, OneIncomplete
<1>5. LateInv'
  BY <1>1, <1>2 DEF SerialInv, LateInv, TypeOK
<1>6. Whole'
  <2> SUFFICES ASSUME edits' = 0, NEW q \in Proposals, NEW s \in steps'[q]
               PROVE  /\ s.backup = s.base
                      /\ jstate'[q] \in Incomplete => file'[s.path] \in {s.base, s.result}
    BY DEF Whole
  <2>1. PICK seen \in StagingViews(wanted) :
          /\ steps' = [steps EXCEPT ![p] =
               {[ord |-> w.ord, path |-> w.path, base |-> file[w.path],
                 result |-> w.result,
                 backup |-> IF file[w.path] = Absent THEN Absent ELSE seen[w.path]] :
                w \in wanted}]
          /\ file' = seen
          /\ edits' = IF seen = file THEN edits ELSE edits + 1
    BY DEF Stage
  <2>2. seen = file /\ edits = 0
    BY <1>1, <2>1, BoundsAssumption DEF TypeOK
  <2>3. CASE q = p
    <3>1. PICK w \in wanted :
            s = [ord |-> w.ord, path |-> w.path, base |-> file[w.path], result |-> w.result,
                 backup |-> IF file[w.path] = Absent THEN Absent ELSE file[w.path]]
      BY <1>1, <2>1, <2>2, <2>3 DEF TypeOK
    <3>2. s.backup = s.base
      BY <3>1
    <3> QED
      BY <1>2, <1>3, <2>3, <3>2
  <2>4. CASE q # p
    BY <1>1, <1>2, <2>1, <2>2, <2>4 DEF SerialInv, Whole, TypeOK
  <2> QED
    BY <2>3, <2>4
<1> QED
  BY <1>4, <1>5, <1>6 DEF SerialInv

LEMMA GateSerial ==
  ASSUME Alone, SerialInv, IInv', Gate
  PROVE  SerialInv'
<1>1. \A t \in Threads : pc[t] = "idle"
  BY DEF Gate, Alone
<1>2. TypeOK
  BY DEF SerialInv, IInv
<1>3. ASSUME NEW p \in Proposals, NEW op \in Operations, Create(p, op)
      PROVE  SerialInv'
  <2> DEFINE wanted == {[ord |-> i, path |-> Changes[p][i].path, result |-> Changes[p][i].content] :
                        i \in DOMAIN Changes[p]}
  <2>1. \A w \in wanted : w.path \in Paths
    BY ChangesType
  <2>2. Stage(p, wanted, op)
    BY <1>3 DEF Create
  <2> HIDE DEF wanted
  <2> QED
    BY <1>1, <2>1, <2>2, StageSerial
<1>4. ASSUME NEW p \in Proposals, NEW q \in Proposals, NEW op \in Operations, Revert(p, q, op)
      PROVE  SerialInv'
  <2> DEFINE wanted == {[ord |-> s.ord, path |-> s.path, result |-> s.backup] : s \in steps[p]}
  <2>1. \A w \in wanted : w.path \in Paths
    BY <1>2 DEF TypeOK, Step
  <2>2. Stage(q, wanted, op)
    BY <1>4 DEF Revert
  <2> HIDE DEF wanted
  <2> QED
    BY <1>1, <2>1, <2>2, StageSerial
<1>5. ASSUME NEW p \in Proposals, NEW op \in Operations, Reject(p, op)
      PROVE  SerialInv'
  <2>1. UNCHANGED <<file, steps, late, jstate, lock, pc, req, todo, touched, edits>>
        /\ pstate' = [pstate EXCEPT ![p] = "rejected"]
    BY <1>5 DEF Reject, process, bounds
  <2>2. OneIncomplete' /\ Whole' /\ Serial'
    BY <1>1, <1>2, <2>1, WholeFrame, IdleSerial DEF SerialInv, OneIncomplete
  <2>3. LateInv'
    BY <1>2, <2>1 DEF SerialInv, LateInv, TypeOK
  <2> QED
    BY <2>2, <2>3 DEF SerialInv
<1> QED
  BY <1>3, <1>4, <1>5 DEF Gate

LEMMA StartSerial ==
  ASSUME Alone, SerialInv, IInv', NEW t \in Threads, Start(t)
  PROVE  SerialInv'
<1>1. TypeOK
  BY DEF SerialInv, IInv
<1>2. PICK p \in Proposals, op \in Operations :
        \/ ApplyChecked(t, p, op) \/ ApplyTooLate(t, p, op)
        \/ \E mode \in {"rollback", "finish"} : RecoverChecked(t, p, mode, op)
  BY DEF Start
<1>3. UNCHANGED <<file, pstate, steps, late, jstate, edits>>
  BY <1>2 DEF ApplyChecked, ApplyTooLate, RecoverChecked, Starts, store, bounds
<1>4. req'[t].prop = p
  BY <1>1, <1>2 DEF ApplyChecked, ApplyTooLate, RecoverChecked, Starts, TypeOK
<1>5. \/ pc'[t] = "applyWait" /\ pstate[p] = "awaiting-authorization" /\ ~Blocked
      \/ pc'[t] = "expire" /\ pstate[p] = "awaiting-authorization" /\ ~Blocked /\ p \in late
      \/ pc'[t] = "recoverWait" /\ jstate[p] \in Incomplete
  BY <1>1, <1>2 DEF ApplyChecked, ApplyTooLate, RecoverChecked, Starts, TypeOK
<1>6. Blocked' = Blocked
  BY <1>3 DEF Blocked
<1>7. Serial'
  BY <1>3, <1>4, <1>5, <1>6 DEF Serial, Alone
<1>8. OneIncomplete' /\ Whole' /\ LateInv'
  BY <1>1, <1>3, WholeFrame DEF SerialInv, OneIncomplete, LateInv
<1> QED
  BY <1>7, <1>8 DEF SerialInv

\* A step inside the critical section keeps the journal of its proposal open.
LEMMA CriticalSerial ==
  ASSUME Alone, SerialInv, IInv', NEW t \in Threads, pc[t] # "idle", pc'[t] \in Critical,
         req'[t] = req[t], UNCHANGED <<pstate, steps, late, edits>>, OneIncomplete', Whole',
         jstate'[req[t].prop] \in Incomplete
  PROVE  SerialInv'
<1>1. Serial'
  BY DEF Serial, Alone
<1>2. LateInv'
  BY DEF SerialInv, LateInv
<1> QED
  BY <1>1, <1>2 DEF SerialInv

LEMMA ServeSerial ==
  ASSUME Alone, SerialInv, IInv', NEW t \in Threads, Serve(t) \/ Refused(t)
  PROVE  SerialInv'
<1> USE DEF store, process, bounds
<1> DEFINE p == req[t].prop
<1>1. pc[t] # "idle"
  BY DEF Serve, MarkExpired, ApplyRefused, ApplyBegins, RecoverRefused, RollbackBegins,
         FinishBegins, WriteFile, VerifyFile, VerifyFails, CommitApply, CommitFinish,
         FinishFails, RestoreFile, RestoreVerified, RestoreCorrupt, CommitRollback,
         Refused, WriteRefused, RestoreRefused
<1>2. TypeOK /\ p \in Proposals /\ pstate[p] # "none" /\ StepsInv
  BY <1>1, ServedRequest DEF SerialInv, IInv, RowInv
<1>3. /\ pc[t] \in {"applyWait", "expire"} => pstate[p] = "awaiting-authorization" /\ ~Blocked
      /\ pc[t] \in Critical \cup {"recoverWait"} => jstate[p] \in Incomplete
  BY DEF SerialInv, Serial
<1>4. pc[t] \in Critical => todo[t] \subseteq steps[p]
  BY DEF SerialInv, IInv, ProgressInv, Progress
<1> HIDE DEF p
<1>5. CASE MarkExpired(t) \/ ApplyRefused(t) \/ RecoverRefused(t) \/ RestoreRefused(t) \/ RestoreCorrupt(t)
  <2>1. pc'[t] = "idle" /\ UNCHANGED <<file, steps, late, jstate, edits>>
    BY <1>2, <1>5 DEF MarkExpired, ApplyRefused, RecoverRefused, RestoreRefused, RestoreCorrupt,
       ReleasesAndReturns, Returns, TypeOK
  <2>2. pstate' = pstate \/ pstate' = [pstate EXCEPT ![p] = "expired"]
    BY <1>5 DEF MarkExpired, ApplyRefused, RecoverRefused, RestoreRefused, RestoreCorrupt, p
  <2>3. (\A q \in Proposals \ {p} : pstate'[q] = pstate[q]) /\ pstate'[p] # "none"
    BY <1>2, <2>2 DEF TypeOK
  <2> QED
    BY <1>1, <2>1, <2>3, OverSerial DEF p
<1>6. CASE VerifyFails(t) \/ FinishFails(t) \/ WriteRefused(t)
  <2>1. pc'[t] = "idle" /\ UNCHANGED <<file, steps, late, pstate, edits>>
    BY <1>2, <1>6 DEF VerifyFails, FinishFails, WriteRefused, FailsJournal, ReleasesAndReturns, Returns, TypeOK
  <2>2. pc[t] \in Critical /\ jstate' = [jstate EXCEPT ![p] = "recovery-required"]
    BY <1>6 DEF VerifyFails, FinishFails, WriteRefused, FailsJournal, p
  <2>3. (\A q \in Proposals \ {p} : jstate'[q] = jstate[q]) /\ jstate[p] \in Incomplete
    BY <1>2, <1>3, <2>2 DEF TypeOK
  <2> QED
    BY <1>1, <1>2, <2>1, <2>3, OverSerial DEF p
<1>7. CASE CommitApply(t) \/ CommitFinish(t) \/ CommitRollback(t)
  <2>1. pc'[t] = "idle" /\ UNCHANGED <<file, steps, late, edits>> /\ pc[t] \in Critical
    BY <1>2, <1>7 DEF CommitApply, CommitFinish, CommitRollback, Settles, ReleasesAndReturns, Returns, TypeOK
  <2>2. \/ UNCHANGED <<jstate, pstate>>
        \/ \E j \in {"committed", "rolled-back"}, s \in {"applied", "rolled-back"} :
             jstate' = [jstate EXCEPT ![p] = j] /\ pstate' = [pstate EXCEPT ![p] = s]
    BY <1>7 DEF CommitApply, CommitFinish, CommitRollback, Settles, p
  <2>3. /\ \A q \in Proposals \ {p} : jstate'[q] = jstate[q] /\ pstate'[q] = pstate[q]
        /\ jstate[p] \in Incomplete /\ pstate'[p] # "none"
    BY <1>2, <1>3, <2>1, <2>2 DEF TypeOK
  <2> QED
    BY <1>1, <2>1, <2>3, OverSerial DEF p
<1>8. CASE ApplyBegins(t)
  <2>1. /\ pc'[t] \in Critical /\ req' = req /\ pc[t] = "applyWait"
        /\ UNCHANGED <<file, pstate, steps, late, edits>>
    BY <1>2, <1>8 DEF ApplyBegins, Acquires, TypeOK
  <2>2. PlanHolds(p) /\ jstate' = [jstate EXCEPT ![p] = "writing"]
    BY <1>8 DEF ApplyBegins, p
  <2>3. \A q \in Proposals : jstate[q] \notin Incomplete
    BY <1>3, <2>1 DEF Blocked
  <2>4. jstate'[p] = "writing" /\ \A q \in Proposals : jstate'[q] \in Incomplete => q = p
    BY <1>2, <2>2, <2>3 DEF TypeOK
  <2>5. OneIncomplete'
    BY <2>4 DEF OneIncomplete
  <2>6. Whole'
    BY <2>1, <2>2, <2>4 DEF SerialInv, Whole, PlanHolds
  <2> QED
    BY <1>1, <2>1, <2>4, <2>5, <2>6, CriticalSerial DEF p
<1>9. CASE RollbackBegins(t) \/ FinishBegins(t) \/ RestoreVerified(t)
  <2>1. /\ pc'[t] \in Critical /\ req' = req /\ pc[t] \in Critical \cup {"recoverWait"}
        /\ UNCHANGED <<file, pstate, steps, late, jstate, edits>>
    BY <1>2, <1>9 DEF RollbackBegins, FinishBegins, RestoreVerified, Acquires, TypeOK
  <2>2. OneIncomplete' /\ Whole'
    BY <1>2, <2>1, WholeFrame DEF SerialInv, OneIncomplete
  <2> QED
    BY <1>1, <1>3, <2>1, <2>2, CriticalSerial DEF p
<1>10. CASE VerifyFile(t)
  <2>1. /\ pc'[t] \in Critical /\ req' = req /\ pc[t] \in Critical
        /\ UNCHANGED <<file, pstate, steps, late, edits>>
        /\ jstate' = [jstate EXCEPT ![p] = "writing"]
    BY <1>2, <1>10 DEF VerifyFile, TypeOK, p
  <2>2. jstate'[p] \in Incomplete /\ \A q \in Proposals : jstate'[q] \in Incomplete => jstate[q] \in Incomplete
    BY <1>2, <1>3, <2>1 DEF TypeOK
  <2>3. OneIncomplete' /\ Whole'
    BY <1>2, <2>1, <2>2, WholeFrame DEF SerialInv, OneIncomplete
  <2> QED
    BY <1>1, <2>1, <2>2, <2>3, CriticalSerial DEF p
<1>11. CASE WriteFile(t) \/ RestoreFile(t)
  <2>1. /\ pc'[t] \in Critical /\ req' = req /\ pc[t] \in Critical
        /\ UNCHANGED <<pstate, steps, late, jstate, edits>>
    BY <1>2, <1>11 DEF WriteFile, RestoreFile, TypeOK
  <2>2. PICK s \in steps[p] : \/ file' = [file EXCEPT ![s.path] = s.result]
                             \/ file' = [file EXCEPT ![s.path] = s.backup]
    BY <1>4, <1>11, <2>1 DEF WriteFile, RestoreFile
  <2>3. Whole'
    <3> SUFFICES ASSUME edits = 0, NEW q \in Proposals, NEW r \in steps[q]
                 PROVE  /\ r.backup = r.base
                        /\ jstate[q] \in Incomplete => file'[r.path] \in {r.base, r.result}
      BY <2>1 DEF Whole
    <3>1. /\ r.backup = r.base /\ s.backup = s.base
          /\ jstate[q] \in Incomplete => file[r.path] \in {r.base, r.result}
      BY <1>2 DEF SerialInv, Whole
    <3>2. s \in Step /\ r \in Step
      BY <1>2 DEF TypeOK
    <3>3. CASE r.path = s.path /\ jstate[q] \in Incomplete
      <4>1. q = p
        BY <1>2, <1>3, <2>1, <3>3 DEF SerialInv, OneIncomplete
      <4>2. r = s
        BY <1>2, <3>3, <4>1 DEF StepsInv
      <4>3. file'[s.path] \in {s.result, s.backup}
        BY <1>2, <2>2, <3>2 DEF TypeOK, Step
      <4> QED
        BY <3>1, <4>2, <4>3
    <3>4. CASE r.path # s.path
      <4>1. file'[r.path] = file[r.path]
        BY <1>2, <2>2, <3>2, <3>4 DEF TypeOK, Step
      <4> QED
        BY <3>1, <4>1
    <3> QED
      BY <3>1, <3>3, <3>4
  <2>4. OneIncomplete'
    BY <2>1 DEF SerialInv, OneIncomplete
  <2> QED
    BY <1>1, <1>3, <2>1, <2>3, <2>4, CriticalSerial DEF p
<1> QED
  BY <1>5, <1>6, <1>7, <1>8, <1>9, <1>10, <1>11 DEF Serve, Refused

LEMMA EnvironmentSerial ==
  ASSUME Alone, SerialInv, IInv', Environment
  PROVE  SerialInv'
<1> USE DEF store, process, bounds
<1>1. TypeOK
  BY DEF SerialInv, IInv
<1>2. CASE Crash
  BY <1>1, <1>2, WholeFrame, IdleSerial DEF Crash, SerialInv, OneIncomplete, LateInv
<1>3. ASSUME NEW p \in Proposals, Expiry(p)
      PROVE  SerialInv'
  <2>1. /\ UNCHANGED <<file, pstate, steps, jstate, pc, req, edits>>
        /\ late' = late \cup {p} /\ pstate[p] = "awaiting-authorization"
    BY <1>3 DEF Expiry
  <2>2. Serial' /\ LateInv'
    BY <2>1 DEF SerialInv, Serial, LateInv, Blocked
  <2>3. OneIncomplete' /\ Whole'
    BY <1>1, <2>1, WholeFrame DEF SerialInv, OneIncomplete
  <2> QED
    BY <2>2, <2>3 DEF SerialInv
<1>4. ASSUME NEW path \in Paths, NEW content \in Hashes, ExternalEdit(path, content)
      PROVE  SerialInv'
  <2>1. UNCHANGED <<pstate, steps, late, jstate, pc, req>> /\ edits' = edits + 1
    BY <1>4 DEF ExternalEdit
  <2>2. Whole'
    BY <1>1, <2>1 DEF Whole, TypeOK
  <2>3. Serial' /\ LateInv' /\ OneIncomplete'
    BY <2>1 DEF SerialInv, Serial, LateInv, Blocked, OneIncomplete
  <2> QED
    BY <2>2, <2>3 DEF SerialInv
<1> QED
  BY <1>2, <1>3, <1>4 DEF Environment

LEMMA NextSerial == Alone => (SerialInv /\ IInv' /\ [Next]_vars => SerialInv')
<1> SUFFICES ASSUME Alone, SerialInv, IInv', [Next]_vars PROVE SerialInv'
  OBVIOUS
<1>1. CASE UNCHANGED vars
  BY <1>1, WholeFrame DEF vars, store, process, bounds, SerialInv, Serial, LateInv, Blocked, OneIncomplete, IInv
<1> QED
  BY <1>1, GateSerial, StartSerial, ServeSerial, EnvironmentSerial DEF Next

\* With one thread, a half-written proposal is the only one of its project and
\* can be resolved, wherever the process stopped or a write was refused.
THEOREM RecoveryIsOffered ==
  ASSUME Alone
  PROVE  Spec => []RecoveryOffered
<1>1. SerialInv /\ IInv' /\ [Next]_vars => SerialInv'
  BY NextSerial
<1>2. SerialInv => RecoveryOffered
  BY DEF SerialInv, RecoveryOffered, Whole, External, Pending, Applied, IInv, TypeOK
<1> QED
  BY <1>1, <1>2, InitSerial, InvariantHolds, PTL DEF Spec

\* A step that changes a project file is taken in the critical section.
LEMMA WriterStep ==
  ASSUME IInv, [Next]_vars, NEW e \in Paths, Writes(e)
  PROVE  lock \in Threads /\ pc[lock] \in Critical
<1>1. file'[e] # file[e] /\ edits' = edits /\ edits \in Nat
  BY BoundsAssumption DEF Writes, IInv, TypeOK
<1>2. CASE \E t \in Threads : WriteFile(t) \/ RestoreFile(t)
  BY <1>2 DEF WriteFile, RestoreFile, IInv, LockInv
<1>3. ASSUME NEW p, NEW op, NEW wanted, Stage(p, wanted, op)
      PROVE  FALSE
  BY <1>1, <1>3 DEF Stage
<1>4. ASSUME NEW p, NEW op, Reject(p, op)
      PROVE  FALSE
  BY <1>1, <1>4 DEF Reject
<1>5. ASSUME NEW t \in Threads, Start(t) PROVE FALSE
  BY <1>1, <1>5 DEF Start, ApplyChecked, ApplyTooLate, RecoverChecked, Starts
<1>6. ASSUME NEW t \in Threads, Serve(t) \/ Refused(t), ~WriteFile(t), ~RestoreFile(t) PROVE FALSE
  BY <1>1, <1>6 DEF Serve, MarkExpired, ApplyRefused, ApplyBegins, RecoverRefused,
       RollbackBegins, FinishBegins, VerifyFile, VerifyFails, CommitApply, CommitFinish,
       FinishFails, FailsJournal, Settles, RestoreVerified, RestoreCorrupt, CommitRollback,
       Refused, WriteRefused, RestoreRefused
<1>7. ~Environment
  BY <1>1 DEF Environment, Crash, Expiry, ExternalEdit
<1>8. ~UNCHANGED vars
  BY <1>1 DEF vars
<1> QED
  BY <1>2, <1>3, <1>4, <1>5, <1>6, <1>7, <1>8 DEF Next, Gate, Create, Revert

\* With one thread, no project file changes before the journal says so.
THEOREM JournalIsWrittenAhead ==
  ASSUME Alone
  PROVE  Spec => WriteAheadJournal
<1>1. SerialInv /\ IInv' /\ [Next]_vars => SerialInv'
  BY NextSerial
<1>2. SerialInv /\ [Next]_vars =>
        [ \A e \in Paths : Writes(e) =>
            /\ lock \in Threads
            /\ jstate[req[lock].prop] \in Incomplete ]_vars
  BY WriterStep DEF SerialInv, Serial
<1> QED
  BY <1>1, <1>2, InitSerial, InvariantHolds, PTL DEF Spec, WriteAheadJournal

-----------------------------------------------------------------------------
(* The refinement of ProposalLifecycle.                                    *)

LEMMA ShownInit == Init => Shown!Init
BY DEF Init, Shown!Init, ShownState, EffectiveState

\* What is shown of a proposal depends on its row and its journal.
LEMMA ShownFrame ==
  ASSUME NEW p \in Proposals,
         (p \in late') = (p \in late), pstate'[p] = pstate[p],
         jstate'[p] = jstate[p] \/ {jstate[p], jstate'[p]} \subseteq Incomplete
  PROVE  EffectiveState(p)' = EffectiveState(p)
BY DEF EffectiveState

LEMMA ShownStays ==
  ASSUME \A p \in Proposals : EffectiveState(p)' = EffectiveState(p)
  PROVE  UNCHANGED ShownState
BY DEF ShownState

LEMMA ShownBecomes ==
  ASSUME NEW p \in Proposals, \A q \in Proposals \ {p} : EffectiveState(q)' = EffectiveState(q)
  PROVE  /\ ShownState[p] = EffectiveState(p)
         /\ Shown!Becomes(p, EffectiveState(p)')
BY DEF ShownState, Shown!Becomes

\* A project without an unfinished write is settled, also as it is shown.
LEMMA ShownSettled ==
  ASSUME TypeOK, ~Blocked
  PROVE  Shown!Settled
BY DEF TypeOK, ProposalStates, Blocked, ShownState, Shown!Settled, EffectiveState

LEMMA StageShown ==
  ASSUME SerialInv, NEW p \in Proposals, NEW op, NEW wanted, Stage(p, wanted, op)
  PROVE  Shown!Next
<1>1. TypeOK /\ RowInv /\ LateInv
  BY DEF SerialInv, IInv
<1>2. /\ pstate[p] = "none" /\ ~Blocked /\ UNCHANGED <<late, jstate>>
      /\ pstate' = [pstate EXCEPT ![p] = "awaiting-authorization"]
  BY DEF Stage
<1>3. jstate[p] = "none" /\ p \notin late
  BY <1>1, <1>2 DEF RowInv, LateInv
<1>4. EffectiveState(p) = "none" /\ EffectiveState(p)' = "awaiting-authorization"
  BY <1>1, <1>2, <1>3 DEF EffectiveState, TypeOK
<1>5. \A q \in Proposals \ {p} : EffectiveState(q)' = EffectiveState(q)
  BY <1>1, <1>2, ShownFrame DEF TypeOK
<1>6. Shown!Propose(p)
  BY <1>1, <1>2, <1>4, <1>5, ShownBecomes, ShownSettled DEF Shown!Propose
<1> QED
  BY <1>6 DEF Shown!Next

LEMMA RejectShown ==
  ASSUME SerialInv, NEW p \in Proposals, NEW op, Reject(p, op)
  PROVE  Shown!Next \/ UNCHANGED ShownState
<1>1. TypeOK
  BY DEF SerialInv, IInv
<1>2. /\ pstate[p] = "awaiting-authorization" /\ UNCHANGED <<late, jstate>>
      /\ pstate' = [pstate EXCEPT ![p] = "rejected"]
  BY DEF Reject
<1>3. \A q \in Proposals \ {p} : EffectiveState(q)' = EffectiveState(q)
  BY <1>1, <1>2, ShownFrame DEF TypeOK
<1>4. CASE jstate[p] \in Incomplete
  <2>1. EffectiveState(p)' = EffectiveState(p)
    BY <1>2, <1>4 DEF EffectiveState
  <2> QED
    BY <1>3, <2>1, ShownStays
<1>5. CASE jstate[p] \notin Incomplete
  <2>1. EffectiveState(p) \in {"awaiting-authorization", "expired"} /\ EffectiveState(p)' = "rejected"
    BY <1>1, <1>2, <1>5 DEF EffectiveState, TypeOK
  <2>2. Shown!Reject(p)
    BY <1>3, <2>1, ShownBecomes DEF Shown!Reject
  <2> QED
    BY <2>2 DEF Shown!Next
<1> QED
  BY <1>4, <1>5

LEMMA ExpiryShown ==
  ASSUME SerialInv, NEW p \in Proposals, Expiry(p)
  PROVE  Shown!Next \/ UNCHANGED ShownState
<1>1. /\ pstate[p] = "awaiting-authorization" /\ p \notin late
      /\ UNCHANGED <<pstate, jstate>> /\ late' = late \cup {p}
  BY DEF Expiry
<1>2. \A q \in Proposals \ {p} : EffectiveState(q)' = EffectiveState(q)
  BY <1>1, ShownFrame
<1>3. CASE jstate[p] \in Incomplete
  <2>1. EffectiveState(p)' = EffectiveState(p)
    BY <1>1, <1>3 DEF EffectiveState
  <2> QED
    BY <1>2, <2>1, ShownStays
<1>4. CASE jstate[p] \notin Incomplete
  <2>1. EffectiveState(p) = "awaiting-authorization" /\ EffectiveState(p)' = "expired"
    BY <1>1, <1>4 DEF EffectiveState
  <2>2. Shown!Expire(p)
    BY <1>2, <2>1, ShownBecomes DEF Shown!Expire
  <2> QED
    BY <2>2 DEF Shown!Next
<1> QED
  BY <1>3, <1>4

LEMMA ServeShown ==
  ASSUME SerialInv, NEW t \in Threads, Serve(t) \/ Refused(t)
  PROVE  Shown!Next \/ UNCHANGED ShownState
<1> USE DEF store, process, bounds
<1>1. pc[t] # "idle"
  BY DEF Serve, MarkExpired, ApplyRefused, ApplyBegins, RecoverRefused, RollbackBegins,
         FinishBegins, WriteFile, VerifyFile, VerifyFails, CommitApply, CommitFinish,
         FinishFails, RestoreFile, RestoreVerified, RestoreCorrupt, CommitRollback,
         Refused, WriteRefused, RestoreRefused
<1>0. TypeOK /\ req[t].prop \in Proposals
  BY <1>1, ServedRequest DEF SerialInv, IInv
<1>p. PICK p \in Proposals : p = req[t].prop
  BY <1>0
<1>2. TypeOK /\ p \in Proposals /\ p = req[t].prop
  BY <1>0, <1>p
<1>3. /\ pc[t] \in {"applyWait", "expire"} => pstate[p] = "awaiting-authorization" /\ ~Blocked
      /\ pc[t] = "expire" => p \in late
      /\ pc[t] \in Critical \cup {"recoverWait"} => jstate[p] \in Incomplete
  BY <1>2 DEF SerialInv, Serial
<1>4. CASE UNCHANGED <<pstate, late, jstate>>
  BY <1>4, ShownFrame, ShownStays
<1>5. CASE MarkExpired(t)
  <2>1. pstate' = [pstate EXCEPT ![p] = "expired"] /\ UNCHANGED <<late, jstate>> /\ pc[t] = "expire"
    BY <1>2, <1>5 DEF MarkExpired
  <2>2. \A q \in Proposals \ {p} : EffectiveState(q)' = EffectiveState(q)
    BY <1>2, <2>1, ShownFrame DEF TypeOK
  <2>3. EffectiveState(p)' = EffectiveState(p)
    BY <1>2, <1>3, <2>1 DEF EffectiveState, TypeOK, Blocked
  <2> QED
    BY <2>2, <2>3, ShownStays
<1>6. CASE VerifyFile(t) \/ VerifyFails(t) \/ FinishFails(t) \/ WriteRefused(t)
  <2>1. /\ pc[t] \in Critical /\ UNCHANGED <<pstate, late>>
        /\ \E j \in Incomplete : jstate' = [jstate EXCEPT ![p] = j]
    BY <1>2, <1>6 DEF VerifyFile, VerifyFails, FinishFails, WriteRefused, FailsJournal
  <2>2. \A q \in Proposals : jstate'[q] = jstate[q] \/ {jstate[q], jstate'[q]} \subseteq Incomplete
    BY <1>2, <1>3, <2>1 DEF TypeOK
  <2> QED
    BY <2>1, <2>2, ShownFrame, ShownStays
<1>7. CASE ApplyBegins(t)
  <2>1. jstate' = [jstate EXCEPT ![p] = "writing"] /\ UNCHANGED <<pstate, late>> /\ pc[t] = "applyWait"
    BY <1>2, <1>7 DEF ApplyBegins
  <2>2. \A q \in Proposals \ {p} : EffectiveState(q)' = EffectiveState(q)
    BY <1>2, <2>1, ShownFrame DEF TypeOK
  <2>3. EffectiveState(p) \in {"awaiting-authorization", "expired"}
    BY <1>2, <1>3, <2>1 DEF EffectiveState, Blocked
  <2>4. EffectiveState(p)' = "recovery-required"
    BY <1>2, <2>1 DEF EffectiveState, TypeOK
  <2>5. Shown!StartWriting(p)
    BY <1>2, <1>3, <2>1, <2>2, <2>3, <2>4, ShownBecomes, ShownSettled DEF Shown!StartWriting
  <2> QED
    BY <1>2, <2>5 DEF Shown!Next
<1>8. CASE CommitApply(t) \/ CommitFinish(t) \/ CommitRollback(t)
  <2>1. pc[t] \in Critical /\ UNCHANGED late
    BY <1>8 DEF CommitApply, CommitFinish, CommitRollback, Settles
  <2>2. CASE UNCHANGED <<pstate, jstate>>
    BY <1>4, <2>1, <2>2
  <2>3. CASE \E j \in {"committed", "rolled-back"}, s \in {"applied", "rolled-back"} :
               jstate' = [jstate EXCEPT ![p] = j] /\ pstate' = [pstate EXCEPT ![p] = s]
    <3>1. PICK j \in {"committed", "rolled-back"}, s \in {"applied", "rolled-back"} :
            jstate' = [jstate EXCEPT ![p] = j] /\ pstate' = [pstate EXCEPT ![p] = s]
      BY <2>3
    <3>2. \A q \in Proposals \ {p} : EffectiveState(q)' = EffectiveState(q)
      BY <1>2, <2>1, <3>1, ShownFrame DEF TypeOK
    <3>3. EffectiveState(p) = "recovery-required"
      BY <1>3, <2>1 DEF EffectiveState
    <3>4. EffectiveState(p)' = s
      BY <1>2, <3>1 DEF EffectiveState, TypeOK
    <3>5. Shown!Resolve(p)
      BY <1>2, <3>2, <3>3, <3>4, ShownBecomes DEF Shown!Resolve
    <3> QED
      BY <1>2, <3>5 DEF Shown!Next
  <2> QED
    BY <1>2, <1>8, <2>2, <2>3 DEF CommitApply, CommitFinish, CommitRollback, Settles
<1>9. CASE \/ ApplyRefused(t) \/ RecoverRefused(t) \/ RestoreRefused(t) \/ RestoreCorrupt(t)
           \/ RollbackBegins(t) \/ FinishBegins(t) \/ RestoreVerified(t) \/ WriteFile(t) \/ RestoreFile(t)
  BY <1>4, <1>9 DEF ApplyRefused, RecoverRefused, RestoreRefused, RestoreCorrupt, RollbackBegins,
     FinishBegins, RestoreVerified, WriteFile, RestoreFile
<1> QED
  BY <1>5, <1>6, <1>7, <1>8, <1>9 DEF Serve, Refused

LEMMA ShownNext == SerialInv /\ [Next]_vars => [Shown!Next]_ShownState
<1> SUFFICES ASSUME SerialInv, [Next]_vars PROVE Shown!Next \/ UNCHANGED ShownState
  OBVIOUS
<1>1. CASE Gate
  BY <1>1, StageShown, RejectShown DEF Gate, Create, Revert
<1>2. ASSUME UNCHANGED <<pstate, late, jstate>> PROVE UNCHANGED ShownState
  BY <1>2, ShownFrame, ShownStays
<1>3. CASE \E t \in Threads : Start(t)
  BY <1>2, <1>3 DEF Start, ApplyChecked, ApplyTooLate, RecoverChecked, Starts, store
<1>4. CASE \E t \in Threads : Serve(t) \/ Refused(t)
  BY <1>4, ServeShown
<1>5. CASE Environment
  BY <1>2, <1>5, ExpiryShown DEF Environment, Crash, ExternalEdit, store
<1>6. CASE UNCHANGED vars
  BY <1>2, <1>6 DEF vars, store
<1> QED
  BY <1>1, <1>3, <1>4, <1>5, <1>6 DEF Next

\* With one thread the workbench keeps the promise of ProposalLifecycle: every
\* step is a step of the abstract specification or changes nothing shown.
THEOREM LifecycleIsKept ==
  ASSUME Alone
  PROVE  Spec => Lifecycle
<1>1. SerialInv /\ IInv' /\ [Next]_vars => SerialInv'
  BY NextSerial
<1> QED
  BY <1>1, ShownInit, ShownNext, InitSerial, InvariantHolds, PTL DEF Spec, Lifecycle, Shown!Spec

=============================================================================
