----------------------------- MODULE MCRunReview -----------------------------
(***************************************************************************)
(* A small run: two fields of a contract, two findings, one criterion. The *)
(* operations are shared out between the three parts: an allowance says    *)
(* how many each of them may make, so that one part is explored in depth   *)
(* while the others stand still, or all of them a little.                  *)
(***************************************************************************)
EXTENDS RunReview, TLC

CONSTANTS f1, f2, v1, v2, c1, t1, x1, d1, d2, a1

VARIABLE left  \* operations each part may still make

Parts == {"contract", "baseline", "reviews", "slips", "grades", "repairs"}

Allow(c, b, n, s, g, r) ==
  [p \in Parts |-> CASE p = "contract" -> c [] p = "baseline" -> b [] p = "reviews" -> n
                     [] p = "slips" -> s [] p = "grades" -> g [] p = "repairs" -> r]

\* Promotions into a baseline the user has accepted already.
AfterAcceptance == Allow(0, 9, 0, 0, 0, 0)

Allowances ==
  {Allow(5, 0, 0, 0, 0, 0), Allow(0, 10, 0, 0, 0, 0), AfterAcceptance, Allow(2, 3, 2, 0, 0, 0),
   Allow(4, 0, 1, 0, 1, 0), Allow(2, 0, 0, 2, 1, 0), Allow(2, 0, 4, 1, 0, 3)}

Spend(p) == left[p] > 0 /\ left' = [left EXCEPT ![p] = @ - 1]

\* The fields people propose: one or both; and what claims to be decided.
Proposals ==
  {[f \in F |-> [value |-> v1, resolution |-> "assumed"]] : F \in {{f1}, {f2}, {f1, f2}}}
  \cup {[f \in {f1} |-> [value |-> v2, resolution |-> "open"]],
        [f \in {f1, f2} |-> [value |-> v2, resolution |-> "decided"]]}

\* The decisions people take: they number them one after another.
DecisionsNow ==
  {[id |-> Len(log) + 1, field |-> d[1], decision |-> d[2], supersedes |-> s] :
     d \in {<<f1, v1>>, <<f1, v2>>, <<f2, v2>>}, s \in 1..Len(log) \cup {None}}

ContractStep ==
  /\ \/ ReadContract
     \/ \E fields \in Proposals, existing \in {None, held}, stops \in BOOLEAN :
          PromoteFields(fields, existing, stops)
     \/ \E d \in DecisionsNow : CheckDecision(d) \/ AppendDecision(d)
     \/ AppendPending
     \/ \E drifted \in SUBSET {f1}, stops \in BOOLEAN :
          BindFirst(Fields \ drifted, drifted, stops)
  /\ Spend("contract")
  /\ UNCHANGED <<baselineVars, reviewVars>>

\* What people write into the files: another text, an invalid citation, the
\* component, or nothing.
Edits(doc) ==
  {Nothing} \cup {[text |-> t, cites |-> source, entries |-> {}] : t \in Texts}
    \cup (IF doc = Nothing THEN {} ELSE {[doc EXCEPT !.cites = Nothing]})

BaselineStep ==
  /\ \/ PrepareLooks \/ PrepareBinds \/ Waive \/ AcceptChecks \/ AcceptReads
     \/ \E c \in Components : PromoteReads(c) \/ DecidePromotion(c)
     \/ KeepPrevious \/ WriteCanonical \/ BindWritten \/ CommandFails \/ CommandStops
     \/ \E p \in CandidatePaths : \E doc \in Edits(files[p]) : EditFile(p, doc)
     \/ \E doc \in Edits(draft) : EditDraft(doc)
     \/ EditSource
  /\ Spend("baseline")
  /\ UNCHANGED <<contractVars, reviewVars>>

Evidence == [Criteria -> Artifacts \cup {None}]

\* A run is bound before it is reviewed.
ReviewStep ==
  /\ bound # None
  /\ UNCHANGED <<contractVars, baselineVars>>
  /\ \/ Spend("reviews") /\ \E evidence \in Evidence : Review(Honest(evidence))
     \/ Spend("slips") /\ \E evidence \in Evidence : \E r \in Slips(Honest(evidence)) : Review(r)
     \/ Spend("grades") /\ \E t \in Tiers : Regrade(t)
     \/ Spend("repairs") /\ Repair
     \/ /\ UNCHANGED left
        /\ \/ \E a \in Artifacts, c \in Criteria : CaptureEvidence(a, c)
           \/ ValidateCaptures \/ ValidateJudges
           \/ \E f \in Findings : Dispose(f)

\* What prepare and accept leave in a project that had no baseline.
Accepted ==
  /\ source = 1 /\ draft = [text |-> Rendered, cites |-> 1, entries |-> {}]
  /\ files = [p \in CandidatePaths |-> IF p = Canonical THEN draft ELSE Nothing]
  /\ state = [Binding("ready", Canonical, draft, "accepted", 1) EXCEPT !.draft = draft, !.candidates = files]
  /\ previous = Nothing /\ decided = {} /\ command = Idle /\ disturbed = {}

\* A part that stands still does so in one initial state.
MCInit ==
  /\ ContractInit /\ ReviewInit /\ left \in Allowances
  /\ IF left = AfterAcceptance THEN Accepted ELSE BaselineInit
  /\ left["baseline"] = 0 => Candidates = {}
  /\ left["repairs"] = 0 => defects = {}
  /\ left["grades"] = 0 => profile.declared = 2

MCNext == ContractStep \/ BaselineStep \/ ReviewStep

MCSpec == MCInit /\ [][MCNext]_<<contractVars, baselineVars, reviewVars, left>>

\* The two findings differ in nothing but their names.
Symmetry == Permutations(Findings)

=============================================================================
