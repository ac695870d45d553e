--------------------------- MODULE MCPreviewRound ---------------------------
(***************************************************************************)
(* The instances of PreviewRound that TLC checks: calls of the transaction *)
(* alone, calls beside the version history, and one call with its review.  *)
(***************************************************************************)
EXTENDS PreviewRound, TLC

VARIABLE scope

Symmetries == Permutations(Processes) \cup Permutations(Bindings) \cup Permutations(Rounds)
              \cup Permutations(Posts)

FormOf(token, notes, choice, edits) ==
  [token |-> token, notes |-> notes, choice |-> choice, edits |-> edits]

\* A confirmation with notes, one by edits alone, one whose edits cancel out, a
\* skip, anchors that cannot be used, and a form from elsewhere.
SomeForms ==
  {FormOf(TRUE, "good", "confirm", "none"), FormOf(TRUE, "none", "confirm", "real"),
   FormOf(TRUE, "none", "confirm", "undone"), FormOf(TRUE, "incomplete", "skip", "none"),
   FormOf(TRUE, "unusable", "confirm", "none"), FormOf(FALSE, "good", "confirm", "none")}

MCInit ==
  /\ RoundInit
  /\ scope \in {"transactions", "versions", "review"}
  /\ scope = "review" => \A r \in Rounds : confirm[r] = 0

MCNext ==
  /\ \/ \E p \in Processes : Transact(p)
     \/ /\ scope = "transactions" /\ (\E r \in Rounds : LockStale(r))
        /\ UNCHANGED <<versionVars, reviewVars, reviewer, verdict>>
     \/ scope = "versions" /\ KeepVersions
     \/ scope = "review" /\ (ReviewGoesOn \/ \E p \in Processes : Ask(p) \/ Decide(p))
  /\ scope = "review" => calls' <= 1
  /\ UNCHANGED scope

MCSpec == MCInit /\ [][MCNext]_<<roundVars, scope>>

=============================================================================
