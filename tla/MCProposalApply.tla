-------------------------- MODULE MCProposalApply --------------------------
(***************************************************************************)
(* The instances of ProposalApply that TLC checks: two files of which one  *)
(* exists, a proposal p that updates the one and creates the other, and a  *)
(* proposal q that deletes the first. A revert takes whichever of the two  *)
(* ids is free.                                                            *)
(***************************************************************************)
EXTENDS ProposalApply, TLC

CONSTANTS a, b, x, y, p, q

TwoChanges ==
  (p :> <<[path |-> a, content |-> y], [path |-> b, content |-> y]>>) @@
  (q :> <<[path |-> a, content |-> Absent]>>)

OneFile == (a :> x) @@ (b :> Absent)

\* The operation ids differ in nothing but their names.
OperationSymmetry == Permutations(Operations)

=============================================================================
