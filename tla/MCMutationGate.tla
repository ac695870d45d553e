--------------------------- MODULE MCMutationGate ---------------------------
(***************************************************************************)
(* The instances of MutationGate that TLC checks.                          *)
(***************************************************************************)
EXTENDS MutationGate, TLC

CONSTANTS x, y, w

\* Two payloads for an edit, so that an operation id can be reused for another
\* one, and the two scopes a project can be given.
Payloads == [k \in Kinds |-> CASE k = "grants" -> {x, w} [] k = "edit" -> {x, y} [] OTHER -> {x}]

\* Operation ids, and threads, differ in nothing but their names.
OperationSymmetry == Permutations(Operations)
Symmetries == OperationSymmetry \cup Permutations(Threads)

=============================================================================
