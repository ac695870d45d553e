--------------------------- MODULE MCWorkRequest ---------------------------
(***************************************************************************)
(* The instances of WorkRequest that TLC checks.                           *)
(***************************************************************************)
EXTENDS WorkRequest, TLC

Symmetries == Permutations(Threads) \cup Permutations(Requests)

=============================================================================
