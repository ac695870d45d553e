------------------------------ MODULE Nothing ------------------------------
(***************************************************************************)
(* The value of a file, row, request or setting that is not there. Modules *)
(* that are checked side by side share it.                                 *)
(***************************************************************************)
CONSTANT None

=============================================================================
