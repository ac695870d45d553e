----------------------------- MODULE MCBackup ------------------------------
(***************************************************************************)
(* Two requests that may both overwrite one archive, retried, in the       *)
(* threads of one service.                                                 *)
(***************************************************************************)
EXTENDS Backup, TLC

CONSTANT zip

Overwrite == [kind |-> "create", to |-> zip, over |-> TRUE]
BothOverwrite == "first" :> Overwrite @@ "second" :> Overwrite

=============================================================================
