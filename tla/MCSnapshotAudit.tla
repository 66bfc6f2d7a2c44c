--------------------------- MODULE MCSnapshotAudit ---------------------------
(***************************************************************************)
(* A link of each kind the rules tell apart, and a commit at once or after *)
(* a month.                                                                *)
(***************************************************************************)
EXTENDS SnapshotAudit

MCLinks ==
  {[path |-> "archive", host |-> "github"], [path |-> "archive", host |-> "other"],
   [path |-> "page", host |-> "hider"], [path |-> "page", host |-> "badge"],
   [path |-> "program", host |-> "none"]}

MCDays == {0, 30}
=============================================================================
