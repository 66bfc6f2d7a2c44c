----------------------------- MODULE MCAdminRoles -----------------------------
(***************************************************************************)
(* A permanent administrator and two other accounts, either of which may   *)
(* be an administrator too.                                                *)
(***************************************************************************)
EXTENDS AdminRoles, TLC

Symmetric == Permutations(Requests) \cup Permutations(Logins \ Bootstrap)
=============================================================================
