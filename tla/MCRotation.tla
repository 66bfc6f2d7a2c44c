----------------------------- MODULE MCRotation -----------------------------
(***************************************************************************)
(* Three subscribers, two to a shard.  Whoever watches both repositories   *)
(* costs more than the whole budget, as somebody does whose overlapping    *)
(* subscribe requests left up to 30 watched repositories: 1 + 30 * 50 is   *)
(* more than 800.                                                          *)
(***************************************************************************)
EXTENDS ScanRotation
=============================================================================
