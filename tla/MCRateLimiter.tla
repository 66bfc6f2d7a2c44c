---------------------------- MODULE MCRateLimiter ----------------------------
(***************************************************************************)
(* Two tiers as on the scan endpoints: a burst and a longer budget, whose  *)
(* window is the cron's horizon as SCAN_DAILY's is.                        *)
(***************************************************************************)
EXTENDS RateLimiter, TLC

TwoTiers == <<[limit |-> 1, window |-> 2], [limit |-> 2, window |-> 4]>>

RequestSymmetry == Permutations(Requests)
=============================================================================
