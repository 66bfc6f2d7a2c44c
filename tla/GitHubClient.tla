---------------------------- MODULE GitHubClient ----------------------------
(***************************************************************************)
(* The retry loop of src/github/client.ts:111-142 and what its callers     *)
(* make of the outcome.  Answers of GitHub are told apart by what the loop *)
(* looks at:                                                               *)
(*                                                                         *)
(*   ok         2xx                                                        *)
(*   transient  5xx, 429, or 403 with Retry-After, quota left              *)
(*   limited    403 or 429 with x-ratelimit-remaining 0                    *)
(*   missing    404                                                        *)
(*   refused    any other status                                           *)
(*   down       fetch rejects, or the body does not parse                  *)
(***************************************************************************)
EXTENDS Naturals

CONSTANT maxRetries

ASSUME RetriesAssumption == maxRetries \in Nat

Answers == {"ok", "transient", "limited", "missing", "refused", "down"}

\* Mutant: attempts are counted from one.
RetryOneMore(a, attempt) == a = "transient" /\ attempt <= maxRetries

\* attempt counts the retries made so far.  A primary rate limit is never waited
\* for.
Retried(a, attempt) == a = "transient" /\ attempt < maxRetries

\* What a caller gets that does not handle the failure: the code of the response
\* errorResponse makes of it (scan.ts:237-245).  A 429 that outlasts the retries
\* reads as a rate limit too.
Errors(a) ==
  CASE a = "missing"   -> {"not_found"}
    [] a = "limited"   -> {"rate_limited"}
    [] a = "transient" -> {"rate_limited", "github_error"}
    [] a = "refused"   -> {"github_error"}
    [] a = "down"      -> {"scan_failed"}
    [] OTHER           -> {}

\* Fetches of a call from its first attempt to the end of its retries.
CallCost == 1..(maxRetries + 1)
=============================================================================
