---------------------------- MODULE AlertPromises ----------------------------
(***************************************************************************)
(* What the repository's own texts say of the alert subsystem, stated of   *)
(* Alerts.  TLC finds each of them violated by the interleavings and       *)
(* failures the code admits; README.md tells the counterexamples.          *)
(***************************************************************************)
EXTENDS Alerts

\* src/routes/alerts.ts:35 "no alert is ever sent until the address is
\* verified": the address an alert goes to belongs to someone who followed a
\* confirmation link mailed to it (verifyByToken's SELECT and UPDATE).
AlertsOnlyToConfirmedAddress ==
  [][SendAlert => cur.email \in confirmed[cur.login]]_vars

\* SECURITY.md:50 "Deletion [...] deletes all stored rows": from the erasure
\* until the next sign-in nothing is stored about the login (DELETE /api/me).
ErasureIsFinal ==
  \A l \in Logins :
    erased[l] # "no" => /\ sub[l] = None
                        /\ watched[l] = {}
                        /\ known[l] = {}
                        /\ users[l] = "none"

\* SECURITY.md:50 "Deletion revokes this app's GitHub OAuth grant": when GitHub
\* confirmed the revocation, no token of the login works any more.
DeletionRevokesTheGrant ==
  \A l \in Logins : erased[l] = "revoked" => grant[l] = {}

\* src/alerts/cron.ts:116 "A 401 here means the OAuth grant is gone —
\* deactivate it": the subscription the cron switches off after a refused probe
\* is one whose stored token GitHub no longer accepts.
OnlyDeadGrantsAreDropped ==
  [][Deactivate /\ Active(cur.login) /\ ~TokenAccepted
       => sub[cur.login].token \notin grant[cur.login]]_vars

\* plans/001-fix-alert-email-suppression.md:1 "A failed alert email no longer
\* permanently suppresses that clone alert": when a scan is over, what it put
\* into the baseline as notified has been mailed.
NotifiedMeansMailed ==
  cpc = "next" => \A l \in Logins : promised[l] = {}
=============================================================================
