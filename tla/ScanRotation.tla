---------------------------- MODULE ScanRotation ----------------------------
(***************************************************************************)
(* The daily scan over a population of confirmed subscribers: how the      *)
(* shard, the subrequest budget and the two markers of a row (last_run_at, *)
(* last_scanned_at) work together from run to run.  Nobody subscribes or   *)
(* leaves meanwhile, except by the cron's own deactivation; the steps of   *)
(* the scan are those of ImpersonationCron, and GitHub may accept or       *)
(* refuse any token on any day.                                            *)
(***************************************************************************)
EXTENDS ImpersonationCron

CONSTANT Stuck   \* subscribers during whose scan the run may die

ASSUME StuckAssumption == Stuck \subseteq Logins
ASSUME PopulationAssumption == IsFiniteSet(Logins)

VARIABLES
  outcome,   \* history: what became of each login in the current run
  unsent     \* history: suspects of each login whose mail did not go out

vars == <<storeVars, cronVars, outcome, unsent>>

Outcomes == {"none", "clean", "aborted", "off"}

TypeOK ==
  /\ StoreTypeOK
  /\ CronTypeOK
  /\ outcome \in [Logins -> Outcomes]
  /\ unsent \in [Logins -> SUBSET Suspects]

\* Confirmed subscribers, never scanned, watching any repositories.
Init ==
  /\ \E owner \in [Logins -> Emails], tok \in [Logins -> Tokens] :
       sub = [l \in Logins |->
                [email |-> owner[l], token |-> tok[l], active |-> TRUE,
                 verified |-> TRUE, link |-> None, expiry |-> "never",
                 lastRun |-> Never, lastScanned |-> Never]]
  /\ watched \in [Logins -> SUBSET Repos]
  /\ known = [l \in Logins |-> {}]
  /\ users = [l \in Logins |-> "ok"]
  /\ told = [l \in Logins |-> [s \in Suspects |-> 0]]
  /\ promised = [l \in Logins |-> {}]
  /\ CronInit
  /\ outcome = [l \in Logins |-> "none"]
  /\ unsent = [l \in Logins |-> {}]

Forget == outcome' = [l \in Logins |-> "none"]

\* The first thing that befalls a subscriber in a run is what became of it.
Note(what) ==
  outcome' = [outcome EXCEPT ![cur.login] = IF @ = "none" THEN what ELSE @]

MailLost == unsent' = [unsent EXCEPT ![cur.login] = @ \cup found]

\* What a step of the scan decides about the subscriber.
RunGoesOn ==
  \/ /\ \/ StartRun /\ Forget
        \/ (NextSubscriber \/ BudgetStop \/ RunDone) /\ UNCHANGED outcome
        \/ \E valid \in BOOLEAN :
              (ProbeAccepted(valid) \/ ProbeRefused(valid)) /\ UNCHANGED outcome
        \/ (TokenUnusable \/ Search \/ Diff \/ Record \/ SendAlert)
              /\ UNCHANGED outcome
        \/ (ProbeFails \/ RecordFails) /\ Note("aborted")
        \/ MarkRun /\ Note("clean")
        \/ MarkScanned /\ UNCHANGED outcome
     /\ UNCHANGED unsent
  \/ Deactivate /\ Note("off") /\ unsent' = [unsent EXCEPT ![cur.login] = {}]
  \/ SendFails /\ MailLost /\ UNCHANGED outcome
  \/ SendThrows /\ MailLost /\ Note("aborted")

RunDies ==
  /\ cur # None /\ cur.login \in Stuck
  /\ RunCrashes
  /\ UNCHANGED <<outcome, unsent>>

Next == RunGoesOn

Spec == Init /\ [][Next]_vars

\* The same with runs that may die while a stuck subscriber is scanned.
StuckSpec == Init /\ [][Next \/ RunDies]_vars

-----------------------------------------------------------------------------
Between == cpc \in {"idle", "next"}

\* Nobody waits longer than one round: as many runs as there are subscribers
\* reach each of them, however the budget cuts the runs short and however many
\* scans abort (store.ts:258-260: the cursor advances on every attempt, "so the
\* batch rotates and one stuck sub can't starve the rest").
NobodyStarves ==
  cpc = "idle" =>
    \A l \in ScannableLogins : sub[l].lastScanned + Cardinality(Logins) > day

\* The markers of a row tell what happened to it in the run: a clean scan sets
\* both, an aborted one only the cursor, a deactivated one neither, and a row the
\* run did not reach keeps both older (runImpersonationScan's three outcomes).
\* And before the clean-run marker moves, everything the scan reported is in
\* the baseline.
MarkersTellTheOutcome ==
  /\ Between =>
       \A l \in Logins :
         /\ outcome[l] = "clean" =>
              sub[l].lastRun = day /\ sub[l].lastScanned = day
         /\ outcome[l] = "aborted" =>
              sub[l].lastRun < day /\ sub[l].lastScanned = day
         /\ outcome[l] = "off" => ~sub[l].active /\ sub[l].lastScanned < day
         /\ outcome[l] = "none" /\ day > 0 =>
              sub[l].lastRun < day /\ sub[l].lastScanned < day
  /\ \A l \in Logins :
       cpc = "markRun" /\ cur.login = l => found \subseteq known[l]

\* The subscriber reached first is always served: a run that found anybody to
\* scan serves at least one of them, whatever its estimate.
EveryRunServesSomeone ==
  [][BudgetStop => \E l \in Logins : outcome[l] # "none"]_vars

Sending(l, s) == cpc = "send" /\ cur.login = l /\ s \in found

\* A suspect in the baseline has been mailed exactly once, unless its mail is the
\* next call or was lost in the mail step itself: neither an aborted run and its
\* retry nor a failed write of the baseline silences a suspect for good (cron.ts:
\* 157-161, "any DB failure thus happens here, before an email goes out, so the
\* next run simply retries") or reports it twice.
AlertsAreLostOnlyInTheMail ==
  \A l \in Logins : \A s \in known[l] :
    told[l][s] = IF s \in unsent[l] \/ Sending(l, s) THEN 0 ELSE 1
=============================================================================
