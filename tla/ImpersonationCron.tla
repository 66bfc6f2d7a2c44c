-------------------------- MODULE ImpersonationCron --------------------------
(***************************************************************************)
(* The daily impersonation scan (runImpersonationScan and scanSubscriber   *)
(* of src/alerts/cron.ts).  A run loads one shard of subscriptions, works  *)
(* on the rows as they were THEN, one subscriber after the other, and      *)
(* gives up control at every await; cpc names the call it makes next.      *)
(*                                                                         *)
(* One run at a time: the trigger is daily and a run is bounded by the     *)
(* platform to minutes.  A run may end at any await, because a statement   *)
(* outside the handler's try blocks threw or the Worker was evicted.       *)
(***************************************************************************)
EXTENDS AlertStore

CONSTANTS
  MaxDay,         \* bound on the number of runs explored
  MaxSubsPerRun,  \* MAX_SUBS_PER_RUN
  Budget,         \* SUBREQUEST_BUDGET
  RepoCost,       \* EST_SUBREQUESTS_PER_REPO
  ProbeCost       \* TOKEN_PROBE_SUBREQUESTS

ASSUME CronAssumption ==
  /\ MaxDay \in Nat
  /\ MaxSubsPerRun \in Nat \ {0}
  /\ Budget \in Nat
  /\ RepoCost \in Nat
  /\ ProbeCost \in Nat \ {0}

VARIABLES
  day,        \* the number of the current or latest run: its "now"
  cpc,        \* the step the run is at
  todo,       \* snapshots of the subscribers not yet reached
  cur,        \* the snapshot being worked on
  repos,      \* what it watches, read when it was reached
  found,      \* suspects found, then the fresh ones among them
  consumed    \* estimated subrequests so far

cronVars == <<day, cpc, todo, cur, repos, found, consumed>>

CronSteps == {"idle", "next", "probe", "deactivate", "search", "diff",
              "record", "send", "markRun", "markScanned"}

Snapshot == [login : Logins, email : Emails, token : Tokens \cup {None},
             scannedAt : Nat]

SnapshotOf(l) == [login |-> l, email |-> sub[l].email, token |-> sub[l].token,
                  scannedAt |-> sub[l].lastScanned]

ASSUME NoneIsNoSnapshot == None \notin Snapshot

CronTypeOK ==
  /\ day \in Nat
  /\ cpc \in CronSteps
  /\ todo \in SUBSET Snapshot
  /\ cur \in Snapshot \cup {None}
  /\ cur = None <=> cpc \in {"idle", "next"}
  /\ repos \in SUBSET Repos
  /\ found \in SUBSET Suspects
  /\ consumed \in Nat

CronInit ==
  /\ day = 0
  /\ cpc = "idle"
  /\ todo = {}
  /\ cur = None
  /\ repos = {}
  /\ found = {}
  /\ consumed = 0

(***************************************************************************)
(* Starting a run and moving from subscriber to subscriber.                *)
(***************************************************************************)

StartRun ==
  /\ cpc = "idle"
  /\ day < MaxDay
  /\ \E B \in SUBSET ScannableLogins :
       /\ Shard(B, MaxSubsPerRun)
       /\ todo' = {SnapshotOf(l) : l \in B}
  /\ day' = day + 1
  /\ cpc' = "next"
  /\ consumed' = 0
  /\ UNCHANGED <<cur, repos, found, storeVars>>

\* Ties in the cursor are taken in either order, as in Shard.
Ahead(s) == s \in todo /\ \A o \in todo : s.scannedAt <= o.scannedAt

Estimate(l) == ProbeCost + Cardinality(watched[l]) * RepoCost

\* Mutant: the budget guard applies to the first subscriber too.
OverBudgetAtOnce(l) == consumed + Estimate(l) > Budget

OverBudget(l) == consumed > 0 /\ consumed + Estimate(l) > Budget

NextSubscriber ==
  /\ cpc = "next"
  /\ \E s \in todo :
       /\ Ahead(s)
       /\ ~OverBudget(s.login)
       /\ cur' = s
       /\ todo' = todo \ {s}
       /\ repos' = watched[s.login]
       /\ consumed' = consumed + Estimate(s.login)
  /\ cpc' = "probe"
  /\ UNCHANGED <<day, found, storeVars>>

EndOfRun ==
  /\ cpc' = "idle"
  /\ todo' = {}
  /\ cur' = None
  /\ repos' = {}
  /\ found' = {}
  /\ consumed' = 0
  /\ UNCHANGED <<day, storeVars>>

BudgetStop ==
  /\ cpc = "next"
  /\ \E s \in todo : Ahead(s) /\ OverBudget(s.login)
  /\ EndOfRun

RunDone == cpc = "next" /\ todo = {} /\ EndOfRun

RunCrashes == cpc # "idle" /\ EndOfRun

Proceed(pc) ==
  /\ cpc' = pc
  /\ UNCHANGED <<day, todo, cur, repos, consumed>>

(***************************************************************************)
(* scanSubscriber, for the snapshot cur.  An aborted scan goes straight to *)
(* the cursor, past the clean-run marker.                                  *)
(***************************************************************************)

\* Mutant: an aborted scan takes the path of a clean one.
AbortAsClean == Proceed("markRun") /\ UNCHANGED <<found, storeVars>>

Abort == Proceed("markScanned") /\ UNCHANGED <<found, storeVars>>

\* GET /user with the token of the snapshot; with nothing watched the scan
\* is clean at once.  valid: GitHub still accepts the token.
ProbeAccepted(valid) ==
  /\ cpc = "probe"
  /\ valid
  /\ Proceed(IF repos = {} THEN "markRun" ELSE "search")
  /\ UNCHANGED <<found, storeVars>>

ProbeRefused(valid) ==
  /\ cpc = "probe"
  /\ ~valid
  /\ Proceed("deactivate")
  /\ UNCHANGED <<found, storeVars>>

\* The stored ciphertext carries the version of another deployment.
TokenUnusable ==
  /\ cpc = "probe"
  /\ Proceed("deactivate")
  /\ UNCHANGED <<found, storeVars>>

\* Decryption throws, or the probe fails with anything but a 401.
ProbeFails == cpc = "probe" /\ Abort

\* The row is deactivated by login, whatever it has become since the snapshot.
Deactivate ==
  /\ cpc = "deactivate"
  /\ DeactivateSubscription(cur.login)
  /\ cpc' = "next"
  /\ cur' = None
  /\ repos' = {}
  /\ UNCHANGED <<users, day, todo, found, consumed>>

\* Clone search swallows its failures: any set of suspects may come back.
Search ==
  /\ cpc = "search"
  /\ found' \in SUBSET Suspects
  /\ Proceed("diff")
  /\ UNCHANGED storeVars

\* Mutant: the baseline is not consulted.
DiffIgnoringBaseline ==
  /\ cpc = "diff"
  /\ Proceed(IF found = {} THEN "markRun" ELSE "record")
  /\ UNCHANGED <<found, storeVars>>

\* The baseline is read after the search; what is in it is not news.
Diff ==
  /\ cpc = "diff"
  /\ found' = found \ known[cur.login]
  /\ Proceed(IF found \subseteq known[cur.login] THEN "markRun" ELSE "record")
  /\ UNCHANGED storeVars

\* The baseline is written, as notified, before the mail goes out.
Record ==
  /\ cpc = "record"
  /\ RecordClones(cur.login, found)
  /\ promised' = [promised EXCEPT ![cur.login] = @ \cup found]
  /\ Proceed("send")
  /\ UNCHANGED <<found, sub, watched, users, told>>

\* Mutant: the statements run one by one, outside a batch, and a late one throws.
RecordFailsHalfway ==
  /\ cpc = "record"
  /\ RecordClones(cur.login, found)
  /\ Proceed("markScanned")
  /\ UNCHANGED <<found, sub, watched, users, told, promised>>

RecordFails == cpc = "record" /\ Abort

\* The mail service takes the alert.  told counts it for the suspects whose
\* baseline rows, written for this mail, still stand.
SendAlert ==
  LET l == cur.login
      fulfilled == found \cap promised[l]
  IN
  /\ cpc = "send"
  /\ told' = [told EXCEPT ![l] = [s \in Suspects |->
                IF s \in fulfilled THEN told[l][s] + 1 ELSE told[l][s]]]
  /\ promised' = [promised EXCEPT ![l] = @ \ found]
  /\ Proceed("markRun")
  /\ UNCHANGED <<found, sub, watched, known, users>>

\* A refused mail is logged and the scan still counts as clean.
SendFails ==
  /\ cpc = "send"
  /\ Proceed("markRun")
  /\ UNCHANGED <<found, storeVars>>

\* Building the mail throws (its unsubscribe token is signed first): the scan is
\* aborted although the baseline is written.
SendThrows == cpc = "send" /\ Abort

MarkRun ==
  /\ cpc = "markRun"
  /\ SetLastRun(cur.login, day)
  /\ Proceed("markScanned")
  /\ UNCHANGED <<found, watched, known, users, told, promised>>

MarkScanned ==
  /\ cpc = "markScanned"
  /\ SetLastScanned(cur.login, day)
  /\ cpc' = "next"
  /\ cur' = None
  /\ repos' = {}
  /\ found' = {}
  /\ UNCHANGED <<day, todo, consumed, watched, known, users, told, promised>>

\* One subscriber's scan; valid says whether GitHub accepts its token.
ScanStep(valid) ==
  \/ ProbeAccepted(valid) \/ ProbeRefused(valid) \/ TokenUnusable \/ ProbeFails
  \/ Deactivate
  \/ Search \/ Diff
  \/ Record \/ RecordFails
  \/ SendAlert \/ SendFails \/ SendThrows
  \/ MarkRun \/ MarkScanned

RunStep(valid) == NextSubscriber \/ BudgetStop \/ RunDone \/ ScanStep(valid)

CronNext(valid) == StartRun \/ RunStep(valid) \/ RunCrashes
=============================================================================
