------------------------------- MODULE Alerts -------------------------------
(***************************************************************************)
(* The alert subsystem as a whole: any number of requests                  *)
(* (Subscriptions) and the daily scan (ImpersonationCron) interleave over  *)
(* the same tables (AlertStore) and the same grants at GitHub.             *)
(***************************************************************************)
EXTENDS Subscriptions, ImpersonationCron

VARIABLES
  overlap,   \* history: the login's last deactivation or erasure happened
             \* while someone could still write for it
  entitled   \* history: who was owed alerts, and where, when the run began

historyVars == <<overlap, entitled>>

vars == <<storeVars, requestVars, cronVars, historyVars>>

TypeOK ==
  /\ StoreTypeOK
  /\ RequestTypeOK
  /\ RequestLocals
  /\ CronTypeOK
  /\ overlap \in [Logins -> BOOLEAN]
  /\ entitled \in SUBSET Issue

Init ==
  /\ StoreInit
  /\ RequestInit
  /\ CronInit
  /\ overlap = [l \in Logins |-> FALSE]
  /\ entitled = {}

(***************************************************************************)
(* Who may still write watched_repos or known_clones for a login: a        *)
(* subscribe request whose row is written, or the scan of that subscriber. *)
(***************************************************************************)
RequestWriting(l) ==
  \E r \in Reqs : req[r].login = l /\ req[r].pc \in SubscribeWriting

CronWriting(l) ==
  /\ cpc \in {"probe", "search", "diff", "record"}
  /\ cur.login = l

WriterInFlight(l) == RequestWriting(l) \/ CronWriting(l)

TrackOverlap ==
  overlap' = [l \in Logins |->
                IF Active(l) /\ ~Active(l)' THEN WriterInFlight(l) ELSE overlap[l]]

\* A subscriber who is active, has confirmed the address and is not suspended.
OwedAlerts ==
  {[login |-> l, email |-> sub[l].email] :
     l \in {m \in Logins : Active(m) /\ sub[m].verified /\ users[m] # "suspended"}}

TrackRun ==
  entitled' = IF cpc = "idle" /\ cpc' # "idle" THEN OwedAlerts
              ELSE IF cpc' = "idle" THEN {} ELSE entitled

TokenAccepted == cur # None /\ cur.token \in grant[cur.login]

RequestsMove == RequestNext /\ UNCHANGED <<cronVars, entitled>> /\ TrackOverlap

CronMoves == CronNext(TokenAccepted) /\ UNCHANGED requestVars /\ TrackOverlap /\ TrackRun

Next == RequestsMove \/ CronMoves

Spec == Init /\ [][Next]_vars

-----------------------------------------------------------------------------
(***************************************************************************)
(* Safety                                                                  *)
(***************************************************************************)

\* A row that is not active holds neither a GitHub token nor a live
\* confirmation link, whichever of the writers of the row came last
\* (deactivateSubscription wipes both; nobody may bring one back alone).
DormantRowIsWiped ==
  \A l \in Logins :
    HasRow(l) /\ ~sub[l].active => sub[l].token = None /\ sub[l].link = None

\* A confirmed row has no link left to follow: verifyByToken clears the link it
\* consumes and every path that issues a new link takes the confirmation away.
ConfirmedRowHasNoLink ==
  \A l \in Logins : HasRow(l) /\ sub[l].verified => sub[l].link = None

\* As long as a subscriber's baseline stands, the cron mails about a suspect at
\* most once, through crashes, aborted scans, failed mails, re-subscriptions
\* and scans that overlap any of them (the order of steps in scanSubscriber).
NoDuplicateAlert ==
  \A l \in Logins, s \in Suspects : told[l][s] <= 1

\* Unsubscribing and erasure leave nothing behind: without an active row there
\* are no watched repositories and no baseline, unless a subscribe request or a
\* scan for that login was in flight when the row went.
QuiescentErasureIsComplete ==
  \A l \in Logins :
    ~Active(l) /\ ~overlap[l] => watched[l] = {} /\ known[l] = {}

\* Why there is no duplicate: what was mailed about is in the baseline and no
\* longer due, what is due is in the baseline and was not mailed, and what a
\* scan is about to record was not mailed either.
AlertBookkeeping ==
  /\ \A l \in Logins, s \in Suspects :
       /\ told[l][s] \in {0, 1}
       /\ told[l][s] = 1 => s \in known[l]
       /\ s \in promised[l] => s \in known[l] /\ told[l][s] = 0
  /\ cpc = "record" => \A s \in found : told[cur.login][s] = 0

\* Why quiescent erasure is complete: once a row is gone with nobody in flight,
\* nobody can write for that login before it subscribes anew.
NoWriterWithoutRow ==
  \A l \in Logins :
    ~Active(l) /\ ~overlap[l] =>
      /\ watched[l] = {}
      /\ known[l] = {}
      /\ ~RequestWriting(l)
      /\ CronWriting(l) => cpc = "probe" /\ repos = {}

\* Why alerts stop within one run: the subscribers a run works on are among
\* those who were owed alerts when it began.
ShardWasOwedAlerts ==
  \A s \in todo \cup {cur} :
    s # None => [login |-> s.login, email |-> s.email] \in entitled

\* The inductive invariant.
IInv ==
  /\ TypeOK
  /\ DormantRowIsWiped
  /\ ConfirmedRowHasNoLink
  /\ AlertBookkeeping
  /\ NoWriterWithoutRow
  /\ ShardWasOwedAlerts

\* Unsubscribing, erasure, suspension and a withdrawn confirmation take effect
\* by the next run at the latest: an alert only goes to someone who was active,
\* verified and not suspended when the run began, to the address of that moment.
StopsWithinOneRun ==
  [][SendAlert => [login |-> cur.login, email |-> cur.email] \in entitled]_vars
=============================================================================
