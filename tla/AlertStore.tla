----------------------------- MODULE AlertStore -----------------------------
(***************************************************************************)
(* The tables of the impersonation-alert subsystem (src/alerts/store.ts)   *)
(* and the statements that write them.  Each operator below is one D1      *)
(* statement, or one D1 batch (a batch is a transaction), so each is one   *)
(* atomic update; whatever calls two of them has two steps.                *)
(*                                                                         *)
(*   sub       alert_subscriptions, at most one row per login; None = no   *)
(*             row.  Timestamps of the daily cron are the number of the    *)
(*             run ("day"), Never (0) stands for NULL and sorts first,     *)
(*             exactly as NULL does under ORDER BY ... ASC in SQLite.      *)
(*   watched   watched_repos                                               *)
(*   known     known_clones.  Both callers of recordClones pass            *)
(*             notified: true, so a row is always a notified one and the   *)
(*             table is a set of suspects per login.                       *)
(*   users     users, as far as alerts look at it: no row, a row, or a row *)
(*             with suspended_at set.                                      *)
(*                                                                         *)
(* told and promised are history variables: what subscribers were emailed  *)
(* about, and what was written to the baseline in order to email it.       *)
(***************************************************************************)
EXTENDS Naturals, FiniteSets

CONSTANTS
  Logins,       \* GitHub accounts
  Emails,       \* addresses typed into the subscribe form
  Tokens,       \* GitHub OAuth tokens, fresh for every sign-in
  Links,        \* verify tokens, fresh for every subscribe request
  Repos,        \* repositories a subscriber may own
  Suspects,     \* repositories the clone search may report
  None          \* SQL NULL, the empty token, "no row"

Never == 0

Expiry == {"never", "future", "past"}

SubRow == [email : Emails, token : Tokens \cup {None},
           active : BOOLEAN, verified : BOOLEAN,
           link : Links \cup {None}, expiry : Expiry,
           lastRun : Nat, lastScanned : Nat]

ASSUME NoneAssumption ==
  None \notin Logins \cup Emails \cup Tokens \cup Links \cup SubRow

ASSUME ReposAssumption == IsFiniteSet(Repos)

VARIABLES sub, watched, known, users, told, promised

storeVars == <<sub, watched, known, users, told, promised>>

StoreTypeOK ==
  /\ sub \in [Logins -> SubRow \cup {None}]
  /\ watched \in [Logins -> SUBSET Repos]
  /\ known \in [Logins -> SUBSET Suspects]
  /\ users \in [Logins -> {"none", "ok", "suspended"}]
  /\ told \in [Logins -> [Suspects -> Nat]]
  /\ promised \in [Logins -> SUBSET Suspects]

StoreInit ==
  /\ sub = [l \in Logins |-> None]
  /\ watched = [l \in Logins |-> {}]
  /\ known = [l \in Logins |-> {}]
  /\ users = [l \in Logins |-> "none"]
  /\ told = [l \in Logins |-> [s \in Suspects |-> 0]]
  /\ promised = [l \in Logins |-> {}]

HasRow(l) == sub[l] # None

Active(l) == HasRow(l) /\ sub[l].active

(***************************************************************************)
(* Writes of alert_subscriptions.                                          *)
(***************************************************************************)

\* UPDATE ... WHERE login = ?: nothing happens when there is no row.
UpdateRow(l, row) == sub' = IF HasRow(l) THEN [sub EXCEPT ![l] = row] ELSE sub

\* INSERT ... ON CONFLICT(login) DO UPDATE: whatever the row was, it becomes
\* an active, unverified one with a fresh link and no scan history.
UpsertSubscription(l, email, token, link) ==
  sub' = [sub EXCEPT ![l] =
            [email |-> email, token |-> token, active |-> TRUE,
             verified |-> FALSE, link |-> link, expiry |-> "future",
             lastRun |-> Never, lastScanned |-> Never]]

\* The SELECT of verifyByToken, with the expiry test on the row it returns.
LinkAccepted(l, link) ==
  HasRow(l) /\ sub[l].link = link /\ sub[l].expiry # "past"

\* Mutant: a confirmed link can be followed again.
MarkVerifiedKeepingLink(l) ==
  UpdateRow(l, [sub[l] EXCEPT !.verified = TRUE, !.expiry = "never"])

\* The UPDATE of verifyByToken: WHERE login = ?, nothing else.
MarkVerified(l) ==
  UpdateRow(l, [sub[l] EXCEPT !.verified = TRUE, !.link = None, !.expiry = "never"])

SetLastRun(l, day) == UpdateRow(l, [sub[l] EXCEPT !.lastRun = day])

SetLastScanned(l, day) == UpdateRow(l, [sub[l] EXCEPT !.lastScanned = day])

\* Mutant: the DELETE on known_clones is missing.
ClearWatchedOnly(l) ==
  /\ watched' = [watched EXCEPT ![l] = {}]
  /\ UNCHANGED <<known, told, promised>>

\* The two DELETEs on the child tables that unsubscribing and erasure share.
\* Forgetting the baseline also closes the history of what was alerted.
ClearChildren(l) ==
  /\ watched' = [watched EXCEPT ![l] = {}]
  /\ known' = [known EXCEPT ![l] = {}]
  /\ told' = [told EXCEPT ![l] = [s \in Suspects |-> 0]]
  /\ promised' = [promised EXCEPT ![l] = {}]

\* Mutant: the row is switched off but keeps the GitHub token.
DeactivateKeepingToken(l) ==
  /\ UpdateRow(l, [sub[l] EXCEPT !.active = FALSE, !.link = None])
  /\ ClearChildren(l)

\* One batch: soft-disable the row, wipe the token and the link, clear the
\* child tables.  verified and verify_expires_at keep their values.
DeactivateSubscription(l) ==
  /\ UpdateRow(l, [sub[l] EXCEPT !.active = FALSE, !.token = None, !.link = None])
  /\ ClearChildren(l)

\* The alert part of the account-deletion batch.
DeleteAlertData(l) ==
  /\ sub' = [sub EXCEPT ![l] = None]
  /\ ClearChildren(l)

(***************************************************************************)
(* Reads and writes of watched_repos and known_clones.                     *)
(***************************************************************************)

\* setWatchedRepos is two awaited steps: the DELETE and the INSERTs.
DeleteWatched(l) == watched' = [watched EXCEPT ![l] = {}]
InsertWatched(l, repos) == watched' = [watched EXCEPT ![l] = @ \cup repos]

RecordClones(l, suspects) == known' = [known EXCEPT ![l] = @ \cup suspects]

\* Mutant: the join with users is missing.
ScannableEvenSuspended(l) == Active(l) /\ sub[l].verified

(***************************************************************************)
(* listActiveSubscriptions: active, verified, and not suspended (a missing *)
(* users row counts as not suspended).                                     *)
(***************************************************************************)
Scannable(l) ==
  Active(l) /\ sub[l].verified /\ users[l] # "suspended"

ScannableLogins == {l \in Logins : Scannable(l)}

\* Mutant: the ORDER BY is missing.
ShardUnordered(B, limit) ==
  /\ B \subseteq ScannableLogins
  /\ Cardinality(B) <= limit
  /\ B = ScannableLogins \/ Cardinality(B) = limit

\* ORDER BY last_scanned_at ASC LIMIT limit: SQLite may break ties either way.
Shard(B, limit) ==
  /\ B \subseteq ScannableLogins
  /\ Cardinality(B) <= limit
  /\ B = ScannableLogins \/ Cardinality(B) = limit
  /\ \A l \in B, m \in ScannableLogins \ B :
        sub[l].lastScanned <= sub[m].lastScanned

(***************************************************************************)
(* Time passing over an unused confirmation link (VERIFY_TOKEN_TTL_MS).    *)
(***************************************************************************)
LinkExpires(l) ==
  /\ HasRow(l)
  /\ sub[l].expiry = "future"
  /\ UpdateRow(l, [sub[l] EXCEPT !.expiry = "past"])
  /\ UNCHANGED <<watched, known, users, told, promised>>
=============================================================================
