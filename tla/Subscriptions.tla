--------------------------- MODULE Subscriptions ---------------------------
(***************************************************************************)
(* The HTTP requests that create, confirm, cancel and erase an alert       *)
(* subscription: POST and DELETE /api/alerts (src/routes/alerts.ts), the   *)
(* email links (src/routes/email.ts) and DELETE /api/me                    *)
(* (src/routes/scan.ts).  A Worker serves requests concurrently, and a     *)
(* handler gives up control at every await, so a request is a small        *)
(* process: pc names the call it will make next and the other fields are   *)
(* the locals it carries from one await to the next.                       *)
(***************************************************************************)
EXTENDS AlertStore

CONSTANT Reqs   \* request slots; as many requests as slots may be in flight

VARIABLES
  req,        \* the requests in flight
  sessions,   \* sessions table: the tokens of each login's live sessions
  grant,      \* at GitHub: the tokens of each login that still work
  minted,     \* tokens ever handed out by GitHub
  issued,     \* which login and address each verify link was created for
  mailed,     \* links that were delivered to their address
  confirmed,  \* history: addresses whose owner followed a link mailed there
  erased      \* history: "no", or how the account was erased since sign-in

requestVars == <<req, sessions, grant, minted, issued, mailed, confirmed, erased>>

Kinds == {"subscribe", "cancel", "delete", "verify"}

\* pc values of a subscribe request once its row may have been written
SubscribeWriting == {"list", "clear", "insert", "search", "seed", "mail"}

Steps == {"idle", "ensure", "upsert", "cancel", "revoke", "erase", "confirm"}
           \cup SubscribeWriting

Request == [pc : Steps, kind : Kinds \cup {None}, login : Logins \cup {None},
            email : Emails \cup {None}, token : Tokens \cup {None},
            link : Links \cup {None}, repos : SUBSET Repos,
            found : SUBSET Suspects, revoked : BOOLEAN]

NoRequest == [pc |-> "idle", kind |-> None, login |-> None, email |-> None,
              token |-> None, link |-> None, repos |-> {}, found |-> {},
              revoked |-> FALSE]

Issue == [login : Logins, email : Emails]

RequestTypeOK ==
  /\ req \in [Reqs -> Request]
  /\ sessions \in [Logins -> SUBSET Tokens]
  /\ grant \in [Logins -> SUBSET Tokens]
  /\ minted \in SUBSET Tokens
  /\ issued \in [Links -> Issue \cup {None}]
  /\ mailed \in SUBSET Links
  /\ confirmed \in [Logins -> SUBSET Emails]
  /\ erased \in [Logins -> {"no", "revoked", "unrevoked"}]

Subscribing(q) ==
  \/ q.pc = "ensure" /\ q.kind = "subscribe"
  \/ q.pc \in {"upsert"} \cup SubscribeWriting

\* What a request has in its locals at each step.
LocalsOK(q) ==
  /\ q.pc # "idle" => q.login \in Logins
  /\ q.pc = "ensure" => q.kind \in {"subscribe", "cancel", "delete"}
  /\ Subscribing(q) => q.email \in Emails /\ q.token \in Tokens
  /\ q.pc \in SubscribeWriting => q.link \in Links /\ issued[q.link] \in Issue

RequestLocals ==
  /\ \A r \in Reqs : LocalsOK(req[r])
  /\ \A k \in mailed : issued[k] \in Issue

RequestInit ==
  /\ req = [r \in Reqs |-> NoRequest]
  /\ sessions = [l \in Logins |-> {}]
  /\ grant = [l \in Logins |-> {}]
  /\ minted = {}
  /\ issued = [k \in Links |-> None]
  /\ mailed = {}
  /\ confirmed = [l \in Logins |-> {}]
  /\ erased = [l \in Logins |-> "no"]

At(r, pc) == req[r].pc = pc

\* The handler's locals after a step, and the two usual cases: the next call,
\* and the response.
Continue(r, locals) == req' = [req EXCEPT ![r] = locals]

Goto(r, pc) == Continue(r, [req[r] EXCEPT !.pc = pc])

Respond(r) == Continue(r, NoRequest)

(***************************************************************************)
(* Signing in and out, and the user's own control of the grant at GitHub.  *)
(***************************************************************************)

\* The OAuth callback: GitHub hands out a new token (older ones of the same
\* login keep working), the users row is written best-effort, a session is
\* created.  upsertUserOnLogin keeps an existing suspension.
SignIn(l) ==
  \E t \in Tokens \ minted :
    /\ minted' = minted \cup {t}
    /\ grant' = [grant EXCEPT ![l] = @ \cup {t}]
    /\ sessions' = [sessions EXCEPT ![l] = @ \cup {t}]
    /\ users' \in {users, [users EXCEPT ![l] = IF @ = "none" THEN "ok" ELSE @]}
    /\ erased' = [erased EXCEPT ![l] = "no"]
    /\ UNCHANGED <<sub, watched, known, told, promised,
                   req, issued, mailed, confirmed>>

\* A session ends: logout, or its 14 days are over.
SessionEnds(l) ==
  \E t \in sessions[l] :
    /\ sessions' = [sessions EXCEPT ![l] = @ \ {t}]
    /\ UNCHANGED <<storeVars, req, grant, minted, issued, mailed, confirmed, erased>>

\* The user removes the app in GitHub's settings.
RevokeGrant(l) ==
  /\ grant[l] # {}
  /\ grant' = [grant EXCEPT ![l] = {}]
  /\ UNCHANGED <<storeVars, req, sessions, minted, issued, mailed, confirmed, erased>>

\* An admin suspends or reinstates the account.
Suspend(l) ==
  /\ users[l] = "ok"
  /\ users' = [users EXCEPT ![l] = "suspended"]
  /\ UNCHANGED <<sub, watched, known, told, promised, requestVars>>

Unsuspend(l) ==
  /\ users[l] = "suspended"
  /\ users' = [users EXCEPT ![l] = "ok"]
  /\ UNCHANGED <<sub, watched, known, told, promised, requestVars>>

(***************************************************************************)
(* requireAuth: the session is looked up first, the users row is ensured   *)
(* in a later step (ensureUser re-creates a missing row).  A suspended     *)
(* user is stopped only on the subscribe path.                             *)
(***************************************************************************)

Authenticate(r, l, t, kind, email) ==
  /\ At(r, "idle")
  /\ t \in sessions[l]
  /\ Continue(r, [NoRequest EXCEPT !.pc = "ensure", !.kind = kind,
                                   !.login = l, !.token = t, !.email = email])
  /\ UNCHANGED <<storeVars, sessions, grant, minted, issued, mailed, confirmed, erased>>

StartSubscribe(r, l) ==
  \E t \in sessions[l], e \in Emails : Authenticate(r, l, t, "subscribe", e)

StartCancel(r, l) ==
  \E t \in sessions[l] : Authenticate(r, l, t, "cancel", None)

StartDelete(r, l) ==
  \E t \in sessions[l] : Authenticate(r, l, t, "delete", None)

\* Mutant: DELETE /api/alerts is routed to the handler of POST.
FirstStepMisrouted(kind) ==
  CASE kind = "subscribe" -> "upsert"
    [] kind = "cancel"    -> "upsert"
    [] kind = "delete"    -> "revoke"

FirstStep(kind) ==
  CASE kind = "subscribe" -> "upsert"
    [] kind = "cancel"    -> "cancel"
    [] kind = "delete"    -> "revoke"

EnsureUser(r) ==
  LET l == req[r].login
      barred == users[l] = "suspended" /\ req[r].kind = "subscribe"
  IN
  /\ At(r, "ensure")
  /\ users' = [users EXCEPT ![l] = IF @ = "none" THEN "ok" ELSE @]
  /\ IF barred THEN Respond(r) ELSE Goto(r, FirstStep(req[r].kind))
  /\ UNCHANGED <<sub, watched, known, told, promised,
                 sessions, grant, minted, issued, mailed, confirmed, erased>>

(***************************************************************************)
(* POST /api/alerts                                                        *)
(***************************************************************************)

\* A fresh link is drawn and the row replaced, before anything else is known
\* to work.
Upsert(r) ==
  /\ At(r, "upsert")
  /\ \E k \in {j \in Links : issued[j] = None} :
       /\ issued' = [issued EXCEPT ![k] = [login |-> req[r].login, email |-> req[r].email]]
       /\ UpsertSubscription(req[r].login, req[r].email, req[r].token, k)
       /\ Continue(r, [req[r] EXCEPT !.pc = "list", !.link = k])
  /\ UNCHANGED <<watched, known, users, told, promised,
                 sessions, grant, minted, mailed, confirmed, erased>>

\* listRepos succeeds only with a token GitHub still accepts; the 15 most
\* starred public non-forks are any set of repositories.
ListRepos(r) ==
  /\ At(r, "list")
  /\ req[r].token \in grant[req[r].login]
  /\ \E W \in SUBSET Repos :
       Continue(r, [req[r] EXCEPT !.pc = "clear", !.repos = W])
  /\ UNCHANGED <<storeVars, sessions, grant, minted, issued, mailed, confirmed, erased>>

ClearWatched(r) ==
  /\ At(r, "clear")
  /\ DeleteWatched(req[r].login)
  /\ Goto(r, IF req[r].repos = {} THEN "search" ELSE "insert")
  /\ UNCHANGED <<sub, known, users, told, promised,
                 sessions, grant, minted, issued, mailed, confirmed, erased>>

FillWatched(r) ==
  /\ At(r, "insert")
  /\ InsertWatched(req[r].login, req[r].repos)
  /\ Goto(r, "search")
  /\ UNCHANGED <<sub, known, users, told, promised,
                 sessions, grant, minted, issued, mailed, confirmed, erased>>

\* findClonesForRepos never fails: what could not be searched is left out, so
\* the answer is any set of suspects (none when nothing is watched).
SearchBaseline(r) ==
  /\ At(r, "search")
  /\ \E S \in SUBSET Suspects :
       /\ req[r].repos = {} => S = {}
       /\ Continue(r, [req[r] EXCEPT !.pc = "seed", !.found = S])
  /\ UNCHANGED <<storeVars, sessions, grant, minted, issued, mailed, confirmed, erased>>

SeedBaseline(r) ==
  /\ At(r, "seed")
  /\ RecordClones(req[r].login, req[r].found)
  /\ Goto(r, "mail")
  /\ UNCHANGED <<sub, watched, users, told, promised,
                 sessions, grant, minted, issued, mailed, confirmed, erased>>

\* sendVerificationEmail reports a failed send but does not throw.
MailLink(r) ==
  /\ At(r, "mail")
  /\ mailed' \in {mailed, mailed \cup {req[r].link}}
  /\ Respond(r)
  /\ UNCHANGED <<storeVars, sessions, grant, minted, issued, confirmed, erased>>

(***************************************************************************)
(* GET /email/verify: a link someone received is looked up, and the row it *)
(* led to is marked verified in a second statement.                        *)
(***************************************************************************)

FollowLink(r) ==
  /\ At(r, "idle")
  /\ \E k \in mailed :
       LET l == issued[k].login IN
       /\ LinkAccepted(l, k)
       /\ confirmed' = [confirmed EXCEPT ![l] = @ \cup {issued[k].email}]
       /\ Continue(r, [NoRequest EXCEPT !.pc = "confirm", !.kind = "verify",
                                        !.login = l, !.link = k])
  /\ UNCHANGED <<storeVars, sessions, grant, minted, issued, mailed, erased>>

Confirm(r) ==
  /\ At(r, "confirm")
  /\ MarkVerified(req[r].login)
  /\ Respond(r)
  /\ UNCHANGED <<watched, known, users, told, promised,
                 sessions, grant, minted, issued, mailed, confirmed, erased>>

(***************************************************************************)
(* Unsubscribing: DELETE /api/alerts, and the unsubscribe link, which is   *)
(* an HMAC of the login that every mail carries and that never expires.    *)
(***************************************************************************)

Cancel(r) ==
  /\ At(r, "cancel")
  /\ DeactivateSubscription(req[r].login)
  /\ Respond(r)
  /\ UNCHANGED <<users, sessions, grant, minted, issued, mailed, confirmed, erased>>

EmailUnsubscribe(l) ==
  /\ \E k \in mailed : issued[k].login = l
  /\ DeactivateSubscription(l)
  /\ UNCHANGED <<users, requestVars>>

(***************************************************************************)
(* DELETE /api/me: the session's own token is revoked at GitHub            *)
(* (best-effort), then every row of the login goes in one batch.           *)
(***************************************************************************)

RevokeToken(r) ==
  LET l == req[r].login IN
  /\ At(r, "revoke")
  /\ \/ /\ grant' = [grant EXCEPT ![l] = @ \ {req[r].token}]
        /\ Continue(r, [req[r] EXCEPT !.pc = "erase", !.revoked = TRUE])
     \/ /\ grant' = grant
        /\ Goto(r, "erase")
  /\ UNCHANGED <<storeVars, sessions, minted, issued, mailed, confirmed, erased>>

Erase(r) ==
  LET l == req[r].login IN
  /\ At(r, "erase")
  /\ DeleteAlertData(l)
  /\ users' = [users EXCEPT ![l] = "none"]
  /\ sessions' = [sessions EXCEPT ![l] = {}]
  /\ erased' = [erased EXCEPT ![l] = IF req[r].revoked THEN "revoked" ELSE "unrevoked"]
  /\ Respond(r)
  /\ UNCHANGED <<grant, minted, issued, mailed, confirmed>>

\* Any awaited call may throw, and the Worker may be evicted: the request is
\* over and what it has written stays.
RequestFails(r) ==
  /\ ~At(r, "idle")
  /\ Respond(r)
  /\ UNCHANGED <<storeVars, sessions, grant, minted, issued, mailed, confirmed, erased>>

RequestStep(r) ==
  \/ EnsureUser(r)
  \/ Upsert(r) \/ ListRepos(r) \/ ClearWatched(r) \/ FillWatched(r)
  \/ SearchBaseline(r) \/ SeedBaseline(r) \/ MailLink(r)
  \/ Confirm(r) \/ Cancel(r) \/ RevokeToken(r) \/ Erase(r)

RequestArrives(r) ==
  \/ FollowLink(r)
  \/ \E l \in Logins : StartSubscribe(r, l) \/ StartCancel(r, l) \/ StartDelete(r, l)

AccountChanges ==
  \E l \in Logins :
    \/ SignIn(l) \/ SessionEnds(l) \/ RevokeGrant(l)
    \/ Suspend(l) \/ Unsuspend(l)
    \/ EmailUnsubscribe(l)
    \/ (LinkExpires(l) /\ UNCHANGED requestVars)

RequestNext ==
  \/ AccountChanges
  \/ \E r \in Reqs : RequestArrives(r) \/ RequestStep(r) \/ RequestFails(r)
=============================================================================
