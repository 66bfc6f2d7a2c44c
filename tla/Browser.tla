------------------------------- MODULE Browser -------------------------------
(***************************************************************************)
(* One browser with several tabs of the application (App.tsx, api.ts,      *)
(* reportCache.ts, authHint.ts) and its way through the OAuth handshake    *)
(* (auth/github-oauth.ts).  The tabs share the cookies and localStorage;   *)
(* each has its page and its requests.  A request takes the cookies along  *)
(* when it is sent, is served when the server gets to it, and its answer - *)
(* cookies included - is there when it arrives, if it arrives: between the *)
(* three, the other tabs do what they like.                                *)
(*                                                                         *)
(* `switched', `quiet' and `erased' are history: an account signed in      *)
(* under the page of another tab; no scan has run since the last sign-out; *)
(* the accounts erased since they last signed in.                          *)
(***************************************************************************)
EXTENDS Sessions, FiniteSets

CONSTANTS Tabs,
          MaxLogins,    \* explored visits of /auth/login
          MaxFlying,    \* explored requests under way at a time
          MaxLosses     \* explored requests or answers lost on the way

VARIABLES
  jar,          \* the session cookie: an id and when it is to be forgotten
  stateCookie,  \* the signed state of the OAuth handshake
  attempts,     \* states issued so far
  page,         \* what a tab shows: a login is that user's application
  state,        \* the state a tab went to GitHub with
  req,          \* the requests of a tab
  losses,       \* lost so far
  cache,        \* localStorage: whose report is stored under which login
  switched, quiet, erased

vars == <<table, jar, stateCookie, attempts, page, state, req, losses, cache,
          switched, quiet, erased>>

\* What a tab may show besides the application of a login.
Screens == {"closed", "checking", "out", "github", "callback"}

ASSUME ScreensAreNoLogins == Logins \cap Screens = {}

cookies == <<jar, stateCookie>>
history == <<switched, quiet, erased>>
round == <<attempts, state, losses>>

\* A report panel that is taken down while it scans and put up again scans once
\* more: at most two scans of a tab are explored at a time.
ScanKinds == {"scan", "rescan"}
Kinds == ScanKinds \cup {"me", "out", "erase", "callback"}
NoReq == [pc |-> "none"]
NoState == 0
Cookie == jar.id

Init ==
  /\ SessionsInit
  /\ jar = [id |-> None, until |-> 0]
  /\ stateCookie = NoState
  /\ attempts = 0
  /\ page = [t \in Tabs |-> "closed"]
  /\ state = [t \in Tabs |-> 0]
  /\ req = [t \in Tabs |-> [k \in Kinds |-> NoReq]]
  /\ losses = 0
  /\ cache = [l \in Logins |-> None]
  /\ switched = FALSE
  /\ quiet = FALSE
  /\ erased = {}

Flying == {x \in Tabs \X Kinds : req[x[1]][x[2]] # NoReq}
Room == Cardinality(Flying) < MaxFlying
Sends(t, k) ==
  /\ Room
  /\ req[t][k] = NoReq
  /\ req' = [req EXCEPT ![t][k] = [pc |-> "sent", cookie |-> Cookie]]
Idle(t) == [req EXCEPT ![t] = [k \in Kinds |-> NoReq]]
Show(t, p) == page' = [page EXCEPT ![t] = p]

-----------------------------------------------------------------------------
\* What the user does

\* A document load: App mounts and asks who is signed in.
Open(t) ==
  /\ page[t] = "closed"
  /\ Show(t, "checking")
  /\ Sends(t, "me")
  /\ UNCHANGED <<table, cookies, round, cache, history>>

\* Closed or navigated away from: its requests are aborted, and have been served
\* by now or are not served at all.
Close(t) ==
  /\ page[t] # "closed"
  /\ Show(t, "closed")
  /\ state' = [state EXCEPT ![t] = 0]
  /\ req' = Idle(t)
  /\ UNCHANGED <<table, cookies, attempts, losses, cache, history>>

\* GET /auth/login: a fresh state in a signed cookie, and off to GitHub.
Login(t) ==
  /\ page[t] = "out"
  /\ attempts < MaxLogins
  /\ attempts' = attempts + 1
  /\ stateCookie' = attempts + 1
  /\ state' = [state EXCEPT ![t] = attempts + 1]
  /\ Show(t, "github")
  /\ req' = Idle(t)
  /\ UNCHANGED <<table, jar, losses, cache, history>>

\* GitHub sends the tab back to /auth/callback.
Return(t) ==
  /\ page[t] = "github"
  /\ Room
  /\ Show(t, "callback")
  /\ req' = [req EXCEPT ![t]["callback"] =
       [pc |-> "sent", signed |-> stateCookie]]
  /\ UNCHANGED <<table, cookies, round, cache, history>>

\* The self-report runs when its tab is mounted without a fresh cached one,
\* and on Rescan; the button is disabled while it loads.
Scan(t, k) ==
  /\ page[t] \in Logins
  /\ req[t][k] = NoReq /\ Room
  /\ k = "rescan" => req[t]["scan"] # NoReq
  /\ req' = [req EXCEPT ![t][k] =
       [pc |-> "sent", cookie |-> Cookie, as |-> page[t]]]
  /\ quiet' = FALSE
  /\ UNCHANGED <<table, cookies, round, page, cache, switched,
                 erased>>

NoScanUnderWay == \A t \in Tabs, k \in ScanKinds : req[t][k] = NoReq

\* Mutant: sign-out clears the report of its own login only.
SignOutClearsOwn(t) ==
  /\ page[t] \in Logins
  /\ cache' = [cache EXCEPT ![page[t]] = None]
  /\ Sends(t, "out")
  /\ quiet' = NoScanUnderWay
  /\ UNCHANGED <<table, cookies, round, page, switched, erased>>

\* handleSignOut, up to its await: storage first, then the request.
SignOut(t) ==
  /\ page[t] \in Logins
  /\ cache' = [l \in Logins |-> None]
  /\ Sends(t, "out")
  /\ quiet' = NoScanUnderWay
  /\ UNCHANGED <<table, cookies, round, page, switched, erased>>

DeleteAccount(t) ==
  /\ page[t] \in Logins
  /\ Sends(t, "erase")
  /\ UNCHANGED <<table, cookies, round, page, cache, history>>

-----------------------------------------------------------------------------
\* The server

Served(t, k, ans) ==
  req' = [req EXCEPT ![t][k] = [pc |-> "served", ans |-> ans]]
Takes(t, k) == req[t][k].pc = "sent"

\* GET /me and POST /report answer for whom the cookie speaks, or 401.
ServeMe(t) ==
  /\ Takes(t, "me")
  /\ GetSession(req[t]["me"].cookie)
  /\ Served(t, "me", SessionOf(req[t]["me"].cookie))
  /\ UNCHANGED <<cookies, round, page, cache, history>>

ServeReport(t, k) ==
  LET r == req[t][k] IN
  /\ Takes(t, k)
  /\ GetSession(r.cookie)
  /\ req' = [req EXCEPT ![t][k] =
       [pc |-> "served", as |-> r.as, ans |-> SessionOf(r.cookie)]]
  /\ UNCHANGED <<cookies, round, page, cache, history>>

\* POST /auth/logout asks for no session.
ServeLogout(t) ==
  /\ Takes(t, "out")
  /\ DestroySession(req[t]["out"].cookie)
  /\ Served(t, "out", "ok")
  /\ UNCHANGED <<cookies, round, page, cache, history>>

\* DELETE /me, up to the await on GitHub, which revokes the token.
ServeErase(t) ==
  LET cookie == req[t]["erase"].cookie
      login == SessionOf(cookie)
  IN  /\ Takes(t, "erase")
      /\ GetSession(cookie)
      /\ IF login = None THEN Served(t, "erase", None)
         ELSE req' = [req EXCEPT ![t]["erase"] =
                [pc |-> "erasing", cookie |-> cookie, login |-> login]]
      /\ UNCHANGED <<cookies, round, page, cache, history>>

\* And its batch, for the login of the session it looked up then.
EraseRows(t) ==
  LET r == req[t]["erase"] IN
  /\ r.pc = "erasing"
  /\ EraseSessions(r.login, r.cookie)
  /\ erased' = erased \cup {r.login}
  /\ Served(t, "erase", r.login)
  /\ UNCHANGED <<cookies, round, page, cache, switched, quiet>>

\* GET /auth/callback: the state must be the one the cookie vouches for; the
\* exchange at GitHub may fail; then whoever is signed in there has a session.
ServeCallback(t) ==
  LET signed == req[t]["callback"].signed
  IN  /\ Takes(t, "callback")
      /\ \/ /\ Served(t, "callback", None)
            /\ UNCHANGED <<table, erased>>
         \/ \E l \in Logins :
              /\ signed = state[t]
              /\ CreateSession(l)
              /\ Served(t, "callback", NextId)
              /\ erased' = erased \ {l}
      /\ UNCHANGED <<cookies, round, page, cache, switched, quiet>>

-----------------------------------------------------------------------------
\* The answer in the browser

Arrives(t, k) == req[t][k].pc = "served"
Over(t, k) == req' = [req EXCEPT ![t][k] = NoReq]
NoCookie == [id |-> None, until |-> 0]

\* api.me().then: a 401 is null, and resolves as well as a user does.
MeArrives(t) ==
  LET who == req[t]["me"].ans IN
  /\ Arrives(t, "me")
  /\ Show(t, IF who = None THEN "out" ELSE who)
  /\ Over(t, "me")
  /\ UNCHANGED <<table, cookies, round, cache, history>>

\* runScan: the report is stored under the login the page was mounted with.
ReportArrives(t, k) ==
  LET r == req[t][k] IN
  /\ Arrives(t, k)
  /\ cache' = IF r.ans = None THEN cache ELSE [cache EXCEPT ![r.as] = r.ans]
  /\ Over(t, k)
  /\ UNCHANGED <<table, cookies, round, page, history>>

\* deleteCookie takes whatever session cookie is there by now.
SignOutArrives(t) ==
  /\ Arrives(t, "out")
  /\ jar' = NoCookie
  /\ Show(t, "out")
  /\ Over(t, "out")
  /\ UNCHANGED <<table, stateCookie, round, cache, history>>

\* handleAccountDeleted; a 401 is shown and changes nothing.
ErasureArrives(t) ==
  /\ Arrives(t, "erase")
  /\ IF req[t]["erase"].ans = None THEN UNCHANGED <<jar, page, cache>>
     ELSE /\ jar' = NoCookie
          /\ cache' = [l \in Logins |-> None]
          /\ Show(t, "out")
  /\ Over(t, "erase")
  /\ UNCHANGED <<table, stateCookie, round, history>>

\* The callback's redirect takes the state cookie, brings the session cookie
\* if there is one, and loads the application.
CallbackArrives(t) ==
  LET id == req[t]["callback"].ans
      landed == IF id = None THEN jar
                ELSE [id |-> id, until |-> clock + Term]
      login == IF id = None \/ sessions[id] = None THEN None
               ELSE sessions[id].login
  IN  /\ Arrives(t, "callback")
      /\ stateCookie' = NoState
      /\ jar' = landed
      /\ Show(t, "checking")
      /\ req' = [req EXCEPT ![t]["callback"] = NoReq,
                   ![t]["me"] = [pc |-> "sent", cookie |-> landed.id]]
      /\ switched' = \/ switched
                     \/ /\ login # None
                        /\ \E u \in Tabs :
                             page[u] \in (Logins \ {login}) \cup {"checking"}
      /\ state' = [state EXCEPT ![t] = 0]
      /\ UNCHANGED <<table, attempts, losses, cache, quiet, erased>>

\* A request or its answer is lost.  A page whose own load is lost is gone; the
\* others fall into their catch: me and sign-out show the landing.
Lose(t, k) ==
  /\ req[t][k] # NoReq
  /\ losses < MaxLosses
  /\ losses' = losses + 1
  /\ Over(t, k)
  /\ page' = [page EXCEPT ![t] = CASE k = "callback" -> "closed"
                                   [] k \in {"me", "out"} -> "out"
                                   [] OTHER -> @]
  /\ UNCHANGED <<table, cookies, attempts, state, cache, history>>

\* A browser forgets a cookie when its age is reached, by its own clock.
Forget ==
  /\ jar # NoCookie
  /\ jar.until <= clock
  /\ jar' = NoCookie
  /\ UNCHANGED <<table, stateCookie, round, page, req, cache, history>>

-----------------------------------------------------------------------------
Tab(t) ==
  \/ Open(t) \/ Close(t) \/ Login(t) \/ Return(t)
  \/ SignOut(t) \/ DeleteAccount(t)
  \/ \E k \in ScanKinds : Scan(t, k) \/ ReportArrives(t, k)
  \/ MeArrives(t) \/ SignOutArrives(t)
  \/ ErasureArrives(t) \/ CallbackArrives(t)
  \/ \E k \in Kinds : Lose(t, k)

Server(t) ==
  \/ ServeMe(t) \/ \E k \in ScanKinds : ServeReport(t, k)
  \/ ServeLogout(t) \/ ServeErase(t) \/ EraseRows(t) \/ ServeCallback(t)

Cron == SweepExpiredSessions \/ Tick

Next ==
  \/ \E t \in Tabs : Tab(t) \/ Server(t)
  \/ Forget
  \/ /\ Cron
     /\ UNCHANGED <<cookies, round, page, req, cache, history>>

Spec == Init /\ [][Next]_vars

-----------------------------------------------------------------------------
TypeOK ==
  /\ sessions \in [Ids -> Row \cup {None}]
  /\ jar.id \in Ids \cup {None}
  /\ page \in [Tabs -> Logins \cup Screens]
  /\ cache \in [Logins -> Logins \cup {None}]

\* A session that leaves the table has outlived its term, or somebody signed
\* out with its cookie or erased its account: neither the sweep nor a request
\* that meets a boundary of the term ends anybody's session early.
SessionsEndForACause ==
  [][\A i \in Ids :
       sessions[i] # None /\ sessions'[i] = None =>
         \/ Expired(sessions[i])
         \/ \E t \in Tabs : Takes(t, "out") /\ req[t]["out"].cookie = i
         \/ sessions[i].login \in erased']_vars

\* After an erasure nobody is signed in to the account, on any device and with
\* any cookie, until somebody signs in again.
ErasureSignsOutEverywhere ==
  \A i \in Ids : sessions[i] # None => sessions[i].login \notin erased

\* A report in localStorage is of the account it is stored under, unless an
\* account signed in while another tab showed, or was about to show, another's
\* application.
ReportsAreCachedUnderTheirAccount ==
  \A l \in Logins : cache[l] \in {l, None} \/ switched

\* A sign-out clears every cached report (reportCache.ts:51 "all of them on
\* sign-out"), whoever left it there: there is none until the next scan,
\* unless one was running.
SignOutClearsEveryReport ==
  quiet => \A l \in Logins : cache[l] = None
=============================================================================
