---------------------------- MODULE BrowserProofs ----------------------------
(***************************************************************************)
(* Proofs about Browser, for any tabs, accounts, sign-ins, requests under  *)
(* way, losses and term of a session.                                      *)
(*                                                                         *)
(*   1. types                                                              *)
(*   2. who is signed in to an erased account                              *)
(*   3. what a tab may have under way, and which ids are in use            *)
(*   4. whose report is stored under a login                               *)
(***************************************************************************)
EXTENDS Browser, TLAPS

MaybeId == Ids \cup {None}
MaybeLogin == Logins \cup {None}

\* What a request carries on its way out and back.
SentOK(k, r) ==
  /\ k # "callback" => r.cookie \in MaybeId
  /\ k \in ScanKinds => r.as \in Logins

ServedOK(k, r) ==
  /\ k \in ScanKinds \cup {"me", "erase"} => r.ans \in MaybeLogin
  /\ k \in ScanKinds => r.as \in Logins
  /\ k = "callback" => r.ans \in MaybeId

RequestOK(k, r) ==
  /\ r = NoReq \/ r.pc \in {"sent", "erasing", "served"}
  /\ r.pc = "sent" => SentOK(k, r)
  /\ r.pc = "erasing" => k = "erase" /\ r.login \in Logins
  /\ r.pc = "served" => ServedOK(k, r)

RequestsOK ==
  /\ req = [t \in Tabs |-> [k \in Kinds |-> req[t][k]]]
  /\ \A t \in Tabs, k \in Kinds : RequestOK(k, req[t][k])

TableOK ==
  /\ sessions \in [Ids -> Row \cup {None}]
  /\ issued \in 0..MaxSessions
  /\ clock \in Nat

PageOK ==
  /\ jar.id \in MaybeId
  /\ page \in [Tabs -> Logins \cup Screens]
  /\ cache \in [Logins -> MaybeLogin]

TypeInv == TableOK /\ PageOK /\ RequestsOK

-----------------------------------------------------------------------------
(* 1. Types *)

LEMMA SentIsNotNone ==
  ASSUME NEW r, r.pc \in {"sent", "served"}
  PROVE  r # NoReq
BY DEF NoReq

LEMMA NoReqOK == ASSUME NEW k PROVE RequestOK(k, NoReq)
BY DEF RequestOK, NoReq

\* One request changes.
LEMMA OneRequest ==
  ASSUME RequestsOK, NEW t \in Tabs, NEW k \in Kinds, NEW r, RequestOK(k, r),
         req' = [req EXCEPT ![t][k] = r]
  PROVE  RequestsOK'
<1>1. req' = [u \in Tabs |-> [j \in Kinds |-> IF u = t /\ j = k THEN r ELSE req[u][j]]]
  BY DEF RequestsOK
<1>2. \A u \in Tabs, j \in Kinds : req'[u][j] = IF u = t /\ j = k THEN r ELSE req[u][j]
  BY <1>1
<1>3. req' = [u \in Tabs |-> [j \in Kinds |-> req'[u][j]]]
  BY <1>1
<1>4. \A u \in Tabs, j \in Kinds : RequestOK(j, req'[u][j])
  BY <1>2 DEF RequestsOK
<1> QED BY <1>3, <1>4 DEF RequestsOK

LEMMA AllRequests ==
  ASSUME RequestsOK, NEW t \in Tabs, req' = Idle(t)
  PROVE  RequestsOK'
<1>1. req' = [u \in Tabs |-> [j \in Kinds |-> IF u = t THEN NoReq ELSE req[u][j]]]
  BY DEF RequestsOK, Idle
<1>2. \A u \in Tabs, j \in Kinds : req'[u][j] = IF u = t THEN NoReq ELSE req[u][j]
  BY <1>1
<1>4. \A u \in Tabs, j \in Kinds : RequestOK(j, req'[u][j])
  BY <1>2, NoReqOK DEF RequestsOK
<1> QED BY <1>1, <1>4 DEF RequestsOK

LEMMA SessionOfType ==
  ASSUME TableOK, NEW c \in MaybeId
  PROVE  SessionOf(c) \in MaybeLogin
BY SessionsAssumption DEF TableOK, SessionOf, MaybeLogin, MaybeId, Row

LEMMA DeleteType ==
  ASSUME TableOK, NEW gone, DeleteRows(gone), UNCHANGED <<issued, clock>>
  PROVE  TableOK'
BY DEF TableOK, DeleteRows

LEMMA GetSessionType ==
  ASSUME TableOK, NEW c \in MaybeId, GetSession(c)
  PROVE  TableOK'
BY DEF TableOK, GetSession, MaybeId

LEMMA TypeInit == Init => TypeInv
<1> SUFFICES ASSUME Init PROVE TypeInv
  OBVIOUS
<1>1. TableOK BY SessionsAssumption DEF Init, SessionsInit, TableOK
<1>2. PageOK BY DEF Init, PageOK, MaybeId, MaybeLogin, Screens
<1>3. RequestsOK BY NoReqOK DEF Init, RequestsOK
<1> QED BY <1>1, <1>2, <1>3 DEF TypeInv

\* A request leaves.
LEMMA SendsType ==
  ASSUME TypeInv, NEW t \in Tabs, NEW k \in {"me", "out", "erase"}, Sends(t, k)
  PROVE  RequestsOK'
<1>1. RequestOK(k, [pc |-> "sent", cookie |-> Cookie])
  BY DEF RequestOK, SentOK, TypeInv, PageOK, Cookie, ScanKinds
<1> QED BY <1>1, OneRequest DEF Sends, Kinds, TypeInv

LEMMA OverType ==
  ASSUME TypeInv, NEW t \in Tabs, NEW k \in Kinds, Over(t, k)
  PROVE  RequestsOK'
BY OneRequest, NoReqOK DEF Over, TypeInv

LEMMA TypeStep == TypeInv /\ [Next]_vars => TypeInv'
<1> SUFFICES ASSUME TypeInv, [Next]_vars PROVE TypeInv'
  OBVIOUS
<1> USE DEF TypeInv
<1>s. UNCHANGED table /\ TableOK => TableOK'
  BY DEF table, TableOK
<1>1. ASSUME NEW t \in Tabs, Open(t) PROVE TypeInv'
  <2>1. PageOK' BY <1>1 DEF Open, Show, PageOK, cookies, Screens
  <2> QED BY <1>1, <1>s, <2>1, SendsType DEF Open
<1>2. ASSUME NEW t \in Tabs, Close(t) PROVE TypeInv'
  <2>1. PageOK' BY <1>2 DEF Close, Show, PageOK, cookies, Screens
  <2> QED BY <1>2, <1>s, <2>1, AllRequests DEF Close
<1>3. ASSUME NEW t \in Tabs, Login(t) PROVE TypeInv'
  <2>1. PageOK' BY <1>3 DEF Login, Show, PageOK, Screens
  <2> QED BY <1>3, <1>s, <2>1, AllRequests DEF Login
<1>4. ASSUME NEW t \in Tabs, Return(t) PROVE TypeInv'
  <2>1. PageOK' BY <1>4 DEF Return, Show, PageOK, cookies, Screens
  <2>2. RequestOK("callback", [pc |-> "sent", signed |-> stateCookie])
    BY DEF RequestOK, SentOK, ScanKinds
  <2> QED BY <1>4, <1>s, <2>1, <2>2, OneRequest DEF Return, Kinds
<1>5. ASSUME NEW t \in Tabs, NEW k \in ScanKinds, Scan(t, k) PROVE TypeInv'
  <2>1. PageOK' BY <1>5 DEF Scan, PageOK, cookies
  <2>2. RequestOK(k, [pc |-> "sent", cookie |-> Cookie, as |-> page[t]])
    BY <1>5 DEF Scan, RequestOK, SentOK, PageOK, Cookie
  <2> QED BY <1>5, <1>s, <2>1, <2>2, OneRequest DEF Scan, Kinds
<1>6. ASSUME NEW t \in Tabs, SignOut(t) PROVE TypeInv'
  <2>1. PageOK' BY <1>6 DEF SignOut, PageOK, cookies, MaybeLogin
  <2> QED BY <1>6, <1>s, <2>1, SendsType DEF SignOut
<1>7. ASSUME NEW t \in Tabs, DeleteAccount(t) PROVE TypeInv'
  <2>1. PageOK' BY <1>7 DEF DeleteAccount, PageOK, cookies
  <2> QED BY <1>7, <1>s, <2>1, SendsType DEF DeleteAccount
<1>p. UNCHANGED <<cookies, page, cache>> /\ PageOK => PageOK'
  BY DEF PageOK, cookies
<1>8. ASSUME NEW t \in Tabs, ServeMe(t) PROVE TypeInv'
  <2> DEFINE c == req[t]["me"].cookie
  <2>1. c \in MaybeId
    BY <1>8 DEF ServeMe, Takes, RequestsOK, RequestOK, SentOK, Kinds
  <2>2. RequestOK("me", [pc |-> "served", ans |-> SessionOf(c)])
    BY <2>1, SessionOfType DEF RequestOK, ServedOK, ScanKinds
  <2> QED BY <1>8, <1>p, <2>1, <2>2, GetSessionType, OneRequest DEF ServeMe, Served, Kinds
<1>9. ASSUME NEW t \in Tabs, NEW k \in ScanKinds, ServeReport(t, k) PROVE TypeInv'
  <2> DEFINE r == req[t][k]
  <2>1. r.cookie \in MaybeId /\ r.as \in Logins
    BY <1>9 DEF ServeReport, Takes, RequestsOK, RequestOK, SentOK, Kinds, ScanKinds
  <2>2. RequestOK(k, [pc |-> "served", as |-> r.as, ans |-> SessionOf(r.cookie)])
    BY <2>1, SessionOfType DEF RequestOK, ServedOK, ScanKinds
  <2> QED BY <1>9, <1>p, <2>1, <2>2, GetSessionType, OneRequest DEF ServeReport, Kinds
<1>10. ASSUME NEW t \in Tabs, ServeLogout(t) PROVE TypeInv'
  <2>1. RequestOK("out", [pc |-> "served", ans |-> "ok"])
    BY DEF RequestOK, ServedOK, ScanKinds
  <2> QED BY <1>10, <1>p, <2>1, DeleteType, OneRequest
          DEF ServeLogout, DestroySession, Served, Kinds
<1>11. ASSUME NEW t \in Tabs, ServeErase(t) PROVE TypeInv'
  <2> DEFINE c == req[t]["erase"].cookie
             login == SessionOf(c)
  <2>1. c \in MaybeId
    BY <1>11 DEF ServeErase, Takes, RequestsOK, RequestOK, SentOK, Kinds
  <2>2. PICK r : /\ req' = [req EXCEPT ![t]["erase"] = r]
                 /\ \/ login = None /\ r = [pc |-> "served", ans |-> None]
                    \/ login # None /\ r = [pc |-> "erasing", cookie |-> c, login |-> login]
    BY <1>11 DEF ServeErase, Served
  <2>3. login \in MaybeLogin BY <2>1, SessionOfType
  <2> HIDE DEF login
  <2>4. RequestOK("erase", r)
    BY <2>2, <2>3 DEF RequestOK, ServedOK, MaybeLogin, ScanKinds
  <2> QED BY <1>11, <1>p, <2>1, <2>2, <2>4, GetSessionType, OneRequest DEF ServeErase, Kinds
<1>22. ASSUME NEW t \in Tabs, EraseRows(t) PROVE TypeInv'
  <2> DEFINE r == req[t]["erase"]
  <2>1. r.login \in Logins
    BY <1>22 DEF EraseRows, RequestsOK, RequestOK, Kinds, NoReq
  <2>2. RequestOK("erase", [pc |-> "served", ans |-> r.login])
    BY <2>1 DEF RequestOK, ServedOK, MaybeLogin, ScanKinds
  <2>3. TableOK' BY <1>22, DeleteType DEF EraseRows, EraseSessions
  <2> QED BY <1>22, <1>p, <2>2, <2>3, OneRequest DEF EraseRows, Served, Kinds
<1>12. ASSUME NEW t \in Tabs, ServeCallback(t) PROVE TypeInv'
  <2>1. CASE Served(t, "callback", None) /\ UNCHANGED table
    <3>1. RequestOK("callback", [pc |-> "served", ans |-> None])
      BY DEF RequestOK, ServedOK, MaybeId, ScanKinds
    <3> QED BY <1>12, <1>p, <1>s, <2>1, <3>1, OneRequest DEF ServeCallback, Served, Kinds
  <2>2. ASSUME NEW l \in Logins, CreateSession(l), Served(t, "callback", NextId)
        PROVE  TypeInv'
    <3>1. NextId \in Ids BY <2>2, SessionsAssumption DEF CreateSession, NextId, TableOK, Ids
    <3>2. [login |-> l, expires |-> clock + Term] \in Row
      BY SessionsAssumption DEF TableOK, Row
    <3>3. TableOK' BY <2>2, <3>1, <3>2, SessionsAssumption DEF CreateSession, TableOK, Ids
    <3>4. RequestOK("callback", [pc |-> "served", ans |-> NextId])
      BY <3>1 DEF RequestOK, ServedOK, MaybeId, ScanKinds
    <3> QED BY <1>12, <1>p, <2>2, <3>3, <3>4, OneRequest DEF ServeCallback, Served, Kinds
  <2> QED BY <1>12, <2>1, <2>2 DEF ServeCallback
<1>13. ASSUME NEW t \in Tabs, MeArrives(t) PROVE TypeInv'
  <2>1. req[t]["me"].ans \in MaybeLogin
    BY <1>13 DEF MeArrives, Arrives, RequestsOK, RequestOK, ServedOK, Kinds
  <2>2. PageOK' BY <1>13, <2>1 DEF MeArrives, Show, PageOK, cookies, Screens, MaybeLogin
  <2> QED BY <1>13, <1>s, <2>2, OverType DEF MeArrives, Kinds
<1>14. ASSUME NEW t \in Tabs, NEW k \in ScanKinds, ReportArrives(t, k) PROVE TypeInv'
  <2>1. req[t][k].ans \in MaybeLogin /\ req[t][k].as \in Logins
    BY <1>14 DEF ReportArrives, Arrives, RequestsOK, RequestOK, ServedOK, Kinds
  <2>2. PageOK' BY <1>14, <2>1 DEF ReportArrives, PageOK, cookies
  <2> QED BY <1>14, <1>s, <2>2, OverType DEF ReportArrives, Kinds
<1>15. ASSUME NEW t \in Tabs, SignOutArrives(t) PROVE TypeInv'
  <2>1. PageOK' BY <1>15 DEF SignOutArrives, Show, PageOK, NoCookie, MaybeId, Screens
  <2> QED BY <1>15, <1>s, <2>1, OverType DEF SignOutArrives, Kinds
<1>16. ASSUME NEW t \in Tabs, ErasureArrives(t) PROVE TypeInv'
  <2>1. PageOK'
    BY <1>16 DEF ErasureArrives, Show, PageOK, NoCookie, MaybeId, MaybeLogin, Screens
  <2> QED BY <1>16, <1>s, <2>1, OverType DEF ErasureArrives, Kinds
<1>17. ASSUME NEW t \in Tabs, CallbackArrives(t) PROVE TypeInv'
  <2> DEFINE id == req[t]["callback"].ans
             landed == IF id = None THEN jar ELSE [id |-> id, until |-> clock + Term]
             asked == [pc |-> "sent", cookie |-> landed.id]
             over == [req EXCEPT ![t]["callback"] = NoReq]
  <2>1. id \in MaybeId
    BY <1>17 DEF CallbackArrives, Arrives, RequestsOK, RequestOK, ServedOK, Kinds
  <2>2. landed.id \in MaybeId BY <2>1 DEF PageOK
  <2>3. PageOK' BY <1>17, <2>2 DEF CallbackArrives, Show, PageOK, Screens
  <2>4. RequestOK("me", asked) BY <2>2 DEF RequestOK, SentOK, ScanKinds
  <2>5. req' = [over EXCEPT ![t]["me"] = asked] BY <1>17 DEF CallbackArrives
  <2>6. req' = [u \in Tabs |-> [j \in Kinds |->
                  IF u = t /\ j = "callback" THEN NoReq
                  ELSE IF u = t /\ j = "me" THEN asked ELSE req[u][j]]]
    <3> HIDE DEF asked
    <3> QED BY <2>5 DEF RequestsOK, Kinds
  <2> HIDE DEF asked
  <2>7. \A u \in Tabs, j \in Kinds : RequestOK(j, req'[u][j])
    BY <2>4, <2>6, NoReqOK DEF RequestsOK
  <2>8. RequestsOK' BY <2>6, <2>7 DEF RequestsOK
  <2> QED BY <1>17, <1>s, <2>3, <2>8 DEF CallbackArrives
<1>18. ASSUME NEW t \in Tabs, NEW k \in Kinds, Lose(t, k) PROVE TypeInv'
  <2>1. PageOK' BY <1>18 DEF Lose, PageOK, cookies, Screens
  <2> QED BY <1>18, <1>s, <2>1, OverType DEF Lose
<1>19. CASE Forget
  <2>1. PageOK' BY <1>19 DEF Forget, PageOK, NoCookie, MaybeId
  <2> QED BY <1>19, <1>s, <2>1 DEF Forget, RequestsOK
<1>20. CASE Cron /\ UNCHANGED <<cookies, round, page, req, cache, history>>
  <2>1. CASE SweepExpiredSessions
    BY <1>20, <1>p, <2>1, DeleteType DEF SweepExpiredSessions, RequestsOK
  <2>2. CASE Tick
    <3>1. TableOK' BY <2>2 DEF Tick, TableOK
    <3> QED BY <1>20, <1>p, <3>1 DEF RequestsOK
  <2> QED BY <1>20, <2>1, <2>2 DEF Cron
<1>21. CASE UNCHANGED vars
  BY <1>21, <1>s, <1>p DEF vars, cookies, RequestsOK
<1> QED BY <1>1, <1>2, <1>3, <1>4, <1>5, <1>6, <1>7, <1>8, <1>9, <1>10, <1>11, <1>12,
           <1>13, <1>14, <1>15, <1>16, <1>17, <1>18, <1>19, <1>20, <1>21, <1>22
        DEF Next, Tab, Server

LEMMA TypeInvariant == Spec => []TypeInv
BY TypeInit, TypeStep, PTL DEF Spec

\* Rows, cookies, pages and the cache hold ids and logins, and nothing else
\* (auth/session.ts, reportCache.ts).
THEOREM BrowserTypeCorrect == Spec => []TypeOK
<1>1. TypeInv => TypeOK
  BY DEF TypeInv, TableOK, PageOK, TypeOK, MaybeId, MaybeLogin
<1> QED BY <1>1, TypeInvariant, PTL

-----------------------------------------------------------------------------
(* 2. Who is signed in to an erased account *)

LEMMA ErasureStep ==
  TypeInv /\ ErasureSignsOutEverywhere /\ [Next]_vars => ErasureSignsOutEverywhere'
<1> SUFFICES ASSUME TypeInv, ErasureSignsOutEverywhere, [Next]_vars
             PROVE  ErasureSignsOutEverywhere'
  OBVIOUS
<1> USE DEF ErasureSignsOutEverywhere
<1>1. CASE UNCHANGED <<sessions, erased>>
  BY <1>1
<1>2. ASSUME NEW gone, DeleteRows(gone), UNCHANGED erased
      PROVE  ErasureSignsOutEverywhere'
  BY <1>2 DEF DeleteRows
<1>3. ASSUME NEW c \in MaybeId, GetSession(c), UNCHANGED erased
      PROVE  ErasureSignsOutEverywhere'
  BY <1>3 DEF GetSession, MaybeId, TypeInv, TableOK
<1>c. ASSUME NEW t \in Tabs, NEW k \in Kinds \ {"callback"}, Takes(t, k)
      PROVE  req[t][k].cookie \in MaybeId
  BY <1>c DEF Takes, TypeInv, RequestsOK, RequestOK, SentOK, Kinds
<1>4. ASSUME NEW t \in Tabs, EraseRows(t) PROVE ErasureSignsOutEverywhere'
  BY <1>4 DEF EraseRows, EraseSessions, DeleteRows, Live
<1>5. ASSUME NEW t \in Tabs, ServeCallback(t) PROVE ErasureSignsOutEverywhere'
  <2>1. ASSUME NEW l \in Logins, CreateSession(l), erased' = erased \ {l}
        PROVE  ErasureSignsOutEverywhere'
    <3>1. \A i \in Ids : sessions'[i] = sessions[i]
                            \/ sessions'[i] = [login |-> l, expires |-> clock + Term]
      BY <2>1 DEF CreateSession, TypeInv, TableOK
    <3> QED BY <2>1, <3>1
  <2> QED BY <1>1, <1>5, <2>1 DEF ServeCallback, table
<1>9. ASSUME NEW t \in Tabs, NEW k \in Kinds \ {"callback"},
             Takes(t, k), GetSession(req[t][k].cookie), UNCHANGED erased
      PROVE  ErasureSignsOutEverywhere'
  BY <1>3, <1>9, <1>c
<1>6. ASSUME NEW t \in Tabs, Server(t) PROVE ErasureSignsOutEverywhere'
  BY <1>2, <1>4, <1>5, <1>6, <1>9
     DEF Server, ServeMe, ServeReport, ServeLogout, ServeErase, DestroySession, history, Kinds,
         ScanKinds
<1>7. ASSUME NEW t \in Tabs, Tab(t) PROVE UNCHANGED <<sessions, erased>>
  BY <1>7 DEF Tab, Open, Close, Login, Return, Scan, SignOut, DeleteAccount, MeArrives,
       ReportArrives, SignOutArrives, ErasureArrives, CallbackArrives, Lose, table, history
<1>8. CASE Cron /\ UNCHANGED <<cookies, round, page, req, cache, history>>
  BY <1>1, <1>2, <1>8 DEF Cron, SweepExpiredSessions, Tick, history
<1> QED BY <1>1, <1>6, <1>7, <1>8 DEF Next, Forget, vars, table, history

\* DELETE /me ends every session of the login, on every device, and nothing but
\* a new sign-in starts one.
THEOREM ErasedAccountsAreSignedOut == Spec => []ErasureSignsOutEverywhere
<1>1. Init => ErasureSignsOutEverywhere
  BY DEF Init, SessionsInit, ErasureSignsOutEverywhere
<1> QED BY <1>1, ErasureStep, TypeInvariant, PTL DEF Spec

\* What may end a session.
EndsForACause ==
  \A i \in Ids :
    sessions[i] # None /\ sessions'[i] = None =>
      \/ Expired(sessions[i])
      \/ \E t \in Tabs : Takes(t, "out") /\ req[t]["out"].cookie = i
      \/ sessions[i].login \in erased'

LEMMA EndStep == TypeInv /\ [Next]_vars => EndsForACause
<1> SUFFICES ASSUME TypeInv, [Next]_vars PROVE EndsForACause
  OBVIOUS
<1> USE DEF EndsForACause
<1>1. CASE UNCHANGED sessions
  BY <1>1
<1>2. ASSUME NEW c \in MaybeId, GetSession(c) PROVE EndsForACause
  BY <1>2 DEF GetSession, MaybeId, TypeInv, TableOK
<1>c. ASSUME NEW t \in Tabs, NEW k \in Kinds \ {"callback"}, Takes(t, k)
      PROVE  req[t][k].cookie \in MaybeId
  BY <1>c DEF Takes, TypeInv, RequestsOK, RequestOK, SentOK, Kinds
<1>3. ASSUME NEW t \in Tabs, ServeLogout(t) PROVE EndsForACause
  BY <1>3 DEF ServeLogout, DestroySession, DeleteRows
<1>4. ASSUME NEW t \in Tabs, EraseRows(t) PROVE EndsForACause
  BY <1>4 DEF EraseRows, EraseSessions, DeleteRows, Live
<1>5. ASSUME NEW t \in Tabs, ServeCallback(t) PROVE EndsForACause
  <2>1. ASSUME NEW l \in Logins, CreateSession(l) PROVE EndsForACause
    <3>1. [login |-> l, expires |-> clock + Term] # None
      BY SessionsAssumption DEF TypeInv, TableOK, Row
    <3> QED BY <2>1, <3>1 DEF CreateSession, TypeInv, TableOK
  <2> QED BY <1>1, <1>5, <2>1 DEF ServeCallback, table
<1>6. ASSUME NEW t \in Tabs, NEW k \in Kinds \ {"callback"},
             Takes(t, k), GetSession(req[t][k].cookie)
      PROVE  EndsForACause
  BY <1>2, <1>6, <1>c
<1>9. ASSUME NEW t \in Tabs, Server(t) PROVE EndsForACause
  BY <1>3, <1>4, <1>5, <1>6, <1>9 DEF Server, ServeMe, ServeReport, ServeErase, Kinds, ScanKinds
<1>7. ASSUME NEW t \in Tabs, Tab(t) PROVE UNCHANGED sessions
  BY <1>7 DEF Tab, Open, Close, Login, Return, Scan, SignOut, DeleteAccount, MeArrives,
       ReportArrives, SignOutArrives, ErasureArrives, CallbackArrives, Lose, table
<1>8. CASE Cron
  BY <1>1, <1>8 DEF Cron, SweepExpiredSessions, DeleteRows, Live, Tick
<1> QED BY <1>1, <1>7, <1>8, <1>9 DEF Next, Forget, vars, table

\* Neither the sweep of the daily cron nor a request that meets the boundary of
\* the term ends anybody's session early.
THEOREM SessionsLastTheirTerm == Spec => SessionsEndForACause
<1>1. TypeInv /\ [Next]_vars => [EndsForACause]_vars
  BY EndStep
<1>2. Spec => [][EndsForACause]_vars
  BY <1>1, TypeInvariant, PTL DEF Spec
<1> QED BY <1>2 DEF SessionsEndForACause, EndsForACause

-----------------------------------------------------------------------------
(* 3. What a tab may have under way, and which ids are in use *)

\* The requests that a tab may have under way.
Allowed(p) ==
  IF p \in {"closed", "github"} THEN {}
  ELSE IF p = "callback" THEN {"callback"}
  ELSE IF p = "checking" THEN {"me"}
  ELSE ScanKinds \cup {"out", "erase"}

Ordered == \A t \in Tabs, k \in Kinds : req[t][k] # NoReq => k \in Allowed(page[t])

\* Ids that were handed out; a later sign-in gets another one.
Known(c, n) == c = None \/ c \in 1..n

KnownIds ==
  /\ Known(jar.id, issued)
  /\ \A t \in Tabs, k \in Kinds \ {"callback"} :
       req[t][k].pc = "sent" => Known(req[t][k].cookie, issued)
  /\ \A t \in Tabs :
       req[t]["callback"].pc = "served" => Known(req[t]["callback"].ans, issued)

\* Every other request stays what it was.
LEMMA OneChanges ==
  ASSUME RequestsOK, NEW t \in Tabs, NEW k \in Kinds, NEW r,
         req' = [req EXCEPT ![t][k] = r]
  PROVE  \A u \in Tabs, j \in Kinds : req'[u][j] = IF u = t /\ j = k THEN r ELSE req[u][j]
BY DEF RequestsOK

LEMMA AllChange ==
  ASSUME RequestsOK, NEW t \in Tabs, req' = Idle(t)
  PROVE  \A u \in Tabs, j \in Kinds : req'[u][j] = IF u = t THEN NoReq ELSE req[u][j]
BY DEF RequestsOK, Idle

\* A request is under way from when it is sent until its answer is there.
LEMMA UnderWay ==
  ASSUME NEW t, NEW k, Takes(t, k) \/ Arrives(t, k) \/ req[t][k].pc = "erasing"
  PROVE  req[t][k] # NoReq
BY DEF Takes, Arrives, NoReq

\* A step of the server on a request of a tab.
Becomes(t, k, r) ==
  r.pc \in {"erasing", "served"} /\ req' = [req EXCEPT ![t][k] = r]
Handled(t, k) == req[t][k] # NoReq /\ \E r : Becomes(t, k, r)

LEMMA ServedHandles ==
  ASSUME NEW t, NEW k, NEW ans, Served(t, k, ans), req[t][k] # NoReq
  PROVE  Handled(t, k)
<1> DEFINE answer == [pc |-> "served", ans |-> ans]
<1>1. Becomes(t, k, answer) BY DEF Served, Becomes
<1> QED BY <1>1 DEF Handled

LEMMA ServerHandles ==
  ASSUME NEW t \in Tabs,
         \/ ServeMe(t) \/ \E k \in ScanKinds : ServeReport(t, k)
         \/ ServeLogout(t) \/ ServeErase(t) \/ EraseRows(t)
  PROVE  \E k \in Kinds \ {"callback"} : Handled(t, k)
<1>1. ASSUME NEW k, NEW ans, Served(t, k, ans), req[t][k] # NoReq PROVE Handled(t, k)
  BY <1>1, ServedHandles
<1>2. CASE ServeMe(t)
  BY <1>1, <1>2, UnderWay DEF ServeMe, Kinds
<1>3. ASSUME NEW k \in ScanKinds, ServeReport(t, k) PROVE Handled(t, k)
  <2> DEFINE answer ==
        [pc |-> "served", as |-> req[t][k].as, ans |-> SessionOf(req[t][k].cookie)]
  <2>1. Becomes(t, k, answer) BY <1>3 DEF ServeReport, Becomes
  <2>2. req[t][k] # NoReq BY <1>3, UnderWay DEF ServeReport
  <2> QED BY <2>1, <2>2 DEF Handled
<1>4. CASE ServeLogout(t)
  BY <1>1, <1>4, UnderWay DEF ServeLogout, Kinds
<1>5. CASE ServeErase(t)
  <2> DEFINE login == SessionOf(req[t]["erase"].cookie)
             erasing == [pc |-> "erasing", cookie |-> req[t]["erase"].cookie, login |-> login]
  <2>1. req[t]["erase"] # NoReq BY <1>5, UnderWay DEF ServeErase
  <2>2. Served(t, "erase", None) \/ Becomes(t, "erase", erasing)
    BY <1>5 DEF ServeErase, Becomes
  <2>3. Handled(t, "erase") BY <1>1, <2>1, <2>2 DEF Handled
  <2> QED BY <2>3 DEF Kinds
<1>6. CASE EraseRows(t)
  BY <1>1, <1>6, UnderWay DEF EraseRows, Kinds
<1> QED BY <1>2, <1>3, <1>4, <1>5, <1>6 DEF Kinds, ScanKinds

LEMMA OrderedStep == TypeInv /\ Ordered /\ [Next]_vars => Ordered'
<1> SUFFICES ASSUME TypeInv, Ordered, [Next]_vars PROVE Ordered'
  OBVIOUS
<1> USE DEF TypeInv, Ordered
<1>s. \A t \in Tabs : page[t] \in Logins => Allowed(page[t]) = ScanKinds \cup {"out", "erase"}
  BY ScreensAreNoLogins DEF Allowed, Screens
<1>1. ASSUME NEW t \in Tabs, Open(t) PROVE Ordered'
  BY <1>1, OneChanges DEF Open, Sends, Show, Allowed, PageOK, Kinds
<1>2. ASSUME NEW t \in Tabs, Close(t) PROVE Ordered'
  BY <1>2, AllChange DEF Close, Show, Allowed, PageOK
<1>3. ASSUME NEW t \in Tabs, Login(t) PROVE Ordered'
  BY <1>3, AllChange DEF Login, Show, Allowed, PageOK
<1>4. ASSUME NEW t \in Tabs, Return(t) PROVE Ordered'
  BY <1>4, OneChanges DEF Return, Show, Allowed, PageOK, Kinds
<1>5. ASSUME NEW t \in Tabs, NEW k \in ScanKinds, Scan(t, k) PROVE Ordered'
  BY <1>5, <1>s, OneChanges DEF Scan, PageOK, Kinds
<1>6. ASSUME NEW t \in Tabs, SignOut(t) PROVE Ordered'
  BY <1>6, <1>s, OneChanges DEF SignOut, Sends, PageOK, Kinds
<1>7. ASSUME NEW t \in Tabs, DeleteAccount(t) PROVE Ordered'
  BY <1>7, <1>s, OneChanges DEF DeleteAccount, Sends, PageOK, Kinds
<1>8. ASSUME NEW t \in Tabs, Server(t) PROVE Ordered'
  <2>1. ASSUME ServeCallback(t) PROVE Handled(t, "callback")
    BY <2>1, UnderWay, ServedHandles DEF ServeCallback
  <2>2. PICK k \in Kinds : Handled(t, k)
    BY <1>8, <2>1, ServerHandles DEF Server, Kinds
  <2>3. UNCHANGED page
    BY <1>8 DEF Server, ServeMe, ServeReport, ServeLogout, ServeErase, EraseRows, ServeCallback
  <2> QED BY <2>2, <2>3, OneChanges DEF Handled, Becomes
<1>9. ASSUME NEW t \in Tabs, MeArrives(t) PROVE Ordered'
  <2>1. req[t]["me"] # NoReq BY <1>9, UnderWay DEF MeArrives
  <2>2. Allowed(page[t]) = {"me"} BY <2>1 DEF Allowed, Kinds, ScanKinds
  <2>3. \A u \in Tabs, k \in Kinds :
          req'[u][k] = IF u = t /\ k = "me" THEN NoReq ELSE req[u][k]
    BY <1>9 DEF MeArrives, Over, Kinds, RequestsOK
  <2>4. \A u \in Tabs \ {t} : page'[u] = page[u]
    BY <1>9 DEF MeArrives, Show, PageOK
  <2>5. \A k \in Kinds : req'[t][k] = NoReq BY <2>2, <2>3
  <2> QED BY <2>3, <2>4, <2>5
<1>10. ASSUME NEW t \in Tabs, NEW k \in ScanKinds, ReportArrives(t, k) PROVE Ordered'
  BY <1>10, OneChanges DEF ReportArrives, Over, Kinds
<1>11. ASSUME NEW t \in Tabs, NEW k \in {"out", "erase"}, Arrives(t, k)
       PROVE  Allowed(page[t]) = Allowed("out")
  BY <1>11, UnderWay DEF Allowed, Kinds
<1>12. ASSUME NEW t \in Tabs, SignOutArrives(t) PROVE Ordered'
  BY <1>11, <1>12, OneChanges DEF SignOutArrives, Over, Show, PageOK, Kinds
<1>13. ASSUME NEW t \in Tabs, ErasureArrives(t) PROVE Ordered'
  BY <1>11, <1>13, OneChanges DEF ErasureArrives, Over, Show, PageOK, Kinds
<1>14. ASSUME NEW t \in Tabs, CallbackArrives(t) PROVE Ordered'
  <2>1. Allowed(page[t]) = {"callback"}
    BY <1>14, UnderWay DEF CallbackArrives, Allowed, Kinds, ScanKinds
  <2>2. PICK r : req' = [req EXCEPT ![t]["callback"] = NoReq, ![t]["me"] = r]
    BY <1>14 DEF CallbackArrives
  <2>3. \A u \in Tabs, k \in Kinds :
          req'[u][k] = IF u = t /\ k = "callback" THEN NoReq
                       ELSE IF u = t /\ k = "me" THEN r ELSE req[u][k]
    BY <2>2 DEF RequestsOK, Kinds
  <2>4. \A u \in Tabs : page'[u] = IF u = t THEN "checking" ELSE page[u]
    BY <1>14 DEF CallbackArrives, Show, PageOK
  <2>5. Allowed("checking") = {"me"} BY DEF Allowed
  <2>6. \A k \in Kinds : req'[t][k] # NoReq => k \in Allowed(page'[t])
    BY <2>1, <2>3, <2>4, <2>5
  <2> QED BY <2>3, <2>4, <2>6
<1>15. ASSUME NEW t \in Tabs, NEW k \in Kinds, Lose(t, k) PROVE Ordered'
  <2>1. k \in Allowed(page[t]) BY <1>15 DEF Lose
  <2>c. \A u \in Tabs, j \in Kinds :
          req'[u][j] = IF u = t /\ j = k THEN NoReq ELSE req[u][j]
    BY <1>15 DEF Lose, Over, RequestsOK
  <2>p. \A u \in Tabs \ {t} : page'[u] = page[u]
    BY <1>15 DEF Lose, PageOK
  <2>2. CASE k \in {"callback", "me"}
    <3>1. Allowed(page[t]) = {k} BY <2>1, <2>2 DEF Allowed, ScanKinds
    <3>2. \A j \in Kinds : req'[t][j] = NoReq BY <2>c, <3>1
    <3> QED BY <2>c, <2>p, <3>2
  <2>4. CASE k = "out" BY <1>15, <2>1, <2>4, OneChanges DEF Lose, Over, Allowed, PageOK
  <2>5. CASE k \in ScanKinds \cup {"erase"}
    BY <1>15, <2>5, OneChanges DEF Lose, Over, PageOK, ScanKinds
  <2> QED BY <2>2, <2>4, <2>5 DEF Kinds
<1>16. CASE UNCHANGED <<req, page>>
  BY <1>16
<1> QED BY <1>1, <1>2, <1>3, <1>4, <1>5, <1>6, <1>7, <1>8, <1>9, <1>10, <1>12,
           <1>13, <1>14, <1>15, <1>16
        DEF Next, Tab, Forget, vars

LEMMA KnownStep == TypeInv /\ KnownIds /\ [Next]_vars => KnownIds'
<1> SUFFICES ASSUME TypeInv, KnownIds, [Next]_vars PROVE KnownIds'
  OBVIOUS
<1> USE DEF TypeInv
<1>g. issued' \in Nat /\ issued <= issued' /\ (\A c : Known(c, issued) => Known(c, issued'))
  <2>1. UNCHANGED issued \/ \E l \in Logins : CreateSession(l)
    BY DEF Next, Tab, Server, Open, Close, Login, Return, Scan, SignOut, DeleteAccount,
       MeArrives, ReportArrives, SignOutArrives, ErasureArrives, CallbackArrives, Lose,
       ServeMe, ServeReport, ServeLogout, ServeErase, EraseRows, ServeCallback, Forget, Cron, Tick,
       SweepExpiredSessions, GetSession, DestroySession, EraseSessions, vars, table
  <2>2. issued \in Nat /\ issued \in 0..MaxSessions BY SessionsAssumption DEF TableOK
  <2>3. issued' = issued \/ issued' = issued + 1
    BY <2>1 DEF CreateSession, NextId
  <2> QED BY <2>2, <2>3 DEF Known
<1>n. NoReq.pc = "none"
  BY DEF NoReq
<1>1. ASSUME NEW t \in Tabs, Open(t) \/ SignOut(t) \/ DeleteAccount(t) PROVE KnownIds'
  <2>1. PICK k \in {"me", "out", "erase"} :
          req' = [req EXCEPT ![t][k] = [pc |-> "sent", cookie |-> Cookie]]
    BY <1>1 DEF Open, SignOut, DeleteAccount, Sends
  <2> QED BY <1>1, <1>g, <2>1, OneChanges
          DEF Open, SignOut, DeleteAccount, KnownIds, Cookie, cookies, Kinds
<1>2. ASSUME NEW t \in Tabs, Close(t) \/ Login(t) PROVE KnownIds'
  BY <1>2, <1>g, <1>n, AllChange DEF Close, Login, KnownIds, cookies, Kinds
<1>3. ASSUME NEW t \in Tabs, Return(t) PROVE KnownIds'
  BY <1>3, <1>g, OneChanges DEF Return, KnownIds, cookies, Kinds
<1>4. ASSUME NEW t \in Tabs, NEW k \in ScanKinds, Scan(t, k) PROVE KnownIds'
  BY <1>4, <1>g, OneChanges DEF Scan, KnownIds, Cookie, cookies, Kinds
<1>5. ASSUME NEW t \in Tabs,
             \/ ServeMe(t) \/ \E k \in ScanKinds : ServeReport(t, k)
             \/ ServeLogout(t) \/ ServeErase(t) \/ EraseRows(t)
      PROVE  KnownIds'
  <2>1. PICK k \in Kinds \ {"callback"} :
          \E r : r.pc \in {"erasing", "served"} /\ req' = [req EXCEPT ![t][k] = r]
    BY <1>5, ServerHandles DEF Handled, Becomes
  <2>2. PICK r : r.pc \in {"erasing", "served"} /\ req' = [req EXCEPT ![t][k] = r]
    BY <2>1
  <2>3. UNCHANGED jar
    BY <1>5 DEF ServeMe, ServeReport, ServeLogout, ServeErase, EraseRows, cookies
  <2> QED BY <1>g, <2>2, <2>3, OneChanges DEF KnownIds, Kinds
<1>6. ASSUME NEW t \in Tabs, ServeCallback(t) PROVE KnownIds'
  <2>1. CASE Served(t, "callback", None)
    BY <1>6, <1>g, <2>1, OneChanges DEF ServeCallback, Served, KnownIds, Known, cookies, Kinds
  <2>2. ASSUME NEW l \in Logins, CreateSession(l), Served(t, "callback", NextId)
        PROVE  KnownIds'
    <3>1. Known(NextId, issued')
      BY <2>2, SessionsAssumption DEF Known, CreateSession, NextId, TableOK
    <3> QED BY <1>6, <1>g, <2>2, <3>1, OneChanges
            DEF ServeCallback, Served, KnownIds, cookies, Kinds
  <2> QED BY <1>6, <2>1, <2>2 DEF ServeCallback
<1>7. ASSUME NEW t \in Tabs, NEW k \in Kinds, Over(t, k), jar' \in {jar, NoCookie}
      PROVE  KnownIds'
  <2>1. Known(jar'.id, issued') BY <1>7, <1>g DEF KnownIds, NoCookie, Known
  <2> QED BY <1>7, <1>g, <1>n, <2>1, OneChanges DEF Over, KnownIds, Kinds
<1>8. ASSUME NEW t \in Tabs, CallbackArrives(t) PROVE KnownIds'
  <2> DEFINE id == req[t]["callback"].ans
             landed == IF id = None THEN jar ELSE [id |-> id, until |-> clock + Term]
  <2>1. Known(id, issued) BY <1>8 DEF CallbackArrives, Arrives, KnownIds
  <2>2. Known(landed.id, issued') BY <1>g, <2>1 DEF KnownIds
  <2>3. jar' = landed BY <1>8 DEF CallbackArrives
  <2>4. req' = [req EXCEPT ![t]["callback"] = NoReq,
                           ![t]["me"] = [pc |-> "sent", cookie |-> landed.id]]
    BY <1>8 DEF CallbackArrives
  <2> HIDE DEF landed
  <2>5. \A u \in Tabs, k \in Kinds :
          req'[u][k] = IF u = t /\ k = "callback" THEN NoReq
                       ELSE IF u = t /\ k = "me" THEN [pc |-> "sent", cookie |-> landed.id]
                       ELSE req[u][k]
    BY <2>4 DEF RequestsOK, Kinds
  <2> QED BY <1>g, <1>n, <2>2, <2>3, <2>5 DEF KnownIds, Kinds
<1>9. CASE UNCHANGED req /\ jar' \in {jar, NoCookie}
  BY <1>9, <1>g DEF KnownIds, Known, NoCookie
<1> QED
  BY <1>1, <1>2, <1>3, <1>4, <1>5, <1>6, <1>7, <1>8, <1>9
  DEF Next, Tab, Server, MeArrives, ReportArrives, SignOutArrives, ErasureArrives, Lose,
      Forget, vars, cookies, Kinds

-----------------------------------------------------------------------------
(* 4. Whose report is stored under a login *)

\* The login of the row that a cookie names, expired or not.
Speaks(rows, c) == IF c = None \/ rows[c] = None THEN None ELSE rows[c].login

\* As long as no account signed in under another tab's page: a page is mounted
\* for whom the session cookie speaks, if it speaks for anybody; an answer
\* about the user that is under way names nobody else; and a scan is made with
\* a cookie of the login its report is stored under.
User == Speaks(sessions, jar.id)

PageSpeaks(t) == page[t] \in Logins => User \in {None, page[t]}

MeSpeaks(t) ==
  LET r == req[t]["me"] IN
  /\ r.pc = "sent" => \/ None \in {User, Speaks(sessions, r.cookie)}
                       \/ User = Speaks(sessions, r.cookie)
  /\ r.pc = "served" => None \in {User, r.ans} \/ User = r.ans

ScanSpeaks(t) ==
  \A k \in ScanKinds :
    LET r == req[t][k] IN
    /\ r.pc = "sent" => Speaks(sessions, r.cookie) \in {None, r.as}
    /\ r.pc = "served" => r.ans \in {None, r.as}

CacheSpeaks == \A l \in Logins : cache[l] \in {l, None}

OneAccount ==
  \/ switched
  \/ /\ \A t \in Tabs : PageSpeaks(t) /\ MeSpeaks(t) /\ ScanSpeaks(t)
     /\ CacheSpeaks

\* A row that a known id names does not change hands.
LEMMA SessionsFade ==
  ASSUME TypeInv, [Next]_vars, NEW c \in MaybeId, Known(c, issued)
  PROVE  Speaks(sessions', c) \in {None, Speaks(sessions, c)}
<1> DEFINE P == Speaks(sessions', c) \in {None, Speaks(sessions, c)}
<1>1. ASSUME UNCHANGED sessions PROVE P
  BY <1>1
<1>2. ASSUME NEW gone, DeleteRows(gone) PROVE P
  BY <1>2 DEF DeleteRows, Speaks, MaybeId
<1>3. ASSUME NEW d, GetSession(d) PROVE P
  <2>1. sessions' = sessions \/ sessions' = [sessions EXCEPT ![d] = None]
    BY <1>3 DEF GetSession
  <2> QED BY <2>1 DEF Speaks, MaybeId, TypeInv, TableOK
<1>4. ASSUME NEW l \in Logins, CreateSession(l) PROVE P
  <2>1. c # NextId
    BY <1>4, SessionsAssumption DEF Known, NextId, TypeInv, TableOK, Ids, CreateSession
  <2> QED BY <1>4, <2>1 DEF CreateSession, Speaks, MaybeId, TypeInv, TableOK
<1>5. ASSUME NEW t \in Tabs, Tab(t) PROVE UNCHANGED sessions
  BY <1>5 DEF Tab, Open, Close, Login, Return, Scan, SignOut, DeleteAccount, MeArrives,
       ReportArrives, SignOutArrives, ErasureArrives, CallbackArrives, Lose, table
<1>6. ASSUME NEW t \in Tabs, Server(t) PROVE P
  <2> HIDE DEF P
  <2>1. CASE ServeMe(t) BY <1>3, <2>1 DEF ServeMe
  <2>2. ASSUME NEW k, ServeReport(t, k) PROVE P BY <1>3, <2>2 DEF ServeReport
  <2>3. CASE ServeLogout(t) BY <1>2, <2>3 DEF ServeLogout, DestroySession
  <2>4. CASE ServeErase(t) BY <1>3, <2>4 DEF ServeErase
  <2>6. CASE EraseRows(t)
    <3>1. DeleteRows({i \in Live : sessions[i].login = req[t]["erase"].login})
      BY <2>6 DEF EraseRows, EraseSessions
    <3> QED BY <3>1, <1>2
  <2>5. CASE ServeCallback(t) BY <1>1, <1>4, <2>5 DEF ServeCallback, table
  <2> QED BY <1>6, <2>1, <2>2, <2>3, <2>4, <2>5, <2>6 DEF Server
<1>7. CASE Cron
  BY <1>1, <1>2, <1>7 DEF Cron, SweepExpiredSessions, Tick
<1> QED BY <1>1, <1>5, <1>6, <1>7 DEF Next, Forget, vars, table

LEMMA SessionSpeaks ==
  ASSUME NEW c
  PROVE  SessionOf(c) \in {None, Speaks(sessions, c)}
BY DEF SessionOf, Speaks

LEMMA OneAccountStep ==
  TypeInv /\ Ordered /\ KnownIds /\ OneAccount /\ [Next]_vars => OneAccount'
<1> SUFFICES ASSUME TypeInv, Ordered, KnownIds, OneAccount, [Next]_vars, ~switched'
             PROVE  OneAccount'
  BY DEF OneAccount
<1>s. ~switched
  BY DEF Next, Tab, Server, Open, Close, Login, Return, Scan, SignOut, DeleteAccount,
       MeArrives, ReportArrives, SignOutArrives, ErasureArrives, CallbackArrives, Lose,
       ServeMe, ServeReport, ServeLogout, ServeErase, EraseRows, ServeCallback, Forget, vars,
       history
<1>i. CacheSpeaks /\ \A t \in Tabs : PageSpeaks(t) /\ MeSpeaks(t) /\ ScanSpeaks(t)
  BY <1>s DEF OneAccount
<1> DEFINE AllSpeak == \A t \in Tabs : PageSpeaks(t) /\ MeSpeaks(t) /\ ScanSpeaks(t)
<1> SUFFICES CacheSpeaks' /\ AllSpeak'
  BY DEF OneAccount
<1> USE DEF TypeInv
<1>n. NoReq.pc = "none" BY DEF NoReq
<1>f. \A c \in MaybeId : Known(c, issued) =>
        Speaks(sessions', c) \in {None, Speaks(sessions, c)}
  BY SessionsFade
\* What a step keeps that leaves a part of a tab alone or takes it away.
<1>u. jar' \in {jar, NoCookie} => User' \in {None, User}
  BY <1>f DEF User, PageOK, KnownIds, NoCookie, Speaks
<1>p. ASSUME NEW t \in Tabs, jar' \in {jar, NoCookie}, page'[t] = page[t]
      PROVE  PageSpeaks(t)'
  BY <1>i, <1>p, <1>u DEF PageSpeaks
<1>m. ASSUME NEW t \in Tabs, jar' \in {jar, NoCookie},
             req'[t]["me"] \in {req[t]["me"], NoReq}
      PROVE  MeSpeaks(t)'
  <2>1. req[t]["me"].pc = "sent" =>
          /\ req[t]["me"].cookie \in MaybeId
          /\ Known(req[t]["me"].cookie, issued)
    BY DEF RequestsOK, RequestOK, SentOK, KnownIds, Kinds
  <2> QED BY <1>i, <1>m, <1>u, <1>f, <1>n, <2>1 DEF MeSpeaks
<1>c. ASSUME NEW t \in Tabs, \A k \in ScanKinds : req'[t][k] \in {req[t][k], NoReq}
      PROVE  ScanSpeaks(t)'
  <2> SUFFICES ASSUME NEW k \in ScanKinds
               PROVE  /\ req'[t][k].pc = "sent" =>
                           Speaks(sessions', req'[t][k].cookie) \in {None, req'[t][k].as}
                      /\ req'[t][k].pc = "served" => req'[t][k].ans \in {None, req'[t][k].as}
    BY DEF ScanSpeaks
  <2>1. req[t][k].pc = "sent" =>
          /\ req[t][k].cookie \in MaybeId
          /\ Known(req[t][k].cookie, issued)
    BY DEF RequestsOK, RequestOK, SentOK, KnownIds, Kinds, ScanKinds
  <2>2. /\ req[t][k].pc = "sent" =>
             Speaks(sessions, req[t][k].cookie) \in {None, req[t][k].as}
        /\ req[t][k].pc = "served" => req[t][k].ans \in {None, req[t][k].as}
    BY <1>i DEF ScanSpeaks
  <2>3. CASE req'[t][k] = NoReq BY <1>n, <2>3
  <2>4. CASE req'[t][k] = req[t][k] BY <1>f, <2>1, <2>2, <2>4
  <2> QED BY <1>c, <2>3, <2>4
<1>k. UNCHANGED cache => CacheSpeaks'
  BY <1>i DEF CacheSpeaks
<1> HIDE DEF AllSpeak
<1>1. ASSUME NEW t \in Tabs, Open(t) PROVE CacheSpeaks' /\ AllSpeak'
  <2>1. \A u \in Tabs, j \in Kinds :
          req'[u][j] = IF u = t /\ j = "me" THEN [pc |-> "sent", cookie |-> Cookie]
                       ELSE req[u][j]
    BY <1>1 DEF Open, Sends, RequestsOK, Kinds
  <2>2. \A u \in Tabs : page'[u] = IF u = t THEN "checking" ELSE page[u]
    BY <1>1 DEF Open, Show, PageOK
  <2>3. UNCHANGED <<jar, sessions, cache>> BY <1>1 DEF Open, cookies, table
  <2>4. PageSpeaks(t)' BY <2>2, ScreensAreNoLogins DEF PageSpeaks, Screens
  <2>5. MeSpeaks(t)' BY <2>1, <2>3 DEF MeSpeaks, User, Cookie, Kinds
  <2> QED BY <1>p, <1>m, <1>c, <1>k, <2>1, <2>2, <2>3, <2>4, <2>5 DEF AllSpeak, Kinds, ScanKinds
<1>2. ASSUME NEW t \in Tabs, Close(t) \/ Login(t) PROVE CacheSpeaks' /\ AllSpeak'
  <2>1. \A u \in Tabs, j \in Kinds : req'[u][j] = IF u = t THEN NoReq ELSE req[u][j]
    BY <1>2, AllChange DEF Close, Login
  <2>2. page'[t] \in Screens /\ \A u \in Tabs \ {t} : page'[u] = page[u]
    BY <1>2 DEF Close, Login, Show, PageOK, Screens
  <2>3. UNCHANGED <<jar, cache>> BY <1>2 DEF Close, Login, cookies
  <2>4. PageSpeaks(t)' BY <2>2, ScreensAreNoLogins DEF PageSpeaks
  <2> QED BY <1>p, <1>m, <1>c, <1>k, <2>1, <2>2, <2>3, <2>4 DEF AllSpeak, Kinds
<1>3. ASSUME NEW t \in Tabs, Return(t) PROVE CacheSpeaks' /\ AllSpeak'
  <2>1. \A u \in Tabs, j \in Kinds \ {"callback"} : req'[u][j] = req[u][j]
    BY <1>3 DEF Return, RequestsOK, Kinds
  <2>2. page'[t] \in Screens /\ \A u \in Tabs \ {t} : page'[u] = page[u]
    BY <1>3 DEF Return, Show, PageOK, Screens
  <2>3. UNCHANGED <<jar, cache>> BY <1>3 DEF Return, cookies
  <2>4. PageSpeaks(t)' BY <2>2, ScreensAreNoLogins DEF PageSpeaks
  <2> QED BY <1>p, <1>m, <1>c, <1>k, <2>1, <2>2, <2>3, <2>4 DEF AllSpeak, Kinds, ScanKinds
<1>4. ASSUME NEW t \in Tabs, NEW k \in ScanKinds, Scan(t, k) PROVE CacheSpeaks' /\ AllSpeak'
  <2>1. \A u \in Tabs, j \in Kinds :
          req'[u][j] = IF u = t /\ j = k
                       THEN [pc |-> "sent", cookie |-> Cookie, as |-> page[t]]
                       ELSE req[u][j]
    BY <1>4 DEF Scan, RequestsOK, Kinds
  <2>2. UNCHANGED <<jar, sessions, cache, page>> BY <1>4 DEF Scan, cookies, table
  <2>3. User \in {None, page[t]} BY <1>4, <1>i DEF Scan, PageSpeaks
  <2>4. ScanSpeaks(t)' BY <1>i, <2>1, <2>2, <2>3 DEF ScanSpeaks, User, Cookie, Kinds
  <2> QED BY <1>p, <1>m, <1>c, <1>k, <2>1, <2>2, <2>4 DEF AllSpeak, Kinds, ScanKinds
<1>5. ASSUME NEW t \in Tabs, SignOut(t) \/ DeleteAccount(t)
      PROVE  CacheSpeaks' /\ AllSpeak'
  <2>1. \A u \in Tabs, j \in ScanKinds \cup {"me"} : req'[u][j] = req[u][j]
    BY <1>5 DEF SignOut, DeleteAccount, Sends, RequestsOK, Kinds, ScanKinds
  <2>2. UNCHANGED <<jar, page>> BY <1>5 DEF SignOut, DeleteAccount, cookies
  <2>3. CacheSpeaks' BY <1>5, <1>k DEF SignOut, DeleteAccount, CacheSpeaks
  <2> QED BY <1>p, <1>m, <1>c, <2>1, <2>2, <2>3 DEF AllSpeak
<1>6. ASSUME NEW t \in Tabs, ServeMe(t) PROVE CacheSpeaks' /\ AllSpeak'
  <2> DEFINE c == req[t]["me"].cookie
             a == SessionOf(c)
  <2>1. \A u \in Tabs, j \in Kinds :
          req'[u][j] = IF u = t /\ j = "me" THEN [pc |-> "served", ans |-> a] ELSE req[u][j]
    BY <1>6 DEF ServeMe, Served, RequestsOK, Kinds
  <2>2. UNCHANGED <<jar, page, cache>> BY <1>6 DEF ServeMe, cookies
  <2>3. None \in {User, a} \/ User = a
    BY <1>6, <1>i, SessionSpeaks DEF ServeMe, Takes, MeSpeaks
  <2> HIDE DEF a
  <2>4. MeSpeaks(t)' BY <1>u, <2>1, <2>2, <2>3 DEF MeSpeaks, Kinds
  <2> QED BY <1>p, <1>m, <1>c, <1>k, <2>1, <2>2, <2>4 DEF AllSpeak, Kinds, ScanKinds
<1>7. ASSUME NEW t \in Tabs, NEW k \in ScanKinds, ServeReport(t, k)
      PROVE  CacheSpeaks' /\ AllSpeak'
  <2> DEFINE r == req[t][k]
             a == SessionOf(r.cookie)
  <2>1. \A u \in Tabs, j \in Kinds :
          req'[u][j] = IF u = t /\ j = k
                       THEN [pc |-> "served", as |-> r.as, ans |-> a] ELSE req[u][j]
    BY <1>7 DEF ServeReport, RequestsOK, Kinds
  <2>2. UNCHANGED <<jar, page, cache>> BY <1>7 DEF ServeReport, cookies
  <2>3. a \in {None, r.as}
    BY <1>7, <1>i, SessionSpeaks DEF ServeReport, Takes, ScanSpeaks
  <2>5. ASSUME NEW j \in ScanKinds \ {k}
        PROVE  /\ req'[t][j] = req[t][j]
               /\ req[t][j].pc = "sent" =>
                    /\ req[t][j].cookie \in MaybeId
                    /\ Known(req[t][j].cookie, issued)
    BY <2>1 DEF RequestsOK, RequestOK, SentOK, KnownIds, Kinds, ScanKinds
  <2> HIDE DEF a
  <2>4. ScanSpeaks(t)' BY <1>f, <1>i, <2>1, <2>3, <2>5 DEF ScanSpeaks, Kinds
  <2> QED BY <1>p, <1>m, <1>c, <1>k, <2>1, <2>2, <2>4 DEF AllSpeak, Kinds, ScanKinds
<1>8. ASSUME NEW t \in Tabs, ServeLogout(t) \/ ServeErase(t) \/ EraseRows(t) \/ ServeCallback(t)
      PROVE  CacheSpeaks' /\ AllSpeak'
  <2>1. \A u \in Tabs, j \in ScanKinds \cup {"me"} : req'[u][j] = req[u][j]
    BY <1>8
       DEF ServeLogout, ServeErase, EraseRows, ServeCallback, Served, RequestsOK, Kinds, ScanKinds
  <2>2. UNCHANGED <<jar, page, cache>>
    BY <1>8 DEF ServeLogout, ServeErase, EraseRows, ServeCallback, cookies
  <2> QED BY <1>p, <1>m, <1>c, <1>k, <2>1, <2>2 DEF AllSpeak
<1>9. ASSUME NEW t \in Tabs, MeArrives(t) PROVE CacheSpeaks' /\ AllSpeak'
  <2> DEFINE who == req[t]["me"].ans
  <2>1. \A u \in Tabs, j \in Kinds :
          req'[u][j] = IF u = t /\ j = "me" THEN NoReq ELSE req[u][j]
    BY <1>9 DEF MeArrives, Over, RequestsOK, Kinds
  <2>2. \A u \in Tabs :
          page'[u] = IF u = t THEN IF who = None THEN "out" ELSE who ELSE page[u]
    BY <1>9 DEF MeArrives, Show, PageOK
  <2>3. UNCHANGED <<jar, cache>> BY <1>9 DEF MeArrives, cookies
  <2>4. None \in {User, who} \/ User = who
    BY <1>9, <1>i DEF MeArrives, Arrives, MeSpeaks
  <2>5. PageSpeaks(t)'
    <3>1. CASE who = None BY <2>2, <3>1, ScreensAreNoLogins DEF PageSpeaks, Screens
    <3>2. CASE who # None BY <1>u, <2>2, <2>3, <2>4, <3>2 DEF PageSpeaks
    <3> QED BY <3>1, <3>2
  <2> QED BY <1>p, <1>m, <1>c, <1>k, <2>1, <2>2, <2>3, <2>5 DEF AllSpeak, Kinds
<1>10. ASSUME NEW t \in Tabs, NEW k \in ScanKinds, ReportArrives(t, k)
       PROVE  CacheSpeaks' /\ AllSpeak'
  <2>1. \A u \in Tabs, j \in ScanKinds \cup {"me"} : req'[u][j] \in {req[u][j], NoReq}
    BY <1>10 DEF ReportArrives, Over, RequestsOK, Kinds, ScanKinds
  <2>2. UNCHANGED <<jar, page>> BY <1>10 DEF ReportArrives, cookies
  <2>3. CacheSpeaks'
    BY <1>10, <1>i DEF ReportArrives, Arrives, ScanSpeaks, CacheSpeaks, PageOK
  <2> QED BY <1>p, <1>m, <1>c, <2>1, <2>2, <2>3 DEF AllSpeak
<1>11. ASSUME NEW t \in Tabs, SignOutArrives(t) \/ ErasureArrives(t)
       PROVE  CacheSpeaks' /\ AllSpeak'
  <2>1. \A u \in Tabs, j \in ScanKinds \cup {"me"} : req'[u][j] = req[u][j]
    BY <1>11 DEF SignOutArrives, ErasureArrives, Over, RequestsOK, Kinds, ScanKinds
  <2>2. jar' \in {jar, NoCookie} BY <1>11 DEF SignOutArrives, ErasureArrives
  <2>3. page'[t] \in {page[t], "out"} /\ \A u \in Tabs \ {t} : page'[u] = page[u]
    BY <1>11 DEF SignOutArrives, ErasureArrives, Show, PageOK
  <2>4. CacheSpeaks' BY <1>11, <1>k DEF SignOutArrives, ErasureArrives, CacheSpeaks
  <2>5. PageSpeaks(t)' BY <1>p, <2>2, <2>3, ScreensAreNoLogins DEF PageSpeaks, Screens
  <2> QED BY <1>p, <1>m, <1>c, <2>1, <2>2, <2>3, <2>4, <2>5 DEF AllSpeak
\* The one step that changes whom the cookie speaks for: the callback lands.
<1>12. ASSUME NEW t \in Tabs, CallbackArrives(t) PROVE CacheSpeaks' /\ AllSpeak'
  <2> DEFINE id == req[t]["callback"].ans
             landed == IF id = None THEN jar ELSE [id |-> id, until |-> clock + Term]
  <2>1. \A u \in Tabs, j \in ScanKinds \cup {"me"} :
          req'[u][j] = IF u = t /\ j = "me" THEN [pc |-> "sent", cookie |-> landed.id]
                       ELSE req[u][j]
    BY <1>12 DEF CallbackArrives, RequestsOK, Kinds, ScanKinds
  <2>2. jar' = landed /\ UNCHANGED <<sessions, cache>>
    BY <1>12 DEF CallbackArrives, table
  <2>3. \A u \in Tabs : page'[u] = IF u = t THEN "checking" ELSE page[u]
    BY <1>12 DEF CallbackArrives, Show, PageOK
  <2>4. CacheSpeaks' BY <1>k, <2>2
  <2>5. PageSpeaks(t)' BY <2>3, ScreensAreNoLogins DEF PageSpeaks, Screens
  <2>6. MeSpeaks(t)' BY <2>1, <2>2 DEF MeSpeaks, User
  <2>7. \A u \in Tabs : ScanSpeaks(u)' BY <1>c, <2>1 DEF ScanKinds
  <2>8. CASE id = None
    BY <1>p, <1>m, <2>1, <2>2, <2>3, <2>4, <2>5, <2>6, <2>7, <2>8 DEF AllSpeak
  <2>9. CASE id # None /\ sessions[id] = None
    <3>1. User' = None BY <2>2, <2>9 DEF User, Speaks
    <3>2. \A u \in Tabs \ {t} : MeSpeaks(u)' BY <1>n, <2>1, <3>1 DEF MeSpeaks
    <3>3. \A u \in Tabs : PageSpeaks(u)' BY <3>1 DEF PageSpeaks
    <3> QED BY <2>4, <2>6, <2>7, <3>2, <3>3 DEF AllSpeak
  <2>10. CASE id # None /\ sessions[id] # None
    <3> DEFINE l == sessions[id].login
    <3>1. id \in Ids
      BY <1>12, <2>10 DEF CallbackArrives, Arrives, RequestsOK, RequestOK, ServedOK, MaybeId, Kinds, ScanKinds
    <3>2. l \in Logins /\ l # None
      BY <2>10, <3>1, SessionsAssumption DEF TableOK, Row
    <3>3. \A u \in Tabs : page[u] \notin (Logins \ {l}) \cup {"checking"}
      BY <1>12, <2>10, <3>2 DEF CallbackArrives
    <3>4. User' = l BY <2>2, <2>10 DEF User, Speaks
    <3>5. \A u \in Tabs : PageSpeaks(u)'
      BY <2>3, <2>5, <3>3, <3>4 DEF PageSpeaks
    <3>6. \A u \in Tabs \ {t} : req[u]["me"] = NoReq
      BY <3>3 DEF Ordered, Allowed, Kinds, ScanKinds
    <3>7. \A u \in Tabs \ {t} : MeSpeaks(u)'
      BY <1>n, <2>1, <3>6 DEF MeSpeaks
    <3> QED BY <2>4, <2>6, <2>7, <3>5, <3>7 DEF AllSpeak
  <2> QED BY <2>8, <2>9, <2>10
<1>13. ASSUME NEW t \in Tabs, NEW k \in Kinds, Lose(t, k) PROVE CacheSpeaks' /\ AllSpeak'
  <2>1. \A u \in Tabs, j \in ScanKinds \cup {"me"} : req'[u][j] \in {req[u][j], NoReq}
    BY <1>13 DEF Lose, Over, RequestsOK, Kinds, ScanKinds
  <2>2. UNCHANGED <<jar, cache>> BY <1>13 DEF Lose, cookies
  <2>3. page'[t] \in {page[t], "out", "closed"} /\ \A u \in Tabs \ {t} : page'[u] = page[u]
    BY <1>13 DEF Lose, PageOK, Kinds
  <2>4. PageSpeaks(t)' BY <1>p, <2>2, <2>3, ScreensAreNoLogins DEF PageSpeaks, Screens
  <2> QED BY <1>p, <1>m, <1>c, <1>k, <2>1, <2>2, <2>3, <2>4 DEF AllSpeak
<1>14. CASE jar' \in {jar, NoCookie} /\ UNCHANGED <<req, page, cache>>
  BY <1>p, <1>m, <1>c, <1>k, <1>14 DEF AllSpeak
<1> QED BY <1>1, <1>2, <1>3, <1>4, <1>5, <1>6, <1>7, <1>8, <1>9, <1>10, <1>11, <1>12, <1>13,
           <1>14
        DEF Next, Tab, Server, Forget, vars, cookies

\* What the cache is proved from.
CacheInv == Ordered /\ KnownIds /\ OneAccount

LEMMA CacheInvariant == Spec => []CacheInv
<1>1. Init => CacheInv
  <2>1. NoReq.pc = "none" BY DEF NoReq
  <2> QED
    BY <2>1, ScreensAreNoLogins
    DEF Init, SessionsInit, CacheInv, Ordered, KnownIds, Known, OneAccount, PageSpeaks,
        MeSpeaks, ScanSpeaks, CacheSpeaks, User, Speaks, Screens, Kinds
<1>2. TypeInv /\ CacheInv /\ [Next]_vars => CacheInv'
  BY OrderedStep, KnownStep, OneAccountStep DEF CacheInv
<1> QED BY <1>1, <1>2, TypeInvariant, PTL DEF Spec

\* A report is stored under another account's login only after an account signed
\* in under another tab's page.
THEOREM ReportsStayWithTheirAccount == Spec => []ReportsAreCachedUnderTheirAccount
<1>1. CacheInv => ReportsAreCachedUnderTheirAccount
  BY DEF CacheInv, OneAccount, CacheSpeaks, ReportsAreCachedUnderTheirAccount
<1> QED BY <1>1, CacheInvariant, PTL

\* After a sign-out without a scan under way nothing is cached, and nothing that
\* is under way can store a report.
QuietInv ==
  quiet => /\ \A l \in Logins : cache[l] = None
           /\ NoScanUnderWay

LEMMA ScanIsLeftAlone ==
  ASSUME TypeInv, NEW t \in Tabs, NEW k \in Kinds \ ScanKinds, NEW r,
         req' = [req EXCEPT ![t][k] = r], NoScanUnderWay
  PROVE  NoScanUnderWay'
BY DEF TypeInv, RequestsOK, Kinds, NoScanUnderWay

LEMMA QuietStep == TypeInv /\ QuietInv /\ [Next]_vars => QuietInv'
<1> SUFFICES ASSUME TypeInv, QuietInv, [Next]_vars, quiet' PROVE QuietInv'
  BY DEF QuietInv
<1> USE DEF TypeInv, QuietInv
<1>1. ASSUME NEW t \in Tabs, Open(t) \/ Close(t) \/ Login(t) \/ Return(t) \/ DeleteAccount(t)
      PROVE  QuietInv'
  <2>1. \A u \in Tabs, k \in ScanKinds : req'[u][k] \in {req[u][k], NoReq}
    BY <1>1, AllChange
       DEF Open, Close, Login, Return, DeleteAccount, Sends, RequestsOK, Kinds, ScanKinds
  <2> QED BY <1>1, <2>1 DEF NoScanUnderWay, Open, Close, Login, Return, DeleteAccount, history
<1>2. ASSUME NEW t \in Tabs, NEW k \in ScanKinds, Scan(t, k) PROVE QuietInv'
  BY <1>2 DEF Scan
<1>3. ASSUME NEW t \in Tabs, SignOut(t) PROVE QuietInv'
  <2>1. \A u \in Tabs, k \in ScanKinds : req'[u][k] = req[u][k]
    BY <1>3 DEF SignOut, Sends, RequestsOK, Kinds, ScanKinds
  <2> QED BY <1>3, <2>1 DEF SignOut, NoScanUnderWay
<1>4. ASSUME NEW t \in Tabs,
             \/ ServeMe(t) \/ ServeLogout(t) \/ ServeErase(t) \/ EraseRows(t)
             \/ ServeCallback(t)
      PROVE  QuietInv'
  <2>1. CASE ServeMe(t)
    BY <2>1, ScanIsLeftAlone DEF ServeMe, Served, history, Kinds, ScanKinds
  <2>2. CASE ServeLogout(t)
    BY <2>2, ScanIsLeftAlone DEF ServeLogout, Served, history, Kinds, ScanKinds
  <2>3. CASE ServeErase(t) \/ EraseRows(t)
    <3>1. PICK r : req' = [req EXCEPT ![t]["erase"] = r]
      BY <2>3 DEF ServeErase, EraseRows, Served
    <3> QED BY <2>3, <3>1, ScanIsLeftAlone DEF ServeErase, EraseRows, history, Kinds, ScanKinds
  <2>4. CASE ServeCallback(t)
    BY <2>4, ScanIsLeftAlone DEF ServeCallback, Served, Kinds, ScanKinds
  <2> QED BY <1>4, <2>1, <2>2, <2>3, <2>4
<1>5. ASSUME NEW t \in Tabs, NEW k \in ScanKinds, ServeReport(t, k) \/ ReportArrives(t, k)
      PROVE  QuietInv'
  <2>1. req[t][k] # NoReq /\ UNCHANGED quiet
    BY <1>5, UnderWay DEF ServeReport, ReportArrives, history
  <2> QED BY <2>1 DEF NoScanUnderWay
<1>6. ASSUME NEW t \in Tabs,
             MeArrives(t) \/ SignOutArrives(t) \/ ErasureArrives(t) \/ CallbackArrives(t)
      PROVE  QuietInv'
  <2>1. CASE MeArrives(t)
    BY <2>1, ScanIsLeftAlone DEF MeArrives, Over, history, Kinds, ScanKinds
  <2>2. CASE SignOutArrives(t)
    BY <2>2, ScanIsLeftAlone DEF SignOutArrives, Over, history, Kinds, ScanKinds
  <2>3. CASE ErasureArrives(t)
    BY <2>3, ScanIsLeftAlone DEF ErasureArrives, Over, history, Kinds, ScanKinds
  <2>4. CASE CallbackArrives(t)
    <3>1. \A u \in Tabs, k \in ScanKinds : req'[u][k] = req[u][k]
      BY <2>4 DEF CallbackArrives, RequestsOK, Kinds, ScanKinds
    <3> QED BY <2>4, <3>1 DEF CallbackArrives, NoScanUnderWay
  <2> QED BY <1>6, <2>1, <2>2, <2>3, <2>4
<1>7. ASSUME NEW t \in Tabs, NEW k \in Kinds, Lose(t, k) PROVE QuietInv'
  <2>1. \A u \in Tabs, j \in ScanKinds : req'[u][j] \in {req[u][j], NoReq}
    BY <1>7 DEF Lose, Over, RequestsOK, Kinds
  <2> QED BY <1>7, <2>1 DEF Lose, history, NoScanUnderWay
<1>8. CASE UNCHANGED <<req, cache, quiet>>
  BY <1>8 DEF NoScanUnderWay
<1> QED BY <1>1, <1>2, <1>3, <1>4, <1>5, <1>6, <1>7, <1>8
        DEF Next, Tab, Server, Forget, vars, history

\* "All of them on sign-out" (reportCache.ts:51): whoever left a report there,
\* until the next scan there is none, unless one was running.
THEOREM SignOutLeavesNoReport == Spec => []SignOutClearsEveryReport
<1>1. Init => QuietInv
  BY DEF Init, QuietInv
<1>2. QuietInv => SignOutClearsEveryReport
  BY DEF QuietInv, SignOutClearsEveryReport
<1> QED BY <1>1, <1>2, QuietStep, TypeInvariant, PTL DEF Spec
=============================================================================
