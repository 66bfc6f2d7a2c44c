---------------------------- MODULE AlertsProofs ----------------------------
(***************************************************************************)
(* Proofs about Alerts, for every set of logins, addresses, tokens, links, *)
(* repositories, suspects and request slots, and any number of runs.       *)
(*                                                                         *)
(*   1. what the statements of AlertStore do to the tables                 *)
(*   2. what a step of a handler does to its locals                        *)
(*   3. type correctness                                                   *)
(*   4. dormant and confirmed rows                                         *)
(*   5. no duplicate alert                                                 *)
(*   6. quiescent erasure is complete                                      *)
(*   7. alerts stop within one run                                         *)
(***************************************************************************)
EXTENDS Alerts, FiniteSetTheorems, TLAPS

-----------------------------------------------------------------------------
(* 1. The statements of AlertStore *)

LEMMA RowIs ==
  ASSUME StoreTypeOK, NEW l \in Logins, HasRow(l)
  PROVE  sub[l] \in SubRow
  BY NoneAssumption DEF StoreTypeOK, HasRow

LEMMA RowUpdated ==
  ASSUME StoreTypeOK, NEW l \in Logins, NEW row, HasRow(l) => row \in SubRow,
         UpdateRow(l, row)
  PROVE  sub' \in [Logins -> SubRow \cup {None}]
  BY DEF UpdateRow, StoreTypeOK

\* Every write of alert_subscriptions leaves rows of the table's type.
LEMMA RowWritesType ==
  ASSUME StoreTypeOK, NEW l \in Logins,
         \/ MarkVerified(l)
         \/ \E d \in Nat : SetLastRun(l, d) \/ SetLastScanned(l, d)
         \/ DeactivateSubscription(l)
         \/ DeleteAlertData(l)
         \/ LinkExpires(l)
         \/ \E e \in Emails, t \in Tokens, k \in Links : UpsertSubscription(l, e, t, k)
  PROVE  sub' \in [Logins -> SubRow \cup {None}]
<1>1. CASE MarkVerified(l)
  <2>1. HasRow(l) =>
          [sub[l] EXCEPT !.verified = TRUE, !.link = None, !.expiry = "never"] \in SubRow
    BY RowIs DEF SubRow, Expiry
  <2> QED BY <1>1, <2>1, RowUpdated DEF MarkVerified
<1>2. ASSUME NEW d \in Nat, SetLastRun(l, d) PROVE sub' \in [Logins -> SubRow \cup {None}]
  <2>1. HasRow(l) => [sub[l] EXCEPT !.lastRun = d] \in SubRow
    BY RowIs DEF SubRow
  <2> QED BY <1>2, <2>1, RowUpdated DEF SetLastRun
<1>3. ASSUME NEW d \in Nat, SetLastScanned(l, d) PROVE sub' \in [Logins -> SubRow \cup {None}]
  <2>1. HasRow(l) => [sub[l] EXCEPT !.lastScanned = d] \in SubRow
    BY RowIs DEF SubRow
  <2> QED BY <1>3, <2>1, RowUpdated DEF SetLastScanned
<1>4. CASE DeactivateSubscription(l)
  <2>1. HasRow(l) =>
          [sub[l] EXCEPT !.active = FALSE, !.token = None, !.link = None] \in SubRow
    BY RowIs DEF SubRow
  <2> QED BY <1>4, <2>1, RowUpdated DEF DeactivateSubscription
<1>5. CASE LinkExpires(l)
  <2>1. HasRow(l) => [sub[l] EXCEPT !.expiry = "past"] \in SubRow
    BY RowIs DEF SubRow, Expiry
  <2> QED BY <1>5, <2>1, RowUpdated DEF LinkExpires
<1>6. CASE DeleteAlertData(l)
  BY <1>6 DEF DeleteAlertData, StoreTypeOK
<1>7. ASSUME NEW e \in Emails, NEW t \in Tokens, NEW k \in Links,
             UpsertSubscription(l, e, t, k)
      PROVE  sub' \in [Logins -> SubRow \cup {None}]
  BY <1>7 DEF UpsertSubscription, StoreTypeOK, SubRow, Expiry, Never
<1> QED BY <1>1, <1>2, <1>3, <1>4, <1>5, <1>6, <1>7

LEMMA ClearChildrenType ==
  ASSUME StoreTypeOK, NEW l \in Logins, ClearChildren(l)
  PROVE  /\ watched' \in [Logins -> SUBSET Repos]
         /\ known' \in [Logins -> SUBSET Suspects]
         /\ told' \in [Logins -> [Suspects -> Nat]]
         /\ promised' \in [Logins -> SUBSET Suspects]
  BY DEF StoreTypeOK, ClearChildren

-----------------------------------------------------------------------------
(* 2. The locals of a request *)

LEMMA Continued ==
  ASSUME RequestTypeOK, NEW r \in Reqs, NEW q \in Request, Continue(r, q)
  PROVE  req' \in [Reqs -> Request]
  BY DEF Continue, RequestTypeOK

LEMMA NoRequestType == NoRequest \in Request
  BY DEF NoRequest, Request, Steps

LEMMA RespondType ==
  ASSUME RequestTypeOK, NEW r \in Reqs, Respond(r)
  PROVE  req' \in [Reqs -> Request]
  BY NoRequestType, Continued DEF Respond

LEMMA CarryType ==
  ASSUME RequestTypeOK, NEW r \in Reqs, NEW pc \in Steps
  PROVE  /\ [req[r] EXCEPT !.pc = pc] \in Request
         /\ \A k \in Links : [req[r] EXCEPT !.pc = pc, !.link = k] \in Request
         /\ \A W \in SUBSET Repos : [req[r] EXCEPT !.pc = pc, !.repos = W] \in Request
         /\ \A S \in SUBSET Suspects : [req[r] EXCEPT !.pc = pc, !.found = S] \in Request
         /\ [req[r] EXCEPT !.pc = pc, !.revoked = TRUE] \in Request
  BY DEF RequestTypeOK, Request

LEMMA GotoType ==
  ASSUME RequestTypeOK, NEW r \in Reqs, NEW pc \in Steps, Goto(r, pc)
  PROVE  req' \in [Reqs -> Request]
  BY CarryType, Continued DEF Goto

LEMMA AuthenticatedType ==
  ASSUME NEW l \in Logins, NEW t \in Tokens, NEW kind \in Kinds,
         NEW e \in Emails \cup {None}
  PROVE  [NoRequest EXCEPT !.pc = "ensure", !.kind = kind, !.login = l,
                           !.token = t, !.email = e] \in Request
  BY DEF NoRequest, Request, Steps

\* A request is one that carries what its next step needs, if the locals it
\* continues with do.
LEMMA LocalsContinued ==
  ASSUME RequestTypeOK, RequestLocals, NEW r \in Reqs, NEW q \in Request, Continue(r, q),
         LocalsOK(q), UNCHANGED <<issued, mailed>>
  PROVE  RequestLocals'
  BY DEF Continue, RequestLocals, RequestTypeOK, LocalsOK, Subscribing

-----------------------------------------------------------------------------
(* 3. Type correctness *)

LEMMA InitType == Init => TypeOK
  BY NoneAssumption, NoneIsNoSnapshot
     DEF Init, StoreInit, RequestInit, CronInit, TypeOK, StoreTypeOK, RequestTypeOK,
         RequestLocals, LocalsOK, CronTypeOK, Subscribing, SubscribeWriting, NoRequest,
         Request, Steps, Kinds, CronSteps

RequestsTyped == StoreTypeOK /\ RequestTypeOK /\ RequestLocals

LEMMA FollowedType ==
  ASSUME NEW l \in Logins, NEW k \in Links
  PROVE  [NoRequest EXCEPT !.pc = "confirm", !.kind = "verify", !.login = l, !.link = k]
           \in Request
  BY DEF NoRequest, Request, Steps, Kinds

LEMMA UpsertTyped ==
  ASSUME RequestsTyped, NEW r \in Reqs, Upsert(r)
  PROVE  RequestsTyped'
<1> USE DEF RequestsTyped, RequestLocals, LocalsOK, Subscribing, SubscribeWriting, At
<1>1. StoreTypeOK'
  BY RowWritesType DEF Upsert, StoreTypeOK, storeVars, RequestTypeOK, Request
<1>2. RequestTypeOK'
  <2>1. req' \in [Reqs -> Request]
    BY CarryType, Continued DEF Upsert, Steps, RequestTypeOK
  <2> QED BY <2>1 DEF Upsert, RequestTypeOK, Issue
<1>3. RequestLocals'
  BY DEF Upsert, Continue, NoRequest, RequestTypeOK, Request, Issue, Steps
<1> QED BY <1>1, <1>2, <1>3

LEMMA ListReposTyped ==
  ASSUME RequestsTyped, NEW r \in Reqs, ListRepos(r)
  PROVE  RequestsTyped'
<1> USE DEF RequestsTyped, RequestLocals, LocalsOK, Subscribing, SubscribeWriting, At
<1>1. StoreTypeOK'
  BY DEF ListRepos, StoreTypeOK, storeVars, RequestTypeOK, Request
<1>2. RequestTypeOK'
  <2>1. req' \in [Reqs -> Request]
    BY CarryType, Continued DEF ListRepos, Steps, RequestTypeOK
  <2> QED BY <2>1 DEF ListRepos, RequestTypeOK, Issue
<1>3. RequestLocals'
  BY DEF ListRepos, Continue, NoRequest, RequestTypeOK, Request, Issue, Steps
<1> QED BY <1>1, <1>2, <1>3

LEMMA ClearWatchedTyped ==
  ASSUME RequestsTyped, NEW r \in Reqs, ClearWatched(r)
  PROVE  RequestsTyped'
<1> USE DEF RequestsTyped, RequestLocals, LocalsOK, Subscribing, SubscribeWriting, At
<1>1. StoreTypeOK'
  BY DEF ClearWatched, DeleteWatched, Goto, StoreTypeOK, storeVars, RequestTypeOK,
       Request
<1>2. RequestTypeOK'
  <2>1. req' \in [Reqs -> Request]
    BY GotoType DEF ClearWatched, DeleteWatched, Goto, Steps, RequestTypeOK
  <2> QED BY <2>1 DEF ClearWatched, DeleteWatched, Goto, RequestTypeOK, Issue
<1>3. RequestLocals'
  BY DEF ClearWatched, DeleteWatched, Goto, Continue, NoRequest, RequestTypeOK,
       Request, Issue, Steps
<1> QED BY <1>1, <1>2, <1>3

LEMMA FillWatchedTyped ==
  ASSUME RequestsTyped, NEW r \in Reqs, FillWatched(r)
  PROVE  RequestsTyped'
<1> USE DEF RequestsTyped, RequestLocals, LocalsOK, Subscribing, SubscribeWriting, At
<1>1. StoreTypeOK'
  BY DEF FillWatched, InsertWatched, Goto, StoreTypeOK, storeVars, RequestTypeOK,
       Request
<1>2. RequestTypeOK'
  <2>1. req' \in [Reqs -> Request]
    BY GotoType DEF FillWatched, InsertWatched, Goto, Steps, RequestTypeOK
  <2> QED BY <2>1 DEF FillWatched, InsertWatched, Goto, RequestTypeOK, Issue
<1>3. RequestLocals'
  BY DEF FillWatched, InsertWatched, Goto, Continue, NoRequest, RequestTypeOK,
       Request, Issue, Steps
<1> QED BY <1>1, <1>2, <1>3

LEMMA SearchBaselineTyped ==
  ASSUME RequestsTyped, NEW r \in Reqs, SearchBaseline(r)
  PROVE  RequestsTyped'
<1> USE DEF RequestsTyped, RequestLocals, LocalsOK, Subscribing, SubscribeWriting, At
<1>1. StoreTypeOK'
  BY DEF SearchBaseline, StoreTypeOK, storeVars, RequestTypeOK, Request
<1>2. RequestTypeOK'
  <2>1. req' \in [Reqs -> Request]
    BY CarryType, Continued DEF SearchBaseline, Steps, RequestTypeOK
  <2> QED BY <2>1 DEF SearchBaseline, RequestTypeOK, Issue
<1>3. RequestLocals'
  BY DEF SearchBaseline, Continue, NoRequest, RequestTypeOK, Request, Issue, Steps
<1> QED BY <1>1, <1>2, <1>3

LEMMA SeedBaselineTyped ==
  ASSUME RequestsTyped, NEW r \in Reqs, SeedBaseline(r)
  PROVE  RequestsTyped'
<1> USE DEF RequestsTyped, RequestLocals, LocalsOK, Subscribing, SubscribeWriting, At
<1>1. StoreTypeOK'
  BY DEF SeedBaseline, RecordClones, Goto, StoreTypeOK, storeVars, RequestTypeOK,
       Request
<1>2. RequestTypeOK'
  <2>1. req' \in [Reqs -> Request]
    BY GotoType DEF SeedBaseline, RecordClones, Goto, Steps, RequestTypeOK
  <2> QED BY <2>1 DEF SeedBaseline, RecordClones, Goto, RequestTypeOK, Issue
<1>3. RequestLocals'
  BY DEF SeedBaseline, RecordClones, Goto, Continue, NoRequest, RequestTypeOK,
       Request, Issue, Steps
<1> QED BY <1>1, <1>2, <1>3

LEMMA MailLinkTyped ==
  ASSUME RequestsTyped, NEW r \in Reqs, MailLink(r)
  PROVE  RequestsTyped'
<1> USE DEF RequestsTyped, RequestLocals, LocalsOK, Subscribing, SubscribeWriting, At
<1>1. StoreTypeOK'
  BY DEF MailLink, Respond, StoreTypeOK, storeVars, RequestTypeOK, Request
<1>2. RequestTypeOK'
  <2>1. req' \in [Reqs -> Request]
    BY RespondType DEF MailLink, Respond, Steps, RequestTypeOK
  <2> QED BY <2>1 DEF MailLink, Respond, RequestTypeOK, Issue
<1>3. RequestLocals'
  BY DEF MailLink, Respond, Continue, NoRequest, RequestTypeOK, Request, Issue, Steps
<1> QED BY <1>1, <1>2, <1>3

LEMMA FollowLinkTyped ==
  ASSUME RequestsTyped, NEW r \in Reqs, FollowLink(r)
  PROVE  RequestsTyped'
<1> USE DEF RequestsTyped, RequestLocals, LocalsOK, Subscribing, SubscribeWriting, At
<1>1. StoreTypeOK'
  BY DEF FollowLink, StoreTypeOK, storeVars, RequestTypeOK, Request
<1>2. RequestTypeOK'
  <2>1. PICK k \in mailed :
             Continue(r, [NoRequest EXCEPT !.pc = "confirm", !.kind = "verify",
                                           !.login = issued[k].login, !.link = k])
    BY DEF FollowLink
  <2>2. issued[k].login \in Logins /\ k \in Links
    BY DEF RequestTypeOK, Issue
  <2>3. req' \in [Reqs -> Request]
    BY <2>1, <2>2, FollowedType, Continued
  <2> QED BY <2>3 DEF FollowLink, RequestTypeOK, Issue
<1>3. RequestLocals'
  BY DEF FollowLink, Continue, NoRequest, RequestTypeOK, Request, Issue, Steps
<1> QED BY <1>1, <1>2, <1>3

LEMMA ConfirmTyped ==
  ASSUME RequestsTyped, NEW r \in Reqs, Confirm(r)
  PROVE  RequestsTyped'
<1> USE DEF RequestsTyped, RequestLocals, LocalsOK, Subscribing, SubscribeWriting, At
<1>1. StoreTypeOK'
  BY RowWritesType DEF Confirm, Respond, StoreTypeOK, storeVars, RequestTypeOK,
       Request
<1>2. RequestTypeOK'
  <2>1. req' \in [Reqs -> Request]
    BY RespondType DEF Confirm, Respond, Steps, RequestTypeOK
  <2> QED BY <2>1 DEF Confirm, Respond, RequestTypeOK, Issue
<1>3. RequestLocals'
  BY DEF Confirm, Respond, Continue, NoRequest, RequestTypeOK, Request, Issue, Steps
<1> QED BY <1>1, <1>2, <1>3

LEMMA CancelTyped ==
  ASSUME RequestsTyped, NEW r \in Reqs, Cancel(r)
  PROVE  RequestsTyped'
<1> USE DEF RequestsTyped, RequestLocals, LocalsOK, Subscribing, SubscribeWriting, At
<1>1. StoreTypeOK'
  BY RowWritesType, ClearChildrenType DEF Cancel, DeactivateSubscription, Respond,
       StoreTypeOK, storeVars, RequestTypeOK, Request
<1>2. RequestTypeOK'
  <2>1. req' \in [Reqs -> Request]
    BY RespondType DEF Cancel, DeactivateSubscription, Respond, Steps, RequestTypeOK
  <2> QED BY <2>1 DEF Cancel, DeactivateSubscription, Respond, RequestTypeOK, Issue
<1>3. RequestLocals'
  BY DEF Cancel, DeactivateSubscription, Respond, Continue, NoRequest, RequestTypeOK,
       Request, Issue, Steps
<1> QED BY <1>1, <1>2, <1>3

LEMMA EraseTyped ==
  ASSUME RequestsTyped, NEW r \in Reqs, Erase(r)
  PROVE  RequestsTyped'
<1> USE DEF RequestsTyped, RequestLocals, LocalsOK, Subscribing, SubscribeWriting, At
<1>1. StoreTypeOK'
  BY RowWritesType, ClearChildrenType DEF Erase, DeleteAlertData, Respond,
       StoreTypeOK, storeVars, RequestTypeOK, Request
<1>2. RequestTypeOK'
  <2>1. req' \in [Reqs -> Request]
    BY RespondType DEF Erase, DeleteAlertData, Respond, Steps, RequestTypeOK
  <2> QED BY <2>1 DEF Erase, DeleteAlertData, Respond, RequestTypeOK, Issue
<1>3. RequestLocals'
  BY DEF Erase, DeleteAlertData, Respond, Continue, NoRequest, RequestTypeOK, Request,
       Issue, Steps
<1> QED BY <1>1, <1>2, <1>3

LEMMA RequestFailsTyped ==
  ASSUME RequestsTyped, NEW r \in Reqs, RequestFails(r)
  PROVE  RequestsTyped'
<1> USE DEF RequestsTyped, RequestLocals, LocalsOK, Subscribing, SubscribeWriting, At
<1>1. StoreTypeOK'
  BY DEF RequestFails, Respond, StoreTypeOK, storeVars, RequestTypeOK, Request
<1>2. RequestTypeOK'
  <2>1. req' \in [Reqs -> Request]
    BY RespondType DEF RequestFails, Respond, Steps, RequestTypeOK
  <2> QED BY <2>1 DEF RequestFails, Respond, RequestTypeOK, Issue
<1>3. RequestLocals'
  BY DEF RequestFails, Respond, Continue, NoRequest, RequestTypeOK, Request, Issue,
       Steps
<1> QED BY <1>1, <1>2, <1>3

LEMMA StartSubscribeTyped ==
  ASSUME RequestsTyped, NEW r \in Reqs, NEW l \in Logins, StartSubscribe(r, l)
  PROVE  RequestsTyped'
<1> USE DEF RequestsTyped, RequestLocals, LocalsOK, Subscribing, SubscribeWriting, At
<1>1. StoreTypeOK'
  BY DEF StartSubscribe, Authenticate, StoreTypeOK, storeVars, RequestTypeOK, Request
<1>2. RequestTypeOK'
  <2>1. req' \in [Reqs -> Request]
    BY Continued, AuthenticatedType DEF StartSubscribe, Authenticate, Steps,
         RequestTypeOK, Kinds
  <2> QED BY <2>1 DEF StartSubscribe, Authenticate, RequestTypeOK, Issue
<1>3. RequestLocals'
  BY DEF StartSubscribe, Authenticate, Continue, NoRequest, RequestTypeOK, Request,
       Issue, Steps
<1> QED BY <1>1, <1>2, <1>3

LEMMA StartCancelTyped ==
  ASSUME RequestsTyped, NEW r \in Reqs, NEW l \in Logins, StartCancel(r, l)
  PROVE  RequestsTyped'
<1> USE DEF RequestsTyped, RequestLocals, LocalsOK, Subscribing, SubscribeWriting, At
<1>1. StoreTypeOK'
  BY DEF StartCancel, Authenticate, StoreTypeOK, storeVars, RequestTypeOK, Request
<1>2. RequestTypeOK'
  <2>1. req' \in [Reqs -> Request]
    BY Continued, AuthenticatedType DEF StartCancel, Authenticate, Steps,
         RequestTypeOK, Kinds
  <2> QED BY <2>1 DEF StartCancel, Authenticate, RequestTypeOK, Issue
<1>3. RequestLocals'
  BY DEF StartCancel, Authenticate, Continue, NoRequest, RequestTypeOK, Request,
       Issue, Steps
<1> QED BY <1>1, <1>2, <1>3

LEMMA StartDeleteTyped ==
  ASSUME RequestsTyped, NEW r \in Reqs, NEW l \in Logins, StartDelete(r, l)
  PROVE  RequestsTyped'
<1> USE DEF RequestsTyped, RequestLocals, LocalsOK, Subscribing, SubscribeWriting, At
<1>1. StoreTypeOK'
  BY DEF StartDelete, Authenticate, StoreTypeOK, storeVars, RequestTypeOK, Request
<1>2. RequestTypeOK'
  <2>1. req' \in [Reqs -> Request]
    BY Continued, AuthenticatedType DEF StartDelete, Authenticate, Steps,
         RequestTypeOK, Kinds
  <2> QED BY <2>1 DEF StartDelete, Authenticate, RequestTypeOK, Issue
<1>3. RequestLocals'
  BY DEF StartDelete, Authenticate, Continue, NoRequest, RequestTypeOK, Request,
       Issue, Steps
<1> QED BY <1>1, <1>2, <1>3

LEMMA FirstStepType ==
  ASSUME NEW kind \in {"subscribe", "cancel", "delete"}
  PROVE  FirstStep(kind) \in {"upsert", "cancel", "revoke"}
  BY DEF FirstStep

LEMMA EnsureUserTyped ==
  ASSUME RequestsTyped, NEW r \in Reqs, EnsureUser(r)
  PROVE  RequestsTyped'
<1> USE DEF RequestsTyped, RequestLocals, LocalsOK, Subscribing, SubscribeWriting, At
<1> DEFINE kind == req[r].kind
<1>0. kind \in {"subscribe", "cancel", "delete"}
  BY DEF EnsureUser
<1>1. StoreTypeOK'
  BY DEF EnsureUser, StoreTypeOK, RequestTypeOK, Request
<1>2. CASE Respond(r)
  <2>1. req' \in [Reqs -> Request]
    BY <1>2, RespondType
  <2> QED BY <1>1, <1>2, <2>1
          DEF EnsureUser, Respond, Continue, NoRequest, RequestTypeOK, Issue
<1>3. CASE Goto(r, FirstStep(kind))
  <2>1. FirstStep(kind) \in Steps
    BY <1>0, FirstStepType DEF Steps
  <2>2. req' \in [Reqs -> Request]
    BY <1>3, <2>1, GotoType
  <2>3. RequestTypeOK'
    BY <2>2 DEF EnsureUser, RequestTypeOK, Issue
  <2>4. kind = "subscribe" => req[r].email \in Emails /\ req[r].token \in Tokens
    BY DEF EnsureUser
  <2>5. FirstStep(kind) = "upsert" => kind = "subscribe"
    BY <1>0 DEF FirstStep
  <2>6. RequestLocals'
    <3>1. req' = [req EXCEPT ![r] = [req[r] EXCEPT !.pc = FirstStep(kind)]]
      BY <1>3 DEF Goto, Continue
    <3>2. LocalsOK([req[r] EXCEPT !.pc = FirstStep(kind)])
      BY <1>0, <2>4, <2>5, FirstStepType DEF EnsureUser, RequestTypeOK, Request
    <3> QED BY <3>1, <3>2, LocalsContinued, <2>1, CarryType DEF EnsureUser, Continue
  <2> QED BY <1>1, <2>3, <2>6
<1> QED BY <1>2, <1>3 DEF EnsureUser

LEMMA RevokeTokenTyped ==
  ASSUME RequestsTyped, NEW r \in Reqs, RevokeToken(r)
  PROVE  RequestsTyped'
<1> USE DEF RequestsTyped, RequestLocals, LocalsOK, Subscribing, SubscribeWriting, At
<1>1. StoreTypeOK'
  BY DEF RevokeToken, StoreTypeOK, storeVars
<1>2. RequestTypeOK'
  <2>1. req' \in [Reqs -> Request]
    BY CarryType, Continued, GotoType DEF RevokeToken, Steps
  <2> QED BY <2>1 DEF RevokeToken, RequestTypeOK, Issue
<1>3. RequestLocals'
  <2>1. \A s \in Reqs : s # r => req'[s] = req[s]
    BY DEF RevokeToken, Goto, Continue, RequestTypeOK
  <2>2. req'[r].pc = "erase" /\ req'[r].login = req[r].login
    <3>1. req[r] \in Request
      BY DEF RequestTypeOK
    <3>2. \/ req' = [req EXCEPT ![r] = [req[r] EXCEPT !.pc = "erase", !.revoked = TRUE]]
          \/ req' = [req EXCEPT ![r] = [req[r] EXCEPT !.pc = "erase"]]
      BY DEF RevokeToken, Goto, Continue
    <3>3. CASE req' = [req EXCEPT ![r] = [req[r] EXCEPT !.pc = "erase", !.revoked = TRUE]]
      <4>1. req'[r] = [req[r] EXCEPT !.pc = "erase", !.revoked = TRUE]
        BY <3>3 DEF RequestTypeOK
      <4> QED BY <3>1, <4>1 DEF Request
    <3>4. CASE req' = [req EXCEPT ![r] = [req[r] EXCEPT !.pc = "erase"]]
      <4>1. req'[r] = [req[r] EXCEPT !.pc = "erase"]
        BY <3>4 DEF RequestTypeOK
      <4> QED BY <3>1, <4>1 DEF Request
    <3> QED BY <3>2, <3>3, <3>4
  <2>3. req[r].login \in Logins /\ issued' = issued /\ mailed' = mailed
    BY DEF RevokeToken
  <2> QED BY <2>1, <2>2, <2>3
<1> QED BY <1>1, <1>2, <1>3

LEMMA AccountTyped ==
  ASSUME RequestsTyped, AccountChanges
  PROVE  RequestsTyped'
<1> USE DEF RequestsTyped, RequestLocals
<1>1. ASSUME NEW l \in Logins, SignIn(l) PROVE RequestsTyped'
  BY <1>1 DEF SignIn, StoreTypeOK, RequestTypeOK, LocalsOK
<1>2. ASSUME NEW l \in Logins, SessionEnds(l) PROVE RequestsTyped'
  BY <1>2 DEF SessionEnds, StoreTypeOK, RequestTypeOK, LocalsOK, storeVars
<1>3. ASSUME NEW l \in Logins, RevokeGrant(l) PROVE RequestsTyped'
  BY <1>3 DEF RevokeGrant, StoreTypeOK, RequestTypeOK, LocalsOK, storeVars
<1>4. ASSUME NEW l \in Logins, Suspend(l) \/ Unsuspend(l) PROVE RequestsTyped'
  BY <1>4 DEF Suspend, Unsuspend, StoreTypeOK, RequestTypeOK, LocalsOK, requestVars
<1>5. ASSUME NEW l \in Logins, EmailUnsubscribe(l) PROVE RequestsTyped'
  BY <1>5, RowWritesType, ClearChildrenType
     DEF EmailUnsubscribe, DeactivateSubscription, StoreTypeOK, RequestTypeOK, LocalsOK,
         requestVars
<1>6. ASSUME NEW l \in Logins, LinkExpires(l), UNCHANGED requestVars PROVE RequestsTyped'
  BY <1>6, RowWritesType
     DEF LinkExpires, StoreTypeOK, RequestTypeOK, LocalsOK, requestVars
<1> QED BY <1>1, <1>2, <1>3, <1>4, <1>5, <1>6 DEF AccountChanges

LEMMA RequestNextTyped ==
  ASSUME RequestsTyped, RequestNext
  PROVE  RequestsTyped'
<1>1. ASSUME NEW r \in Reqs, RequestArrives(r) PROVE RequestsTyped'
  BY <1>1, FollowLinkTyped, StartSubscribeTyped, StartCancelTyped, StartDeleteTyped
     DEF RequestArrives
<1>2. ASSUME NEW r \in Reqs, RequestStep(r) PROVE RequestsTyped'
  BY <1>2, EnsureUserTyped, UpsertTyped, ListReposTyped, ClearWatchedTyped,
     FillWatchedTyped, SearchBaselineTyped, SeedBaselineTyped, MailLinkTyped,
     ConfirmTyped, CancelTyped, RevokeTokenTyped, EraseTyped
     DEF RequestStep
<1> QED BY <1>1, <1>2, AccountTyped, RequestFailsTyped DEF RequestNext

\* An estimate is a number because a subscriber watches finitely many
\* repositories.
LEMMA EstimateType ==
  ASSUME StoreTypeOK, NEW l \in Logins
  PROVE  Estimate(l) \in Nat
<1>1. IsFiniteSet(watched[l])
  BY ReposAssumption, FS_Subset DEF StoreTypeOK
<1>2. Cardinality(watched[l]) \in Nat
  BY <1>1, FS_CardinalityType
<1> QED BY <1>2, CronAssumption DEF Estimate

LEMMA SnapshotType ==
  ASSUME StoreTypeOK, NEW l \in Logins, HasRow(l)
  PROVE  SnapshotOf(l) \in Snapshot
  BY RowIs DEF SnapshotOf, Snapshot, SubRow

LEMMA CurIsSnapshot ==
  ASSUME CronTypeOK, cpc \notin {"idle", "next"}
  PROVE  cur \in Snapshot /\ cur.login \in Logins
  BY DEF CronTypeOK, Snapshot

CronTyped == StoreTypeOK /\ CronTypeOK

LEMMA EndOfRunTyped ==
  ASSUME CronTyped, EndOfRun
  PROVE  CronTyped'
  BY DEF CronTyped, EndOfRun, StoreTypeOK, CronTypeOK, storeVars, CronSteps

\* The steps that only move on.
LEMMA ProceedTyped ==
  ASSUME CronTyped, cpc \notin {"idle", "next"},
         NEW pc \in CronSteps \ {"idle", "next"}, Proceed(pc), UNCHANGED storeVars,
         found' \in SUBSET Suspects
  PROVE  CronTyped'
  BY DEF CronTyped, Proceed, StoreTypeOK, CronTypeOK, storeVars

LEMMA ScanStepTyped ==
  ASSUME CronTyped, NEW valid \in BOOLEAN, ScanStep(valid)
  PROVE  CronTyped'
<1> USE DEF CronTyped
<1>1. CASE ProbeAccepted(valid) \/ ProbeRefused(valid) \/ TokenUnusable \/ ProbeFails
           \/ RecordFails \/ SendFails \/ SendThrows
  BY <1>1, ProceedTyped
     DEF ProbeAccepted, ProbeRefused, TokenUnusable, ProbeFails, RecordFails, SendFails, SendThrows,
         Abort, CronSteps, CronTypeOK
<1>2. CASE Deactivate
  <2>1. StoreTypeOK'
    BY <1>2, CurIsSnapshot, RowWritesType, ClearChildrenType
       DEF Deactivate, DeactivateSubscription, StoreTypeOK
  <2> QED BY <1>2, <2>1 DEF Deactivate, CronTypeOK, CronSteps
<1>3. CASE Search
  BY <1>3, ProceedTyped DEF Search, CronSteps
<1>4. CASE Diff
  <2>1. found' \in SUBSET Suspects
    BY <1>4 DEF Diff, CronTypeOK
  <2> QED BY <1>4, <2>1, ProceedTyped DEF Diff, CronSteps
<1>5. CASE Record
  <2>1. StoreTypeOK'
    BY <1>5, CurIsSnapshot DEF Record, RecordClones, StoreTypeOK, CronTypeOK
  <2> QED BY <1>5, <2>1 DEF Record, Proceed, CronTypeOK, CronSteps
<1>6. CASE SendAlert
  <2>1. StoreTypeOK'
    BY <1>6, CurIsSnapshot DEF SendAlert, StoreTypeOK, CronTypeOK
  <2> QED BY <1>6, <2>1 DEF SendAlert, Proceed, CronTypeOK, CronSteps
<1>7. CASE MarkRun
  <2>1. StoreTypeOK'
    BY <1>7, CurIsSnapshot, RowWritesType DEF MarkRun, StoreTypeOK, CronTypeOK
  <2> QED BY <1>7, <2>1 DEF MarkRun, Proceed, CronTypeOK, CronSteps
<1>8. CASE MarkScanned
  <2>1. StoreTypeOK'
    BY <1>8, CurIsSnapshot, RowWritesType DEF MarkScanned, StoreTypeOK, CronTypeOK
  <2> QED BY <1>8, <2>1 DEF MarkScanned, CronTypeOK, CronSteps
<1> QED BY <1>1, <1>2, <1>3, <1>4, <1>5, <1>6, <1>7, <1>8 DEF ScanStep

LEMMA CronNextTyped ==
  ASSUME CronTyped, NEW valid \in BOOLEAN, CronNext(valid)
  PROVE  CronTyped'
<1> USE DEF CronTyped
<1>1. CASE StartRun
  <2>1. PICK B \in SUBSET ScannableLogins : todo' = {SnapshotOf(l) : l \in B}
    BY <1>1 DEF StartRun
  <2>2. todo' \in SUBSET Snapshot
    BY <2>1, SnapshotType DEF ScannableLogins, Scannable, Active
  <2> QED BY <1>1, <2>2 DEF StartRun, StoreTypeOK, CronTypeOK, CronSteps, storeVars
<1>2. CASE NextSubscriber
  <2>1. PICK s \in todo : /\ cur' = s
                          /\ todo' = todo \ {s}
                          /\ repos' = watched[s.login]
                          /\ consumed' = consumed + Estimate(s.login)
    BY <1>2 DEF NextSubscriber
  <2>2. s \in Snapshot /\ s.login \in Logins /\ s # None
    BY NoneIsNoSnapshot DEF CronTypeOK, Snapshot
  <2>3. Estimate(s.login) \in Nat
    BY <2>2, EstimateType
  <2>4. consumed' \in Nat
    BY <2>1, <2>3 DEF CronTypeOK
  <2> QED BY <1>2, <2>1, <2>2, <2>4
          DEF NextSubscriber, StoreTypeOK, CronTypeOK, CronSteps, storeVars
<1>3. CASE BudgetStop \/ RunDone \/ RunCrashes
  BY <1>3, EndOfRunTyped DEF BudgetStop, RunDone, RunCrashes
<1> QED BY <1>1, <1>2, <1>3, ScanStepTyped DEF CronNext, RunStep

LEMMA HistoryTyped ==
  ASSUME TypeOK
  PROVE  /\ TrackOverlap => overlap' \in [Logins -> BOOLEAN]
         /\ TrackRun => entitled' \in SUBSET Issue
<1>1. \A l \in Logins : WriterInFlight(l) \in BOOLEAN
  BY DEF WriterInFlight, RequestWriting, CronWriting
<1>2. TrackOverlap => overlap' \in [Logins -> BOOLEAN]
  BY <1>1 DEF TrackOverlap, TypeOK
<1>3. OwedAlerts \in SUBSET Issue
  BY RowIs DEF OwedAlerts, Issue, TypeOK, Active, SubRow
<1>4. TrackRun => entitled' \in SUBSET Issue
  BY <1>3 DEF TrackRun, TypeOK
<1> QED BY <1>2, <1>4

LEMMA TypeStep ==
  ASSUME TypeOK, [Next]_vars
  PROVE  TypeOK'
<1>1. CASE RequestsMove
  <2>1. RequestsTyped'
    BY <1>1, RequestNextTyped DEF RequestsMove, TypeOK, RequestsTyped
  <2>2. CronTypeOK'
    BY <1>1 DEF RequestsMove, TypeOK, CronTypeOK, cronVars
  <2> QED BY <1>1, <2>1, <2>2, HistoryTyped DEF RequestsMove, TypeOK, RequestsTyped
<1>2. CASE CronMoves
  <2>1. TokenAccepted \in BOOLEAN
    BY DEF TokenAccepted
  <2>2. CronTyped'
    BY <1>2, <2>1, CronNextTyped DEF CronMoves, TypeOK, CronTyped
  <2>3. RequestTypeOK' /\ RequestLocals'
    BY <1>2 DEF CronMoves, TypeOK, RequestTypeOK, RequestLocals, LocalsOK, requestVars
  <2> QED BY <1>2, <2>2, <2>3, HistoryTyped DEF CronMoves, TypeOK, CronTyped
<1>3. CASE UNCHANGED vars
  BY <1>3 DEF vars, storeVars, requestVars, cronVars, historyVars, TypeOK, StoreTypeOK,
              RequestTypeOK, RequestLocals, LocalsOK, CronTypeOK
<1> QED BY <1>1, <1>2, <1>3 DEF Next

\* Whatever requests, scans, crashes and failed calls interleave, the tables,
\* every handler's locals and the run's snapshot keep their types: no step writes
\* a row that the schema and the code's TypeScript types exclude, and no step
\* finds a local it needs unset.
THEOREM TypeCorrect == Spec => []TypeOK
<1>1. Init => TypeOK
  BY InitType
<1>2. TypeOK /\ [Next]_vars => TypeOK'
  BY TypeStep
<1> QED BY <1>1, <1>2, PTL DEF Spec

-----------------------------------------------------------------------------
(* 4. Dormant and confirmed rows *)

\* One statement on the row of l.
RowStatement(l) ==
  \/ \E e \in Emails, t \in Tokens, k \in Links : UpsertSubscription(l, e, t, k)
  \/ MarkVerified(l)
  \/ \E d \in Nat : SetLastRun(l, d) \/ SetLastScanned(l, d)
  \/ DeactivateSubscription(l)
  \/ DeleteAlertData(l)
  \/ LinkExpires(l)

\* Every step leaves the table alone or executes one statement on it.
LEMMA RowStatements ==
  ASSUME TypeOK, [Next]_vars
  PROVE  sub' = sub \/ \E l \in Logins : RowStatement(l)
<1> USE DEF RowStatement
<1>1. CASE RequestsMove
  <2>1. CASE AccountChanges
    BY <2>1 DEF AccountChanges, SignIn, SessionEnds, RevokeGrant, Suspend, Unsuspend,
                EmailUnsubscribe, storeVars
  <2>2. ASSUME NEW r \in Reqs, RequestArrives(r) \/ RequestFails(r)
        PROVE  sub' = sub
    BY <2>2 DEF RequestArrives, FollowLink, StartSubscribe, StartCancel, StartDelete,
                Authenticate, RequestFails, storeVars
  <2>3. ASSUME NEW r \in Reqs, RequestStep(r)
        PROVE  sub' = sub \/ \E l \in Logins : RowStatement(l)
    <3>0. req[r].pc # "idle" => req[r].login \in Logins
      BY DEF TypeOK, RequestLocals, LocalsOK
    <3>1. CASE Upsert(r)
      <4>1. req[r].email \in Emails /\ req[r].token \in Tokens
        BY <3>1 DEF Upsert, At, TypeOK, RequestLocals, LocalsOK, Subscribing
      <4> QED BY <3>0, <3>1, <4>1 DEF Upsert, At
    <3>2. CASE Confirm(r) \/ Cancel(r) \/ Erase(r)
      BY <3>0, <3>2 DEF Confirm, Cancel, Erase, At
    <3>3. CASE ~(Upsert(r) \/ Confirm(r) \/ Cancel(r) \/ Erase(r))
      BY <2>3, <3>3
         DEF RequestStep, EnsureUser, ListRepos, ClearWatched, FillWatched, SearchBaseline,
             SeedBaseline, MailLink, RevokeToken, storeVars
    <3> QED BY <3>1, <3>2, <3>3
  <2> QED BY <1>1, <2>1, <2>2, <2>3 DEF RequestsMove, RequestNext
<1>2. CASE CronMoves
  <2>1. CASE Deactivate
    BY <2>1, CurIsSnapshot DEF Deactivate, TypeOK
  <2>2. CASE MarkRun \/ MarkScanned
    BY <2>2, CurIsSnapshot DEF MarkRun, MarkScanned, TypeOK, CronTypeOK
  <2>3. CASE ~(Deactivate \/ MarkRun \/ MarkScanned)
    BY <1>2, <2>3
       DEF CronMoves, CronNext, RunStep, ScanStep, StartRun, NextSubscriber, BudgetStop,
           RunDone, RunCrashes, EndOfRun, ProbeAccepted, ProbeRefused, TokenUnusable,
           ProbeFails, Abort, Search, Diff, Record, RecordFails, SendAlert, SendFails, SendThrows,
           storeVars
  <2> QED BY <2>1, <2>2, <2>3
<1>3. CASE UNCHANGED vars
  BY <1>3 DEF vars, storeVars
<1> QED BY <1>1, <1>2, <1>3 DEF Next

FlagsOK(row) ==
  /\ ~row.active => row.token = None /\ row.link = None
  /\ row.verified => row.link = None

RowsFlagsOK == \A l \in Logins : HasRow(l) => FlagsOK(sub[l])

LEMMA RowsFlags == RowsFlagsOK <=> DormantRowIsWiped /\ ConfirmedRowHasNoLink
  BY DEF DormantRowIsWiped, ConfirmedRowHasNoLink, RowsFlagsOK, FlagsOK

LEMMA UpdateKeepsFlags ==
  ASSUME StoreTypeOK, RowsFlagsOK, NEW l \in Logins, NEW row, UpdateRow(l, row),
         HasRow(l) => FlagsOK(row)
  PROVE  RowsFlagsOK'
  BY DEF UpdateRow, StoreTypeOK, RowsFlagsOK, HasRow, FlagsOK

\* Statement by statement: the new row has its flags right.
LEMMA StatementKeepsFlags ==
  ASSUME StoreTypeOK, RowsFlagsOK, NEW l \in Logins, RowStatement(l)
  PROVE  RowsFlagsOK'
<1>0. HasRow(l) => sub[l] \in SubRow /\ FlagsOK(sub[l])
  BY RowIs DEF RowsFlagsOK
<1>1. CASE MarkVerified(l)
  <2>1. HasRow(l) =>
          FlagsOK([sub[l] EXCEPT !.verified = TRUE, !.link = None, !.expiry = "never"])
    BY <1>0 DEF SubRow, FlagsOK
  <2> QED BY <1>1, <2>1, UpdateKeepsFlags DEF MarkVerified
<1>2. ASSUME NEW d \in Nat, SetLastRun(l, d) PROVE RowsFlagsOK'
  <2>1. HasRow(l) => FlagsOK([sub[l] EXCEPT !.lastRun = d])
    BY <1>0 DEF SubRow, FlagsOK
  <2> QED BY <1>2, <2>1, UpdateKeepsFlags DEF SetLastRun
<1>3. ASSUME NEW d \in Nat, SetLastScanned(l, d) PROVE RowsFlagsOK'
  <2>1. HasRow(l) => FlagsOK([sub[l] EXCEPT !.lastScanned = d])
    BY <1>0 DEF SubRow, FlagsOK
  <2> QED BY <1>3, <2>1, UpdateKeepsFlags DEF SetLastScanned
<1>4. CASE DeactivateSubscription(l)
  <2>1. HasRow(l) =>
          FlagsOK([sub[l] EXCEPT !.active = FALSE, !.token = None, !.link = None])
    BY <1>0 DEF SubRow, FlagsOK
  <2> QED BY <1>4, <2>1, UpdateKeepsFlags DEF DeactivateSubscription
<1>5. CASE LinkExpires(l)
  <2>1. HasRow(l) => FlagsOK([sub[l] EXCEPT !.expiry = "past"])
    BY <1>0 DEF SubRow, FlagsOK
  <2> QED BY <1>5, <2>1, UpdateKeepsFlags DEF LinkExpires
<1>6. CASE DeleteAlertData(l)
  BY <1>6 DEF DeleteAlertData, StoreTypeOK, RowsFlagsOK, HasRow, FlagsOK
<1>7. ASSUME NEW e \in Emails, NEW t \in Tokens, NEW k \in Links,
             UpsertSubscription(l, e, t, k)
      PROVE  RowsFlagsOK'
  BY <1>7 DEF UpsertSubscription, StoreTypeOK, RowsFlagsOK, HasRow, FlagsOK
<1> QED BY <1>1, <1>2, <1>3, <1>4, <1>5, <1>6, <1>7 DEF RowStatement

LEMMA RowFlagsStep ==
  ASSUME TypeOK, RowsFlagsOK, [Next]_vars
  PROVE  RowsFlagsOK'
<1>1. CASE sub' = sub
  BY <1>1 DEF RowsFlagsOK, HasRow, FlagsOK
<1>2. ASSUME NEW l \in Logins, RowStatement(l) PROVE RowsFlagsOK'
  BY <1>2, StatementKeepsFlags DEF TypeOK
<1> QED BY <1>1, <1>2, RowStatements

LEMMA RowFlagsCorrect == Spec => []RowsFlagsOK
<1>1. Init => RowsFlagsOK
  BY DEF Init, StoreInit, RowsFlagsOK, HasRow
<1>2. TypeOK /\ RowsFlagsOK /\ [Next]_vars => RowsFlagsOK'
  BY RowFlagsStep
<1> QED BY <1>1, <1>2, TypeCorrect, PTL DEF Spec

\* However the subscribe, confirm, unsubscribe and erase requests and the cron's
\* deactivation and markers interleave, a row that is switched off keeps neither
\* the GitHub token nor a confirmation link.
THEOREM DormantRowsAreWiped == Spec => []DormantRowIsWiped
<1>1. RowsFlagsOK => DormantRowIsWiped
  BY RowsFlags
<1> QED BY <1>1, RowFlagsCorrect, PTL

\* However those requests interleave, a confirmed row has no link left to follow.
THEOREM ConfirmedRowsHaveNoLink == Spec => []ConfirmedRowHasNoLink
<1>1. RowsFlagsOK => ConfirmedRowHasNoLink
  BY RowsFlags
<1> QED BY <1>1, RowFlagsCorrect, PTL

-----------------------------------------------------------------------------
(* 5. No duplicate alert *)

LEMMA BookkeepingInit == Init => AlertBookkeeping
  BY DEF Init, StoreInit, CronInit, AlertBookkeeping

\* Forgetting a login's baseline forgets the alerts it stands for.
LEMMA BookkeepingCleared ==
  ASSUME TypeOK, AlertBookkeeping, NEW l \in Logins, ClearChildren(l),
         cpc' = "record" => cpc = "record" /\ cur' = cur /\ found' = found
  PROVE  AlertBookkeeping'
<1>1. cpc = "record" => cur.login \in Logins /\ found \in SUBSET Suspects
  BY CurIsSnapshot DEF TypeOK, CronTypeOK
<1> QED BY <1>1 DEF AlertBookkeeping, ClearChildren, TypeOK, StoreTypeOK

\* A baseline that only grows keeps the books.
LEMMA BookkeepingGrown ==
  ASSUME TypeOK, AlertBookkeeping, UNCHANGED <<told, promised>>,
         \A l \in Logins : known[l] \subseteq known'[l],
         cpc' = "record" => cpc = "record" /\ cur' = cur /\ found' = found
  PROVE  AlertBookkeeping'
  BY DEF AlertBookkeeping

LEMMA BookkeepingRequests ==
  ASSUME TypeOK, AlertBookkeeping, RequestNext, UNCHANGED cronVars
  PROVE  AlertBookkeeping'
<1>0. cpc' = cpc /\ cur' = cur /\ found' = found
  BY DEF cronVars
<1>1. CASE AccountChanges
  <2>1. ASSUME NEW l \in Logins, EmailUnsubscribe(l) PROVE AlertBookkeeping'
    BY <1>0, <2>1, BookkeepingCleared DEF EmailUnsubscribe, DeactivateSubscription
  <2>2. CASE ~\E l \in Logins : EmailUnsubscribe(l)
    <3>1. UNCHANGED <<told, promised, known>>
      BY <1>1, <2>2 DEF AccountChanges, SignIn, SessionEnds, RevokeGrant, Suspend,
                        Unsuspend, LinkExpires, storeVars
    <3> QED BY <1>0, <3>1, BookkeepingGrown
  <2> QED BY <2>1, <2>2
<1>2. ASSUME NEW r \in Reqs, RequestArrives(r) \/ RequestFails(r)
      PROVE  AlertBookkeeping'
  <2>1. UNCHANGED <<told, promised, known>>
    BY <1>2 DEF RequestArrives, FollowLink, StartSubscribe, StartCancel, StartDelete,
                Authenticate, RequestFails, storeVars
  <2> QED BY <1>0, <2>1, BookkeepingGrown
<1>3. ASSUME NEW r \in Reqs, RequestStep(r) PROVE AlertBookkeeping'
  <2>0. req[r].pc # "idle" => req[r].login \in Logins
    BY DEF TypeOK, RequestLocals, LocalsOK
  <2>1. CASE Cancel(r) \/ Erase(r)
    <3>1. req[r].login \in Logins /\ ClearChildren(req[r].login)
      BY <2>0, <2>1 DEF Cancel, Erase, At, DeactivateSubscription, DeleteAlertData
    <3> QED BY <1>0, <3>1, BookkeepingCleared
  <2>2. CASE SeedBaseline(r)
    <3>1. UNCHANGED <<told, promised>> /\ \A l \in Logins : known[l] \subseteq known'[l]
      BY <2>2 DEF SeedBaseline, RecordClones, TypeOK, StoreTypeOK
    <3> QED BY <1>0, <3>1, BookkeepingGrown
  <2>3. CASE ~(Cancel(r) \/ Erase(r) \/ SeedBaseline(r))
    <3>1. UNCHANGED <<told, promised, known>>
      BY <1>3, <2>3
         DEF RequestStep, EnsureUser, Upsert, ListRepos, ClearWatched, FillWatched,
             SearchBaseline, MailLink, Confirm, RevokeToken, storeVars
    <3> QED BY <1>0, <3>1, BookkeepingGrown
  <2> QED BY <2>1, <2>2, <2>3
<1> QED BY <1>1, <1>2, <1>3 DEF RequestNext

\* Diff lets through only what is not in the baseline, hence was not mailed.
LEMMA BookkeepingDiff ==
  ASSUME TypeOK, AlertBookkeeping, Diff
  PROVE  AlertBookkeeping'
<1>1. cur.login \in Logins /\ cur' = cur
  BY CurIsSnapshot DEF Diff, Proceed, TypeOK
<1>2. \A s \in found' : s \in Suspects /\ s \notin known[cur.login]
  BY DEF Diff, TypeOK, CronTypeOK
<1>3. \A s \in found' : told[cur.login][s] = 0
  BY <1>1, <1>2 DEF AlertBookkeeping
<1> QED BY <1>1, <1>3 DEF AlertBookkeeping, Diff, storeVars

\* Record promises only what was not mailed, and puts it into the baseline.
LEMMA BookkeepingRecord ==
  ASSUME TypeOK, AlertBookkeeping, Record
  PROVE  AlertBookkeeping'
<1>1. cur.login \in Logins /\ cpc' = "send" /\ told' = told
  BY CurIsSnapshot DEF Record, Proceed, TypeOK
<1>2. /\ known' = [known EXCEPT ![cur.login] = @ \cup found]
      /\ promised' = [promised EXCEPT ![cur.login] = @ \cup found]
  BY DEF Record, RecordClones
<1>3. \A s \in found : told[cur.login][s] = 0
  BY DEF Record, AlertBookkeeping
<1> QED BY <1>1, <1>2, <1>3 DEF AlertBookkeeping, TypeOK, StoreTypeOK

\* SendAlert counts only what was promised, hence was not mailed, and keeps it
\* from being due again.
LEMMA BookkeepingSend ==
  ASSUME TypeOK, AlertBookkeeping, SendAlert
  PROVE  AlertBookkeeping'
<1> DEFINE l == cur.login
           fulfilled == found \cap promised[l]
<1>1. l \in Logins /\ cpc' = "markRun" /\ known' = known
  BY CurIsSnapshot DEF SendAlert, Proceed, TypeOK
<1>2. /\ told' = [told EXCEPT ![l] = [s \in Suspects |->
                    IF s \in fulfilled THEN told[l][s] + 1 ELSE told[l][s]]]
      /\ promised' = [promised EXCEPT ![l] = @ \ found]
  BY DEF SendAlert
<1>3. ASSUME NEW s \in Suspects
      PROVE  /\ told'[l][s] \in {0, 1}
             /\ told'[l][s] = 1 => s \in known'[l]
             /\ s \in promised'[l] => s \in known'[l] /\ told'[l][s] = 0
  BY <1>1, <1>2 DEF AlertBookkeeping, TypeOK, StoreTypeOK
<1>4. ASSUME NEW m \in Logins, m # l
      PROVE  told'[m] = told[m] /\ promised'[m] = promised[m] /\ known'[m] = known[m]
  BY <1>1, <1>2, <1>4 DEF TypeOK, StoreTypeOK
<1> HIDE DEF l
<1> QED BY <1>1, <1>3, <1>4 DEF AlertBookkeeping

LEMMA BookkeepingStep ==
  ASSUME TypeOK, AlertBookkeeping, [Next]_vars
  PROVE  AlertBookkeeping'
<1>1. CASE RequestsMove
  BY <1>1, BookkeepingRequests DEF RequestsMove
<1>2. CASE CronMoves
  <2>1. CASE Deactivate
    <3>1. cur.login \in Logins /\ ClearChildren(cur.login) /\ cpc' = "next"
      BY <2>1, CurIsSnapshot DEF Deactivate, DeactivateSubscription, TypeOK
    <3> QED BY <3>1, BookkeepingCleared
  <2>2. CASE ~(Deactivate \/ Diff \/ Record \/ SendAlert)
    <3>1. UNCHANGED <<told, promised, known>> /\ cpc' # "record"
      BY <1>2, <2>2
         DEF CronMoves, CronNext, RunStep, ScanStep, StartRun, NextSubscriber, BudgetStop,
             RunDone, RunCrashes, EndOfRun, ProbeAccepted, ProbeRefused, TokenUnusable,
             ProbeFails, Abort, Search, RecordFails, SendFails, SendThrows, MarkRun, MarkScanned,
             Proceed, storeVars
    <3> QED BY <3>1, BookkeepingGrown
  <2> QED BY <2>1, <2>2, BookkeepingDiff, BookkeepingRecord, BookkeepingSend
<1>3. CASE UNCHANGED vars
  BY <1>3, BookkeepingGrown DEF vars, storeVars, cronVars
<1> QED BY <1>1, <1>2, <1>3 DEF Next

\* As long as a subscriber's baseline stands, no suspect is mailed about twice,
\* whatever crashes, failed mails, aborted scans, re-subscriptions and overlapping
\* requests come between the scans: the baseline is written before the mail.
THEOREM NoAlertTwice == Spec => []NoDuplicateAlert
<1>1. TypeOK /\ AlertBookkeeping /\ [Next]_vars => AlertBookkeeping'
  BY BookkeepingStep
<1>2. AlertBookkeeping => NoDuplicateAlert
  BY DEF AlertBookkeeping, NoDuplicateAlert
<1> QED BY <1>1, <1>2, BookkeepingInit, TypeCorrect, PTL DEF Spec

-----------------------------------------------------------------------------
(* 6. Quiescent erasure is complete *)

\* A login without a row and without a writer: the tables are empty, and the
\* scan, if there is one, has found nothing to watch.
Quiet(l) ==
  /\ watched[l] = {}
  /\ known[l] = {}
  /\ ~RequestWriting(l)
  /\ CronWriting(l) => cpc = "probe" /\ repos = {}

QuietLogins == \A l \in Logins : ~Active(l) /\ ~overlap[l] => Quiet(l)

LEMMA QuietIsNoWriter == QuietLogins <=> NoWriterWithoutRow
  BY DEF QuietLogins, Quiet, NoWriterWithoutRow

\* What a step may not do to a login: write for it, let a request write for it,
\* or let the scan find something to watch, unless the login is active again.
KeepsQuiet(l) == Quiet(l) /\ ~Active(l)' => Quiet(l)'

\* A login that goes dormant: no writer is in flight when its row is switched
\* off, and its tables are cleared.
GoesQuiet(l) == Active(l) /\ ~Active(l)' /\ ~WriterInFlight(l) => Quiet(l)'

LEMMA QuietStep ==
  ASSUME TypeOK, QuietLogins, TrackOverlap,
         \A l \in Logins : KeepsQuiet(l) /\ GoesQuiet(l)
  PROVE  QuietLogins'
<1> SUFFICES ASSUME NEW l \in Logins, ~Active(l)', ~overlap'[l]
             PROVE  Quiet(l)'
  BY DEF QuietLogins
<1>1. CASE Active(l)
  <2>1. ~WriterInFlight(l)
    BY <1>1 DEF TrackOverlap
  <2> QED BY <1>1, <2>1 DEF GoesQuiet
<1>2. CASE ~Active(l)
  <2>1. ~overlap[l]
    BY <1>2 DEF TrackOverlap
  <2> QED BY <1>2, <2>1 DEF QuietLogins, KeepsQuiet
<1> QED BY <1>1, <1>2

\* Clearing the tables of l keeps every login quiet, if nobody starts writing.
LEMMA ClearedIsQuiet ==
  ASSUME TypeOK, NEW l \in Logins, ClearChildren(l),
         \A m \in Logins : m # l => sub'[m] = sub[m],
         \A m \in Logins : RequestWriting(m)' => RequestWriting(m),
         \A m \in Logins : CronWriting(m)' => CronWriting(m),
         cpc = "probe" /\ repos = {} => (cpc = "probe" /\ repos = {})' \/ cpc' = "next"
  PROVE  \A m \in Logins : KeepsQuiet(m) /\ GoesQuiet(m)
<1> SUFFICES ASSUME NEW m \in Logins PROVE KeepsQuiet(m) /\ GoesQuiet(m)
  OBVIOUS
<1>1. CASE m = l
  <2>1. watched'[m] = {} /\ known'[m] = {}
    BY <1>1 DEF ClearChildren, TypeOK, StoreTypeOK
  <2> QED BY <2>1 DEF KeepsQuiet, GoesQuiet, Quiet, WriterInFlight, CronWriting
<1>2. CASE m # l
  <2>1. /\ watched'[m] = watched[m] /\ known'[m] = known[m]
        /\ Active(m)' <=> Active(m)
    BY <1>2 DEF ClearChildren, TypeOK, StoreTypeOK, Active, HasRow
  <2> QED BY <2>1 DEF KeepsQuiet, GoesQuiet, Quiet, CronWriting
<1> QED BY <1>1, <1>2

\* A step that touches none of it.
LEMMA StillQuiet ==
  ASSUME \A m \in Logins : ~Active(m)' => ~Active(m),
         \A m \in Logins : ~Active(m)' /\ Quiet(m) =>
            /\ watched'[m] = watched[m]
            /\ known'[m] = known[m]
            /\ RequestWriting(m)' => RequestWriting(m)
            /\ CronWriting(m)' => cpc' = "probe" /\ repos' = {}
  PROVE  \A m \in Logins : KeepsQuiet(m) /\ GoesQuiet(m)
  BY DEF KeepsQuiet, GoesQuiet, Quiet

\* The statements that mark a row, or let its link expire, leave active alone.
LEMMA SameActive ==
  ASSUME StoreTypeOK, NEW l \in Logins,
         \/ sub' = sub
         \/ MarkVerified(l)
         \/ \E d \in Nat : SetLastRun(l, d) \/ SetLastScanned(l, d)
         \/ LinkExpires(l)
  PROVE  \A m \in Logins : Active(m)' <=> Active(m)
<1>1. CASE sub' = sub
  BY <1>1 DEF Active, HasRow
<1>2. ASSUME NEW row, HasRow(l) => row # None /\ row.active = sub[l].active,
             UpdateRow(l, row)
      PROVE  \A m \in Logins : Active(m)' <=> Active(m)
  BY <1>2 DEF UpdateRow, Active, HasRow, StoreTypeOK
<1>3. \A row \in SubRow : row # None
  BY NoneAssumption
<1>4. CASE MarkVerified(l)
  <2> DEFINE row == [sub[l] EXCEPT !.verified = TRUE, !.link = None, !.expiry = "never"]
  <2>1. HasRow(l) => row \in SubRow /\ row.active = sub[l].active
    BY RowIs DEF SubRow, Expiry
  <2> HIDE DEF row
  <2> QED BY <1>2, <1>3, <1>4, <2>1 DEF MarkVerified, row
<1>5. ASSUME NEW d \in Nat, SetLastRun(l, d)
      PROVE  \A m \in Logins : Active(m)' <=> Active(m)
  <2> DEFINE row == [sub[l] EXCEPT !.lastRun = d]
  <2>1. HasRow(l) => row \in SubRow /\ row.active = sub[l].active
    BY RowIs DEF SubRow
  <2> HIDE DEF row
  <2> QED BY <1>2, <1>3, <1>5, <2>1 DEF SetLastRun, row
<1>6. ASSUME NEW d \in Nat, SetLastScanned(l, d)
      PROVE  \A m \in Logins : Active(m)' <=> Active(m)
  <2> DEFINE row == [sub[l] EXCEPT !.lastScanned = d]
  <2>1. HasRow(l) => row \in SubRow /\ row.active = sub[l].active
    BY RowIs DEF SubRow
  <2> HIDE DEF row
  <2> QED BY <1>2, <1>3, <1>6, <2>1 DEF SetLastScanned, row
<1>7. CASE LinkExpires(l)
  <2> DEFINE row == [sub[l] EXCEPT !.expiry = "past"]
  <2>1. HasRow(l) => row \in SubRow /\ row.active = sub[l].active
    BY RowIs DEF SubRow, Expiry
  <2> HIDE DEF row
  <2> QED BY <1>2, <1>3, <1>7, <2>1 DEF LinkExpires, row
<1> QED BY <1>1, <1>4, <1>5, <1>6, <1>7

\* A request that goes on, or ends, without becoming a writer.
LEMMA NoNewWriter ==
  ASSUME TypeOK, NEW r \in Reqs, NEW q \in Request, Continue(r, q),
         q.pc \in SubscribeWriting =>
           req[r].pc \in SubscribeWriting /\ q.login = req[r].login
  PROVE  \A m \in Logins : RequestWriting(m)' => RequestWriting(m)
  BY DEF RequestWriting, Continue, TypeOK, RequestTypeOK

LEMMA QuietRequests ==
  ASSUME TypeOK, RequestNext, UNCHANGED cronVars
  PROVE  \A m \in Logins : KeepsQuiet(m) /\ GoesQuiet(m)
<1> DEFINE Goal == \A m \in Logins : KeepsQuiet(m) /\ GoesQuiet(m)
<1>0. cpc' = cpc /\ cur' = cur /\ repos' = repos
  BY DEF cronVars
<1>a. \A m \in Logins : CronWriting(m)' <=> CronWriting(m)
  BY <1>0 DEF CronWriting
<1>b. ASSUME \A m \in Logins : Active(m)' <=> Active(m),
             \A m \in Logins : Quiet(m) => watched'[m] = watched[m] /\ known'[m] = known[m],
             \A m \in Logins : RequestWriting(m)' => RequestWriting(m)
      PROVE  Goal
  BY <1>0, <1>a, <1>b, StillQuiet DEF Quiet
<1>c. ASSUME NEW l \in Logins,
             DeactivateSubscription(l) \/ DeleteAlertData(l),
             \A m \in Logins : RequestWriting(m)' => RequestWriting(m)
      PROVE  Goal
  <2>1. ClearChildren(l) /\ \A m \in Logins : m # l => sub'[m] = sub[m]
    BY <1>c DEF DeactivateSubscription, DeleteAlertData, UpdateRow, TypeOK, StoreTypeOK
  <2> QED BY <1>0, <1>a, <1>c, <2>1, ClearedIsQuiet
<1>1. CASE AccountChanges
  <2>1. (req' = req) /\ \A m \in Logins : RequestWriting(m)' => RequestWriting(m)
    BY <1>1 DEF AccountChanges, SignIn, SessionEnds, RevokeGrant, Suspend, Unsuspend,
                EmailUnsubscribe, requestVars, RequestWriting
  <2>2. ASSUME NEW l \in Logins, EmailUnsubscribe(l) PROVE Goal
    BY <1>c, <2>1, <2>2 DEF EmailUnsubscribe
  <2>3. ASSUME NEW l \in Logins, LinkExpires(l) PROVE Goal
    BY <1>b, <2>1, <2>3, SameActive DEF LinkExpires, TypeOK
  <2>4. CASE ~\E l \in Logins : EmailUnsubscribe(l) \/ LinkExpires(l)
    <3>1. UNCHANGED <<sub, watched, known>>
      BY <1>1, <2>4 DEF AccountChanges, SignIn, SessionEnds, RevokeGrant, Suspend,
                        Unsuspend, storeVars
    <3> QED BY <1>b, <2>1, <3>1 DEF Active, HasRow
  <2> QED BY <2>2, <2>3, <2>4
<1>2. ASSUME NEW r \in Reqs,
             RequestArrives(r) \/ RequestFails(r) \/ EnsureUser(r) \/ RevokeToken(r)
               \/ ListRepos(r) \/ SearchBaseline(r) \/ MailLink(r)
      PROVE  Goal
  <2>1. UNCHANGED <<sub, watched, known>>
    BY <1>2 DEF RequestArrives, FollowLink, StartSubscribe, StartCancel, StartDelete,
                Authenticate, RequestFails, EnsureUser, RevokeToken, ListRepos,
                SearchBaseline, MailLink, storeVars
  <2>2. \A s \in Reqs : s # r => req'[s] = req[s]
    BY <1>2 DEF RequestArrives, FollowLink, StartSubscribe, StartCancel, StartDelete,
                Authenticate, RequestFails, EnsureUser, RevokeToken, ListRepos,
                SearchBaseline, MailLink, Respond, Goto, Continue, TypeOK, RequestTypeOK
  <2>3. req'[r].pc \in SubscribeWriting =>
          req[r].pc \in SubscribeWriting /\ req'[r].login = req[r].login
    <3>1. req[r] \in Request
      BY DEF TypeOK, RequestTypeOK
    <3>2. CASE RequestArrives(r)
      <4>1. CASE FollowLink(r)
        <5>1. req'[r].pc = "confirm"
          BY <4>1 DEF FollowLink, Continue, NoRequest, TypeOK, RequestTypeOK
        <5> QED BY <5>1 DEF SubscribeWriting
      <4>2. CASE \E l \in Logins : StartSubscribe(r, l) \/ StartCancel(r, l) \/ StartDelete(r, l)
        <5>1. req'[r].pc = "ensure"
          BY <4>2 DEF StartSubscribe, StartCancel, StartDelete, Authenticate, Continue,
                      NoRequest, TypeOK, RequestTypeOK
        <5> QED BY <5>1 DEF SubscribeWriting
      <4> QED BY <3>2, <4>1, <4>2 DEF RequestArrives
    <3>3. CASE RequestFails(r) \/ MailLink(r)
      BY <3>3 DEF RequestFails, MailLink, Respond, Continue, NoRequest, SubscribeWriting,
                  TypeOK, RequestTypeOK
    <3>4. CASE EnsureUser(r)
      <4>1. req[r].kind \in {"subscribe", "cancel", "delete"}
        BY <3>4 DEF EnsureUser, At, TypeOK, RequestLocals, LocalsOK
      <4>2. CASE Respond(r)
        BY <4>2 DEF Respond, Continue, NoRequest, SubscribeWriting, TypeOK, RequestTypeOK
      <4>3. CASE Goto(r, FirstStep(req[r].kind))
        <5>1. req'[r].pc = FirstStep(req[r].kind)
          BY <3>1, <4>3 DEF Goto, Continue, TypeOK, RequestTypeOK, Request
        <5> QED BY <4>1, <5>1, FirstStepType DEF SubscribeWriting
      <4> QED BY <3>4, <4>2, <4>3 DEF EnsureUser
    <3>5. CASE RevokeToken(r)
      <4>1. \/ req' = [req EXCEPT ![r] = [req[r] EXCEPT !.pc = "erase", !.revoked = TRUE]]
            \/ req' = [req EXCEPT ![r] = [req[r] EXCEPT !.pc = "erase"]]
        BY <3>5 DEF RevokeToken, Goto, Continue
      <4>2. req'[r] \in {[req[r] EXCEPT !.pc = "erase", !.revoked = TRUE],
                         [req[r] EXCEPT !.pc = "erase"]}
        BY <4>1 DEF TypeOK, RequestTypeOK
      <4>3. req'[r].pc = "erase"
        BY <3>1, <4>2 DEF Request
      <4> QED BY <4>3 DEF SubscribeWriting
    <3>6. CASE ListRepos(r)
      BY <3>1, <3>6 DEF ListRepos, At, Continue, SubscribeWriting, TypeOK, RequestTypeOK,
                        Request
    <3>7. CASE SearchBaseline(r)
      BY <3>1, <3>7 DEF SearchBaseline, At, Continue, SubscribeWriting, TypeOK,
                        RequestTypeOK, Request
    <3> QED BY <1>2, <3>2, <3>3, <3>4, <3>5, <3>6, <3>7
  <2>4. \A m \in Logins : RequestWriting(m)' => RequestWriting(m)
    BY <2>2, <2>3 DEF RequestWriting
  <2> QED BY <1>b, <2>1, <2>4 DEF Active, HasRow
<1>3. ASSUME NEW r \in Reqs, ClearWatched(r) \/ FillWatched(r) \/ SeedBaseline(r)
      PROVE  Goal
  <2>1. sub' = sub /\ RequestWriting(req[r].login) /\ req[r].login \in Logins
    BY <1>3 DEF ClearWatched, FillWatched, SeedBaseline, At, RequestWriting,
                SubscribeWriting, TypeOK, RequestLocals, LocalsOK
  <2>2. \A m \in Logins : m # req[r].login => watched'[m] = watched[m] /\ known'[m] = known[m]
    BY <1>3 DEF ClearWatched, FillWatched, SeedBaseline, DeleteWatched, InsertWatched,
                RecordClones, TypeOK, StoreTypeOK
  <2>3. \E pc \in Steps : Goto(r, pc)
    BY <1>3 DEF ClearWatched, FillWatched, SeedBaseline, Steps, SubscribeWriting
  <2>4. \A m \in Logins : RequestWriting(m)' => RequestWriting(m)
    <3>1. req[r] \in Request
      BY DEF TypeOK, RequestTypeOK
    <3>2. PICK pc \in Steps : req' = [req EXCEPT ![r] = [req[r] EXCEPT !.pc = pc]]
      BY <2>3 DEF Goto, Continue
    <3>3. req'[r].login = req[r].login /\ \A s \in Reqs : s # r => req'[s] = req[s]
      BY <3>1, <3>2 DEF Request, TypeOK, RequestTypeOK
    <3> QED BY <2>1, <3>3 DEF RequestWriting
  <2> QED BY <1>b, <2>1, <2>2, <2>4 DEF Quiet, Active, HasRow
<1>4. ASSUME NEW r \in Reqs, Confirm(r) PROVE Goal
  <2>1. req[r].login \in Logins
    BY <1>4 DEF Confirm, At, TypeOK, RequestLocals, LocalsOK
  <2>2. \A m \in Logins : RequestWriting(m)' => RequestWriting(m)
    BY <1>4, NoRequestType, NoNewWriter
       DEF Confirm, Respond, NoRequest, SubscribeWriting
  <2> QED BY <1>4, <1>b, <2>1, <2>2, SameActive DEF Confirm, TypeOK
<1>5. ASSUME NEW r \in Reqs, Cancel(r) \/ Erase(r) PROVE Goal
  <2>1. req[r].login \in Logins
    BY <1>5 DEF Cancel, Erase, At, TypeOK, RequestLocals, LocalsOK
  <2>2. \A m \in Logins : RequestWriting(m)' => RequestWriting(m)
    BY <1>5, NoRequestType, NoNewWriter
       DEF Cancel, Erase, Respond, NoRequest, SubscribeWriting
  <2> QED BY <1>5, <1>c, <2>1, <2>2 DEF Cancel, Erase
<1>6. ASSUME NEW r \in Reqs, Upsert(r) PROVE Goal
  <2>1. PICK l \in Logins : l = req[r].login
    BY <1>6 DEF Upsert, At, TypeOK, RequestLocals, LocalsOK
  <2>2. UNCHANGED <<watched, known>>
    BY <1>6 DEF Upsert
  <2>3. Active(l)' /\ \A m \in Logins : m # l => (Active(m)' <=> Active(m))
    <3>1. PICK k \in Links : UpsertSubscription(l, req[r].email, req[r].token, k)
      BY <1>6, <2>1 DEF Upsert
    <3>2. sub'[l] = [email |-> req[r].email, token |-> req[r].token, active |-> TRUE,
                     verified |-> FALSE, link |-> k, expiry |-> "future",
                     lastRun |-> Never, lastScanned |-> Never]
      BY <2>1, <3>1 DEF UpsertSubscription, TypeOK, StoreTypeOK
    <3>3. sub'[l] # None
      <4>1. req[r].email \in Emails /\ req[r].token \in Tokens
        BY <1>6 DEF Upsert, At, TypeOK, RequestLocals, LocalsOK, Subscribing
      <4>2. sub'[l] \in SubRow
        BY <3>2, <4>1 DEF SubRow, Expiry, Never
      <4> QED BY <4>2, NoneAssumption
    <3>4. \A m \in Logins : m # l => sub'[m] = sub[m]
      BY <2>1, <3>1 DEF UpsertSubscription, TypeOK, StoreTypeOK
    <3>5. sub'[l].active = TRUE
      BY <3>2
    <3>6. Active(l)'
      BY <3>3, <3>5 DEF Active, HasRow
    <3>7. ASSUME NEW m \in Logins, m # l PROVE Active(m)' <=> Active(m)
      BY <3>4, <3>7 DEF Active, HasRow
    <3> QED BY <3>6, <3>7
  <2>4. \A m \in Logins : m # l => (RequestWriting(m)' => RequestWriting(m))
    <3>1. PICK k \in Links : req' = [req EXCEPT ![r] = [req[r] EXCEPT !.pc = "list", !.link = k]]
      BY <1>6 DEF Upsert, Continue
    <3>2. req'[r].login = l /\ \A s \in Reqs : s # r => req'[s] = req[s]
      BY <2>1, <3>1 DEF TypeOK, RequestTypeOK, Request
    <3> QED BY <3>2 DEF RequestWriting
  <2>5. \A m \in Logins : ~Active(m)' => ~Active(m)
    BY <2>3
  <2>6. ASSUME NEW m \in Logins, ~Active(m)', Quiet(m)
        PROVE  /\ watched'[m] = watched[m]
               /\ known'[m] = known[m]
               /\ RequestWriting(m)' => RequestWriting(m)
               /\ CronWriting(m)' => cpc' = "probe" /\ repos' = {}
    <3>1. m # l
      BY <2>3, <2>6
    <3> QED BY <1>0, <1>a, <2>2, <2>4, <2>6, <3>1 DEF Quiet
  <2> QED BY <2>5, <2>6, StillQuiet
<1> QED BY <1>1, <1>2, <1>3, <1>4, <1>5, <1>6 DEF RequestNext, RequestStep

LEMMA QuietCron ==
  ASSUME TypeOK, NEW valid \in BOOLEAN, CronNext(valid), UNCHANGED requestVars
  PROVE  \A m \in Logins : KeepsQuiet(m) /\ GoesQuiet(m)
<1> DEFINE Goal == \A m \in Logins : KeepsQuiet(m) /\ GoesQuiet(m)
<1>0. \A m \in Logins : RequestWriting(m)' <=> RequestWriting(m)
  BY DEF requestVars, RequestWriting
<1>a. ASSUME \A m \in Logins : Active(m)' <=> Active(m),
             \A m \in Logins : Quiet(m) =>
               /\ watched'[m] = watched[m]
               /\ known'[m] = known[m]
               /\ CronWriting(m)' => cpc' = "probe" /\ repos' = {}
      PROVE  Goal
  BY <1>0, <1>a, StillQuiet
<1>1. CASE StartRun \/ BudgetStop \/ RunDone \/ RunCrashes \/ ProbeRefused(valid)
           \/ TokenUnusable \/ ProbeFails \/ RecordFails \/ SendAlert \/ SendFails \/ SendThrows
  <2>1. UNCHANGED <<sub, watched, known>>
    BY <1>1 DEF StartRun, BudgetStop, RunDone, RunCrashes, EndOfRun, ProbeRefused,
                TokenUnusable, ProbeFails, RecordFails, Abort, SendAlert, SendFails, SendThrows,
                storeVars
  <2>2. cpc' \notin {"probe", "search", "diff", "record"}
    BY <1>1 DEF StartRun, BudgetStop, RunDone, RunCrashes, EndOfRun, ProbeRefused,
                TokenUnusable, ProbeFails, RecordFails, Abort, SendAlert, SendFails, SendThrows,
                Proceed
  <2> QED BY <1>a, <2>1, <2>2 DEF CronWriting, Active, HasRow
<1>2. CASE NextSubscriber
  <2>1. UNCHANGED <<sub, watched, known>> /\ cpc' = "probe"
    BY <1>2 DEF NextSubscriber, storeVars
  <2>2. repos' = watched[cur'.login]
    BY <1>2 DEF NextSubscriber
  <2>3. ASSUME NEW m \in Logins, Quiet(m), CronWriting(m)'
        PROVE  cpc' = "probe" /\ repos' = {}
    BY <2>1, <2>2, <2>3 DEF Quiet, CronWriting
  <2> QED BY <1>a, <2>1, <2>3 DEF Active, HasRow
<1>3. CASE ProbeAccepted(valid) \/ Search \/ Diff \/ Record
  <2>1. sub' = sub /\ watched' = watched /\ cur' = cur
    BY <1>3 DEF ProbeAccepted, Search, Diff, Record, Proceed, storeVars
  <2>2. CASE cpc = "probe" /\ repos = {}
    <3>1. known' = known /\ cpc' = "markRun"
      BY <1>3, <2>2 DEF ProbeAccepted, Search, Diff, Record, Proceed, storeVars
    <3> QED BY <1>a, <2>1, <3>1 DEF CronWriting, Active, HasRow
  <2>3. CASE ~(cpc = "probe" /\ repos = {})
    <3>1. CronWriting(cur.login)
      BY <1>3 DEF ProbeAccepted, Search, Diff, Record, CronWriting
    <3>2. \A m \in Logins : Quiet(m) => m # cur.login
      BY <2>3, <3>1 DEF Quiet
    <3>3. \A m \in Logins : m # cur.login => known'[m] = known[m] /\ ~CronWriting(m)'
      BY <1>3, <2>1 DEF ProbeAccepted, Search, Diff, Record, RecordClones, CronWriting,
                        storeVars, TypeOK, StoreTypeOK
    <3> QED BY <1>a, <2>1, <3>2, <3>3 DEF Active, HasRow
  <2> QED BY <2>2, <2>3
<1>4. CASE MarkRun \/ MarkScanned
  <2>1. UNCHANGED <<watched, known>> /\ cpc' \notin {"probe", "search", "diff", "record"}
    BY <1>4 DEF MarkRun, MarkScanned, Proceed
  <2>2. \A m \in Logins : Active(m)' <=> Active(m)
    BY <1>4, CurIsSnapshot, SameActive DEF MarkRun, MarkScanned, TypeOK, CronTypeOK
  <2> QED BY <1>a, <2>1, <2>2 DEF CronWriting
<1>5. CASE Deactivate
  <2>1. cur.login \in Logins /\ cpc' = "next" /\ ClearChildren(cur.login)
    BY <1>5, CurIsSnapshot DEF Deactivate, DeactivateSubscription, TypeOK
  <2>2. \A m \in Logins : m # cur.login => sub'[m] = sub[m]
    BY <1>5, <2>1 DEF Deactivate, DeactivateSubscription, UpdateRow, TypeOK, StoreTypeOK
  <2>3. \A m \in Logins : CronWriting(m)' => CronWriting(m)
    BY <2>1 DEF CronWriting
  <2> QED BY <1>0, <2>1, <2>2, <2>3, ClearedIsQuiet
<1> QED BY <1>1, <1>2, <1>3, <1>4, <1>5 DEF CronNext, RunStep, ScanStep

LEMMA NoWriterStep ==
  ASSUME TypeOK, NoWriterWithoutRow, [Next]_vars
  PROVE  NoWriterWithoutRow'
<1>0. QuietLogins
  BY QuietIsNoWriter
<1>1. CASE RequestsMove
  <2>1. QuietLogins'
    BY <1>0, <1>1, QuietRequests, QuietStep DEF RequestsMove
  <2> QED BY <2>1 DEF QuietLogins, Quiet, NoWriterWithoutRow
<1>2. CASE CronMoves
  <2>1. TokenAccepted \in BOOLEAN
    BY DEF TokenAccepted
  <2>2. QuietLogins'
    BY <1>0, <1>2, <2>1, QuietCron, QuietStep DEF CronMoves
  <2> QED BY <2>2 DEF QuietLogins, Quiet, NoWriterWithoutRow
<1>3. CASE UNCHANGED vars
  BY <1>3 DEF vars, storeVars, requestVars, cronVars, historyVars, NoWriterWithoutRow,
              Active, HasRow, RequestWriting, CronWriting
<1> QED BY <1>1, <1>2, <1>3 DEF Next

\* Unsubscribing and erasure are complete for good, however requests and scans
\* interleave, unless a subscribe request or the scan of that login was in flight
\* at that moment: nobody else can write the child tables of a dormant login.
THEOREM QuietErasureIsComplete == Spec => []QuiescentErasureIsComplete
<1>1. Init => NoWriterWithoutRow
  BY DEF Init, StoreInit, RequestInit, CronInit, NoWriterWithoutRow, RequestWriting,
         CronWriting, NoRequest, SubscribeWriting
<1>2. TypeOK /\ NoWriterWithoutRow /\ [Next]_vars => NoWriterWithoutRow'
  BY NoWriterStep
<1>3. NoWriterWithoutRow => QuiescentErasureIsComplete
  BY DEF NoWriterWithoutRow, QuiescentErasureIsComplete
<1> QED BY <1>1, <1>2, <1>3, TypeCorrect, PTL DEF Spec

-----------------------------------------------------------------------------
(* 7. Alerts stop within one run *)

LEMMA ShardStep ==
  ASSUME TypeOK, ShardWasOwedAlerts, [Next]_vars
  PROVE  ShardWasOwedAlerts'
<1> USE DEF ShardWasOwedAlerts
<1>1. CASE RequestsMove \/ UNCHANGED vars
  BY <1>1 DEF RequestsMove, vars, cronVars, historyVars
<1>2. CASE CronMoves /\ StartRun
  <2>1. PICK B \in SUBSET ScannableLogins : todo' = {SnapshotOf(l) : l \in B}
    BY <1>2 DEF StartRun
  <2>2. cur' = None /\ entitled' = OwedAlerts
    BY <1>2 DEF CronMoves, StartRun, TrackRun, TypeOK, CronTypeOK
  <2>3. \A l \in B : [login |-> l, email |-> sub[l].email] \in OwedAlerts
    BY <2>1 DEF ScannableLogins, Scannable, OwedAlerts
  <2>4. \A s \in todo' : [login |-> s.login, email |-> s.email] \in OwedAlerts
    <3> SUFFICES ASSUME NEW l \in B
                 PROVE  [login |-> SnapshotOf(l).login, email |-> SnapshotOf(l).email]
                          \in OwedAlerts
      BY <2>1
    <3> QED BY <2>3 DEF SnapshotOf
  <2> QED BY <2>2, <2>4
<1>3. CASE CronMoves /\ cpc' = "idle"
  <2>1. todo' = {} /\ cur' = None
    BY <1>3 DEF CronMoves, CronNext, RunStep, ScanStep, StartRun, NextSubscriber,
                BudgetStop, RunDone, RunCrashes, EndOfRun, ProbeAccepted, ProbeRefused,
                TokenUnusable, ProbeFails, Abort, Deactivate, Search, Diff, Record,
                RecordFails, SendAlert, SendFails, SendThrows, MarkRun, MarkScanned, Proceed
  <2> QED BY <2>1
<1>4. CASE CronMoves /\ ~StartRun /\ cpc' # "idle"
  <2>1. cpc # "idle" /\ entitled' = entitled
    BY <1>4 DEF CronMoves, CronNext, RunStep, ScanStep, NextSubscriber,
                BudgetStop, RunDone, RunCrashes, EndOfRun, ProbeAccepted, ProbeRefused,
                TokenUnusable, ProbeFails, Abort, Deactivate, Search, Diff, Record,
                RecordFails, SendAlert, SendFails, SendThrows, MarkRun, MarkScanned, Proceed, TrackRun
  <2>2. todo' \subseteq todo /\ cur' \in todo \cup {cur, None}
    BY <1>4 DEF CronMoves, CronNext, RunStep, ScanStep, NextSubscriber,
                BudgetStop, RunDone, RunCrashes, EndOfRun, ProbeAccepted, ProbeRefused,
                TokenUnusable, ProbeFails, Abort, Deactivate, Search, Diff, Record,
                RecordFails, SendAlert, SendFails, SendThrows, MarkRun, MarkScanned, Proceed
  <2> QED BY <2>1, <2>2
<1> QED BY <1>1, <1>2, <1>3, <1>4 DEF Next

\* The five parts of the inductive invariant hold together.
THEOREM InductiveInvariant == Spec => []IInv
<1>1. Init => AlertBookkeeping /\ NoWriterWithoutRow /\ ShardWasOwedAlerts
  BY BookkeepingInit
     DEF Init, StoreInit, RequestInit, CronInit, NoWriterWithoutRow, RequestWriting,
         CronWriting, NoRequest, SubscribeWriting, ShardWasOwedAlerts
<1>2. TypeOK /\ AlertBookkeeping /\ [Next]_vars => AlertBookkeeping'
  BY BookkeepingStep
<1>3. TypeOK /\ NoWriterWithoutRow /\ [Next]_vars => NoWriterWithoutRow'
  BY NoWriterStep
<1>4. TypeOK /\ ShardWasOwedAlerts /\ [Next]_vars => ShardWasOwedAlerts'
  BY ShardStep
<1>5. TypeOK /\ DormantRowIsWiped /\ ConfirmedRowHasNoLink /\ AlertBookkeeping
        /\ NoWriterWithoutRow /\ ShardWasOwedAlerts <=> IInv
  BY DEF IInv
<1> QED BY <1>1, <1>2, <1>3, <1>4, <1>5, TypeCorrect, DormantRowsAreWiped,
           ConfirmedRowsHaveNoLink, PTL DEF Spec

\* An alert goes only to someone who was active, verified and not suspended when
\* the run began, at the address of that moment: whoever unsubscribes, is
\* suspended or changes the address before a run is not mailed in that run.
THEOREM AlertsStopWithinOneRun == Spec => StopsWithinOneRun
<1>1. ASSUME TypeOK, ShardWasOwedAlerts, SendAlert
      PROVE  [login |-> cur.login, email |-> cur.email] \in entitled
  BY <1>1, CurIsSnapshot DEF SendAlert, TypeOK, CronTypeOK, ShardWasOwedAlerts
<1>2. TypeOK /\ ShardWasOwedAlerts /\ [Next]_vars
        => [SendAlert => [login |-> cur.login, email |-> cur.email] \in entitled]_vars
  BY <1>1
<1>3. IInv => TypeOK /\ ShardWasOwedAlerts
  BY DEF IInv
<1> QED BY <1>2, <1>3, InductiveInvariant, PTL DEF Spec, StopsWithinOneRun
=============================================================================
