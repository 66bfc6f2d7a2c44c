--------------------------- MODULE AdminRolesProofs ---------------------------
(***************************************************************************)
(* Proofs about AdminRoles, for any logins, any permanent administrators,  *)
(* any number of requests in flight and of audit rows.                     *)
(*                                                                         *)
(*   1. types                                                              *)
(*   2. what an audit row adds                                             *)
(*   3. the audit table explains the users table                           *)
(*   4. decisions that were made and not yet written                       *)
(***************************************************************************)
EXTENDS AdminRoles, SequenceTheorems, TLAPS

Births == \A l \in Logins : birth[l].at <= Len(log)

\* The entry of a request.
EntryOf(q) == [by |-> q.actor, what |-> q.what, target |-> q.target]

-----------------------------------------------------------------------------
(* 1. Types *)

LEMMA NoneApart == None \notin UserRow /\ None \notin InFlight /\ None \notin Logins
BY NoneIsNoRow

LEMMA UpdatedType ==
  ASSUME NEW q \in InFlight, NEW row \in UserRow
  PROVE  Updated(q, row) \in UserRow
<1>1. q.actor \in Logins /\ q.what \in Actions BY DEF InFlight
<1>2. CASE q.what = "suspend" BY <1>1, <1>2 DEF Updated, UserRow
<1>3. CASE q.what = "unsuspend" BY <1>1, <1>3 DEF Updated, UserRow
<1>4. CASE q.what \in Roles
  BY <1>1, <1>4 DEF Updated, UserRow, Roles
<1> QED BY <1>1, <1>2, <1>3, <1>4 DEF Actions

LEMMA TypeStep == TypeOK /\ [Next]_vars => TypeOK'
<1> SUFFICES ASSUME TypeOK, [Next]_vars PROVE TypeOK'
  OBVIOUS
<1>n. Len(log) \in Nat BY LenProperties DEF TypeOK
<1>c. ASSUME NEW l \in Logins, Create(l)
      PROVE  users' \in [Logins -> UserRow \cup {None}] /\ birth' \in [Logins -> Birth]
  <2>1. InitialRole(l) \in Roles BY DEF InitialRole, Roles
  <2>2. [role |-> InitialRole(l), by |-> None] \in UserRow BY <2>1 DEF UserRow
  <2>3. [at |-> Len(log), role |-> InitialRole(l)] \in Birth BY <1>n, <2>1 DEF Birth
  <2> QED BY <1>c, <2>2, <2>3 DEF Create, TypeOK
<1>1. ASSUME NEW l \in Logins, SignIn(l) PROVE TypeOK'
  <2>1. CASE users[l] = None /\ Create(l)
    BY <1>1, <1>c, <2>1 DEF SignIn, TypeOK
  <2>2. CASE users[l] # None /\ users' = [users EXCEPT ![l] = Promoted(l, @)]
             /\ UNCHANGED birth
    <3>1. users[l] \in UserRow BY <2>2 DEF TypeOK
    <3>2. Promoted(l, users[l]) \in UserRow
      BY <3>1 DEF Promoted, UserRow, Roles
    <3> QED BY <1>1, <2>2, <3>2 DEF SignIn, TypeOK
  <2> QED BY <1>1, <2>1, <2>2 DEF SignIn
<1>2. ASSUME NEW l \in Logins, Visit(l) PROVE TypeOK'
  BY <1>2, <1>c DEF Visit, EnsureUser, TypeOK
<1>3. ASSUME NEW l \in Logins, EraseUser(l) PROVE TypeOK'
  BY <1>3 DEF EraseUser, TypeOK, Birth, Roles
<1>4. ASSUME NEW r \in Requests, NEW l \in Logins, NEW target \in Logins,
             NEW what \in Actions, Start(r, l, what, target)
      PROVE  TypeOK'
  <2>1. [pc |-> "read", actor |-> l, what |-> what, target |-> target, seen |-> 0]
          \in InFlight
    BY DEF InFlight
  <2> QED BY <1>4, <1>c, <2>1 DEF Start, EnsureUser, TypeOK
<1>5. ASSUME NEW r \in Requests, ReadTarget(r) PROVE TypeOK'
  <2>1. req[r] \in InFlight BY <1>5 DEF ReadTarget, TypeOK
  <2>2. AfterRead(req[r]) \in InFlight BY <1>n, <2>1 DEF AfterRead, InFlight
  <2> QED BY <1>5, <2>2 DEF ReadTarget, TypeOK
<1>6. ASSUME NEW r \in Requests, Write(r) PROVE TypeOK'
  <2>1. req[r] \in InFlight BY <1>6 DEF Write, TypeOK
  <2>2. EntryOf(req[r]) \in Entry /\ req[r].target \in Logins
    BY <2>1 DEF EntryOf, Entry, InFlight
  <2>3. log' = Append(log, EntryOf(req[r])) BY <1>6 DEF Write, EntryOf
  <2>4. log' \in Seq(Entry)
    <3>1. log \in Seq(Entry) BY DEF TypeOK
    <3> QED BY <2>2, <2>3, <3>1
  <2>5. users[req[r].target] # None =>
          Updated(req[r], users[req[r].target]) \in UserRow
    BY <2>1, <2>2, UpdatedType DEF TypeOK
  <2>6. users' \in [Logins -> UserRow \cup {None}]
    BY <1>6, <2>5 DEF Write, TypeOK
  <2> QED BY <1>6, <2>4, <2>6 DEF Write, TypeOK
<1>7. ASSUME NEW r \in Requests, Fails(r) PROVE TypeOK'
  BY <1>7 DEF Fails, TypeOK
<1>8. CASE UNCHANGED vars BY <1>8 DEF vars, TypeOK
<1> QED BY <1>1, <1>2, <1>3, <1>4, <1>5, <1>6, <1>7, <1>8 DEF Next

LEMMA TypeInit == Init => TypeOK
<1> SUFFICES ASSUME Init PROVE TypeOK
  OBVIOUS
<1>1. users \in [Logins -> UserRow \cup {None}] BY DEF Init, UserRow
<1>2. \A l \in Logins :
        [at |-> 0, role |-> IF users[l] = None THEN "user" ELSE users[l].role] \in Birth
  BY <1>1 DEF Birth, Roles, UserRow
<1>3. log \in Seq(Entry) BY DEF Init
<1> QED BY <1>1, <1>2, <1>3 DEF Init, TypeOK

\* Roles, authors and targets stay what the tables may hold (users/store.ts).
THEOREM AdminTypeCorrect == Spec => []TypeOK
BY TypeInit, TypeStep, PTL DEF Spec

-----------------------------------------------------------------------------
(* 2. What an audit row adds *)

\* Every step other than a batch leaves the audit table alone.
LEMMA LogGrows ==
  ASSUME TypeOK, NEW r \in Requests, Write(r)
  PROVE  /\ req[r] \in InFlight
         /\ Len(log) \in Nat
         /\ Len(log') = Len(log) + 1
         /\ DOMAIN log = 1..Len(log) /\ DOMAIN log' = 1..(Len(log) + 1)
         /\ \A k \in DOMAIN log : log'[k] = log[k]
         /\ log'[Len(log) + 1] = EntryOf(req[r])
<1>1. req[r] \in InFlight BY DEF Write, TypeOK
<1>2. log \in Seq(Entry) BY DEF TypeOK
<1>3. EntryOf(req[r]) \in Entry BY <1>1 DEF EntryOf, Entry, InFlight
<1>4. log' = Append(log, EntryOf(req[r])) BY DEF Write, EntryOf
<1>5. Len(log) \in Nat /\ DOMAIN log = 1..Len(log) BY <1>2, LenProperties
<1> QED BY <1>1, <1>2, <1>3, <1>4, <1>5

LEMMA SinceGrows ==
  ASSUME TypeOK, Births, NEW r \in Requests, Write(r), NEW l \in Logins, NEW kinds
  PROVE  Since(l, kinds)' =
           Since(l, kinds) \cup
             (IF req[r].target = l /\ req[r].what \in kinds THEN {Len(log) + 1} ELSE {})
<1> DEFINE q == req[r]
           n == Len(log) + 1
<1>1. /\ Len(log) \in Nat /\ DOMAIN log = 1..Len(log) /\ DOMAIN log' = 1..n
      /\ \A k \in DOMAIN log : log'[k] = log[k]
      /\ log'[n] = EntryOf(q)
  BY LogGrows
<1>2. birth' = birth /\ birth[l].at \in Nat /\ birth[l].at <= Len(log)
  BY DEF Write, TypeOK, Birth, Births
<1>3. log'[n].target = q.target /\ log'[n].what = q.what BY <1>1 DEF EntryOf
<1>4. DOMAIN log' = DOMAIN log \cup {n} /\ n > birth[l].at BY <1>1, <1>2
<1> DEFINE About(k) == log[k].target = l /\ log[k].what \in kinds
<1>5. Since(l, kinds)' = {k \in DOMAIN log' :
        k > birth[l].at /\ log'[k].target = l /\ log'[k].what \in kinds}
  BY <1>2 DEF Since
<1> QED BY <1>1, <1>3, <1>4, <1>5 DEF Since

\* What is latest, before and after.
LEMMA NewestIsLatest ==
  ASSUME TypeOK, NEW l \in Logins, NEW kinds
  PROVE  LatestOf(Len(log) + 1, Since(l, kinds) \cup {Len(log) + 1})
<1>1. Len(log) \in Nat /\ DOMAIN log = 1..Len(log) BY LenProperties DEF TypeOK
<1> QED BY <1>1 DEF LatestOf, Since

-----------------------------------------------------------------------------
(* 3. The audit table explains the users table *)

SuspensionOf(l) ==
  LET K == Since(l, {"suspend", "unsuspend"})
  IN \/ K = {} /\ users[l].by = None
     \/ \E k \in K : LatestOf(k, K) /\
          users[l].by = IF log[k].what = "suspend" THEN log[k].by ELSE None

RoleOf(l) ==
  LET K == Since(l, Roles)
  IN \/ K = {} /\ users[l].role = birth[l].role
     \/ \E k \in K : LatestOf(k, K) /\ users[l].role = log[k].what
     \/ l \in Bootstrap /\ users[l].role = "admin"

Explained == Births /\ SuspensionIsAccountedFor /\ RoleIsAccountedFor

\* A row that has just been created has no entries.
LEMMA CreatedIsExplained ==
  ASSUME TypeOK, Explained, NEW l \in Logins, Create(l), log' = log
  PROVE  Explained'
<1>n. Len(log) \in Nat /\ DOMAIN log = 1..Len(log) BY LenProperties DEF TypeOK
<1>1. /\ users'[l] = [role |-> InitialRole(l), by |-> None]
      /\ birth'[l] = [at |-> Len(log), role |-> InitialRole(l)]
      /\ \A m \in Logins : m # l => users'[m] = users[m] /\ birth'[m] = birth[m]
  BY DEF Create, TypeOK
<1>2. Births' BY <1>1, <1>n DEF Explained, Births
<1>3. \A kinds : Since(l, kinds)' = {} BY <1>1, <1>n DEF Since
<1>4. SuspensionOf(l)' /\ RoleOf(l)'
  BY <1>1, <1>3 DEF SuspensionOf, RoleOf
<1>5. ASSUME NEW m \in Logins, m # l, users'[m] # None
      PROVE  SuspensionOf(m)' /\ RoleOf(m)'
  <2>1. users'[m] = users[m] /\ birth'[m] = birth[m] BY <1>1, <1>5
  <2>2. SuspensionOf(m) /\ RoleOf(m)
    BY <1>5, <2>1 DEF Explained, SuspensionIsAccountedFor, RoleIsAccountedFor,
                      SuspensionOf, RoleOf
  <2>3. \A kinds : Since(m, kinds)' = Since(m, kinds) BY <2>1 DEF Since
  <2> QED BY <2>1, <2>2, <2>3 DEF SuspensionOf, RoleOf
<1> QED
  BY <1>2, <1>4, <1>5 DEF Explained, SuspensionIsAccountedFor, RoleIsAccountedFor,
                          SuspensionOf, RoleOf

\* A batch makes its own entry the latest about its target.
LEMMA WriteIsExplained ==
  ASSUME TypeOK, Explained, NEW r \in Requests, Write(r)
  PROVE  Explained'
<1> DEFINE q == req[r]
           n == Len(log) + 1
           suspensions == {"suspend", "unsuspend"}
<1>1. /\ q \in InFlight /\ Len(log) \in Nat /\ Len(log') = n
      /\ DOMAIN log = 1..Len(log)
      /\ \A k \in DOMAIN log : log'[k] = log[k]
      /\ log'[n] = EntryOf(q)
  BY LogGrows
<1>2. q.target \in Logins /\ q.what \in Actions /\ birth' = birth
  BY <1>1 DEF InFlight, Write
<1>3. \A l \in Logins : users'[l] =
        IF l = q.target /\ users[l] # None THEN Updated(q, users[l]) ELSE users[l]
  BY <1>2 DEF Write, TypeOK
<1>4. Births'
  <2>1. \A l \in Logins : birth[l].at \in Nat BY DEF TypeOK, Birth
  <2> QED BY <1>1, <1>2, <2>1 DEF Explained, Births
<1>5. ASSUME NEW l \in Logins, users'[l] # None
      PROVE  SuspensionOf(l)' /\ RoleOf(l)'
  <2>1. users[l] # None /\ users[l] \in UserRow BY <1>3, <1>5 DEF TypeOK
  <2>2. SuspensionOf(l) /\ RoleOf(l)
    BY <2>1 DEF Explained, SuspensionIsAccountedFor, RoleIsAccountedFor,
                SuspensionOf, RoleOf
  <2>3. \A kinds : Since(l, kinds)' =
          Since(l, kinds) \cup
            (IF q.target = l /\ q.what \in kinds THEN {n} ELSE {})
    BY SinceGrows DEF Explained
  <2>4. \A kinds : \A k \in Since(l, kinds) : log'[k] = log[k]
    BY <1>1 DEF Since
  <2>5. SuspensionOf(l)'
    <3>1. CASE q.target = l /\ q.what \in suspensions
      <4>1. Since(l, suspensions)' = Since(l, suspensions) \cup {n} BY <2>3, <3>1
      <4>2. LatestOf(n, Since(l, suspensions)') BY <4>1, NewestIsLatest
      <4>3. users'[l].by = IF q.what = "suspend" THEN q.actor ELSE None
        BY <1>3, <2>1, <3>1 DEF Updated, UserRow
      <4>4. log'[n].what = q.what /\ log'[n].by = q.actor BY <1>1 DEF EntryOf
      <4>5. n \in Since(l, suspensions)' BY <4>1
      <4> QED BY <4>2, <4>3, <4>4, <4>5 DEF SuspensionOf
    <3>2. CASE ~(q.target = l /\ q.what \in suspensions)
      <4>1. Since(l, suspensions)' = Since(l, suspensions)
        <5>1. Since(l, suspensions)' = Since(l, suspensions) \cup {} BY <2>3, <3>2
        <5> QED BY <5>1
      <4>2. users'[l].by = users[l].by
        BY <1>2, <1>3, <2>1, <3>2 DEF Updated, UserRow, Actions, Roles
      <4> QED BY <2>2, <2>4, <4>1, <4>2 DEF SuspensionOf
    <3> QED BY <3>1, <3>2
  <2>6. RoleOf(l)'
    <3>1. CASE q.target = l /\ q.what \in Roles
      <4>1. Since(l, Roles)' = Since(l, Roles) \cup {n} BY <2>3, <3>1
      <4>2. LatestOf(n, Since(l, Roles)') BY <4>1, NewestIsLatest
      <4>3. users'[l].role = q.what
        BY <1>3, <2>1, <3>1 DEF Updated, UserRow, Roles
      <4>4. log'[n].what = q.what BY <1>1 DEF EntryOf
      <4>5. n \in Since(l, Roles)' BY <4>1
      <4> QED BY <4>2, <4>3, <4>4, <4>5 DEF RoleOf
    <3>2. CASE ~(q.target = l /\ q.what \in Roles)
      <4>1. Since(l, Roles)' = Since(l, Roles)
        <5>1. Since(l, Roles)' = Since(l, Roles) \cup {} BY <2>3, <3>2
        <5> QED BY <5>1
      <4>2. users'[l].role = users[l].role
        BY <1>2, <1>3, <2>1, <3>2 DEF Updated, UserRow, Actions, Roles
      <4> QED BY <1>2, <2>2, <2>4, <4>1, <4>2 DEF RoleOf
    <3> QED BY <3>1, <3>2
  <2> QED BY <2>5, <2>6
<1> QED
  BY <1>4, <1>5 DEF Explained, SuspensionIsAccountedFor, RoleIsAccountedFor,
                    SuspensionOf, RoleOf

\* Steps that touch neither table.
LEMMA StillExplained ==
  ASSUME Explained, UNCHANGED <<users, log, birth>>
  PROVE  Explained'
BY DEF Explained, Births, SuspensionIsAccountedFor, RoleIsAccountedFor,
       LatestOf, Since

LEMMA ExplainedStep == TypeOK /\ Explained /\ [Next]_vars => Explained'
<1> SUFFICES ASSUME TypeOK, Explained, [Next]_vars PROVE Explained'
  OBVIOUS
<1>e. ASSUME NEW l \in Logins, EnsureUser(l), log' = log PROVE Explained'
  BY <1>e, CreatedIsExplained, StillExplained DEF EnsureUser
<1>1. ASSUME NEW l \in Logins, SignIn(l) PROVE Explained'
  <2>1. CASE users[l] = None /\ Create(l)
    BY <1>1, <2>1, CreatedIsExplained DEF SignIn
  <2>2. CASE users[l] # None /\ users' = [users EXCEPT ![l] = Promoted(l, @)]
             /\ UNCHANGED birth
    <3>1. log' = log /\ birth' = birth BY <1>1, <2>2 DEF SignIn
    <3>2. users[l] \in UserRow BY <2>2 DEF TypeOK
    <3>3. \A m \in Logins : m # l => users'[m] = users[m]
      BY <2>2 DEF TypeOK
    <3>4. users'[l] = Promoted(l, users[l]) BY <2>2 DEF TypeOK
    <3>5. /\ users'[l].by = users[l].by
          /\ users'[l].role = IF l \in Bootstrap THEN "admin" ELSE users[l].role
      BY <3>2, <3>4 DEF Promoted, InitialRole, UserRow
    <3>6. \A m \in Logins, kinds \in {{"suspend", "unsuspend"}, Roles} :
            Since(m, kinds)' = Since(m, kinds)
      BY <3>1 DEF Since
    <3>7. ASSUME NEW m \in Logins, users'[m] # None
          PROVE  SuspensionOf(m)' /\ RoleOf(m)'
      <4>1. SuspensionOf(m) /\ RoleOf(m)
        BY <2>2, <3>3, <3>7 DEF Explained, SuspensionIsAccountedFor,
             RoleIsAccountedFor, SuspensionOf, RoleOf
      <4> QED BY <3>1, <3>3, <3>5, <3>6, <4>1 DEF SuspensionOf, RoleOf
    <3>8. Births' BY <3>1 DEF Explained, Births
    <3> QED
      BY <3>7, <3>8 DEF Explained, SuspensionIsAccountedFor, RoleIsAccountedFor,
                        SuspensionOf, RoleOf
  <2> QED BY <1>1, <2>1, <2>2 DEF SignIn
<1>2. ASSUME NEW l \in Logins, Visit(l) PROVE Explained'
  BY <1>2, <1>e DEF Visit
<1>3. ASSUME NEW l \in Logins, EraseUser(l) PROVE Explained'
  <2>n. Len(log) \in Nat BY LenProperties DEF TypeOK
  <2>1. /\ users'[l] = None /\ log' = log /\ birth'[l].at = 0
        /\ \A m \in Logins : m # l => users'[m] = users[m] /\ birth'[m] = birth[m]
    BY <1>3 DEF EraseUser, TypeOK
  <2>2. Births' BY <2>n, <2>1 DEF Explained, Births
  <2>3. ASSUME NEW m \in Logins, users'[m] # None
        PROVE  SuspensionOf(m)' /\ RoleOf(m)'
    <3>1. users'[m] = users[m] /\ birth'[m] = birth[m] /\ users[m] # None
      BY <2>1, <2>3
    <3>2. SuspensionOf(m) /\ RoleOf(m)
      BY <3>1 DEF Explained, SuspensionIsAccountedFor, RoleIsAccountedFor,
                  SuspensionOf, RoleOf
    <3>3. \A kinds \in {{"suspend", "unsuspend"}, Roles} :
            Since(m, kinds)' = Since(m, kinds)
      BY <2>1, <3>1 DEF Since
    <3> QED BY <2>1, <3>1, <3>2, <3>3 DEF SuspensionOf, RoleOf
  <2> QED
    BY <2>2, <2>3 DEF Explained, SuspensionIsAccountedFor, RoleIsAccountedFor,
                      SuspensionOf, RoleOf
<1>4. ASSUME NEW r \in Requests, NEW l \in Logins, NEW target \in Logins,
             NEW what \in Actions, Start(r, l, what, target)
      PROVE  Explained'
  BY <1>4, <1>e DEF Start
<1>5. ASSUME NEW r \in Requests, ReadTarget(r) \/ Fails(r) PROVE Explained'
  BY <1>5, StillExplained DEF ReadTarget, Fails
<1>6. ASSUME NEW r \in Requests, Write(r) PROVE Explained'
  BY <1>6, WriteIsExplained
<1>7. CASE UNCHANGED vars BY <1>7, StillExplained DEF vars
<1> QED BY <1>1, <1>2, <1>3, <1>4, <1>5, <1>6, <1>7 DEF Next

LEMMA ExplainedInit == Init => Explained
<1> SUFFICES ASSUME Init PROVE Explained
  OBVIOUS
<1>1. Len(log) = 0 /\ DOMAIN log = {} BY DEF Init
<1>2. \A l \in Logins, kinds \in {{"suspend", "unsuspend"}, Roles} : Since(l, kinds) = {}
  BY <1>1 DEF Since
<1>3. \A l \in Logins : birth[l].at = 0 BY DEF Init
<1>4. ASSUME NEW l \in Logins, users[l] # None
      PROVE  users[l].by = None /\ users[l].role = birth[l].role
  BY <1>4 DEF Init
<1> QED
  BY <1>1, <1>2, <1>3, <1>4 DEF Explained, Births, SuspensionIsAccountedFor,
                               RoleIsAccountedFor

-----------------------------------------------------------------------------
(* 4. Decisions that were made and not yet written *)

PromotedSince(q) ==
  \E k \in DOMAIN log : k > q.seen /\ log[k].target = q.target /\ log[k].what = "admin"

DecisionOf(q) ==
  q.pc = "write" =>
    /\ q.seen <= Len(log)
    /\ q.target \in Bootstrap => q.what \in {"unsuspend", "admin"}
    /\ q.what = "suspend" /\ users[q.target] # None /\ users[q.target].role = "admin"
         => PromotedSince(q)

\* A decision stands while the audit table only grows and nobody becomes an
\* administrator unrecorded.
LEMMA DecisionKept ==
  ASSUME TypeOK, NEW q \in InFlight, DecisionOf(q),
         Len(log') \in Nat, Len(log) <= Len(log'), DOMAIN log \subseteq DOMAIN log',
         \A k \in DOMAIN log : log'[k] = log[k],
         q.pc = "write" /\ q.what = "suspend"
           /\ users'[q.target] # None /\ users'[q.target].role = "admin"
           => \/ users[q.target] # None /\ users[q.target].role = "admin"
              \/ PromotedSince(q)'
  PROVE  DecisionOf(q)'
<1>1. q.seen \in Nat /\ Len(log) \in Nat
  BY LenProperties DEF InFlight, TypeOK
<1>2. PromotedSince(q) => PromotedSince(q)' BY DEF PromotedSince
<1> QED BY <1>1, <1>2 DEF DecisionOf

\* The checks of the three routes, on the row that was read.
LEMMA AllowedStands ==
  ASSUME TypeOK, NEW q \in InFlight, Allowed(q)
  PROVE  DecisionOf(AfterRead(q))
<1> DEFINE d == AfterRead(q)
<1>1. d.seen = Len(log) /\ d.target = q.target /\ d.what = q.what
  BY DEF AfterRead, InFlight
<1>2. Len(log) \in Nat BY LenProperties DEF TypeOK
<1>3. q.what \in Actions BY DEF InFlight
<1>4. q.target \in Bootstrap => q.what \in {"unsuspend", "admin"}
  BY <1>3 DEF Allowed, CanSuspend, CanSetRole, IsAdmin, Actions, Roles
<1>5. q.what = "suspend" => ~(users[q.target].role = "admin")
  BY DEF Allowed, CanSuspend, IsAdmin, Roles
<1> QED BY <1>1, <1>2, <1>4, <1>5 DEF DecisionOf

LEMMA DecisionsStep == TypeOK /\ DecisionsStand /\ [Next]_vars => DecisionsStand'
<1> SUFFICES ASSUME TypeOK, DecisionsStand, [Next]_vars,
                    NEW r \in Requests, NEW q \in InFlight, req'[r] = q
             PROVE  DecisionOf(q)'
  <2>1. ASSUME TypeOK, DecisionsStand, [Next]_vars, NEW r \in Requests, req'[r] # None
        PROVE  \E q \in InFlight : req'[r] = q
    BY <2>1, TypeStep DEF TypeOK
  <2> QED BY <2>1 DEF DecisionsStand, DecisionOf, PromotedSince
<1>n. Len(log) \in Nat BY LenProperties DEF TypeOK
<1>q. q # None /\ q.target \in Logins /\ q.seen \in Nat
  BY NoneApart DEF InFlight
<1>d. ASSUME req[r] = q PROVE DecisionOf(q)
  BY <1>d, <1>q DEF DecisionsStand, DecisionOf, PromotedSince
<1>c. ASSUME req[r] = q, log' = log, NEW l \in Logins, Create(l)
      PROVE  DecisionOf(q)'
  <2>1. DecisionOf(q) BY <1>c, <1>d
  <2>2. users'[q.target] = IF q.target = l
          THEN [role |-> InitialRole(l), by |-> None] ELSE users[q.target]
    BY <1>c, <1>q DEF Create, TypeOK
  <2>3. q.pc = "write" /\ q.what = "suspend" => InitialRole(q.target) = "user"
    BY <2>1 DEF DecisionOf, InitialRole
  <2> QED BY <1>c, <1>n, <2>1, <2>2, <2>3, DecisionKept
<1>u. ASSUME req[r] = q, log' = log,
             \A l \in Logins : users'[l] \in {users[l], None}
      PROVE  DecisionOf(q)'
  <2>1. DecisionOf(q) BY <1>u, <1>d
  <2> QED BY <1>u, <1>n, <1>q, <2>1, DecisionKept
<1>1. ASSUME NEW l \in Logins, SignIn(l) PROVE DecisionOf(q)'
  <2>0. req[r] = q /\ log' = log BY <1>1 DEF SignIn
  <2>1. CASE users[l] = None /\ Create(l) BY <1>c, <2>0, <2>1
  <2>2. CASE users[l] # None /\ users' = [users EXCEPT ![l] = Promoted(l, @)]
             /\ UNCHANGED birth
    <3>1. DecisionOf(q) BY <1>d, <2>0
    <3>2. users[l] \in UserRow BY <2>2 DEF TypeOK
    <3>3. \A m \in Logins : m \notin Bootstrap => users'[m] = users[m]
      BY <2>2, <3>2 DEF TypeOK, Promoted, InitialRole, UserRow
    <3>4. q.pc = "write" /\ q.what = "suspend" => q.target \notin Bootstrap
      BY <3>1 DEF DecisionOf
    <3> QED BY <1>n, <1>q, <2>0, <3>1, <3>3, <3>4, DecisionKept
  <2> QED BY <1>1, <2>1, <2>2 DEF SignIn
<1>2. ASSUME NEW l \in Logins, Visit(l) PROVE DecisionOf(q)'
  BY <1>2, <1>c, <1>u DEF Visit, EnsureUser
<1>3. ASSUME NEW l \in Logins, EraseUser(l) PROVE DecisionOf(q)'
  <2>1. req[r] = q /\ log' = log /\ \A m \in Logins : users'[m] \in {users[m], None}
    BY <1>3 DEF EraseUser, TypeOK
  <2> QED BY <1>u, <2>1
<1>4. ASSUME NEW s \in Requests, NEW l \in Logins, NEW target \in Logins,
             NEW what \in Actions, Start(s, l, what, target)
      PROVE  DecisionOf(q)'
  <2>1. CASE r = s
    <3>1. q.pc = "read" BY <1>4, <2>1 DEF Start, TypeOK
    <3> QED BY <3>1 DEF DecisionOf
  <2>2. CASE r # s
    <3>1. req[r] = q /\ log' = log BY <1>4, <2>2 DEF Start, TypeOK
    <3> QED BY <1>4, <1>c, <1>u, <3>1 DEF Start, EnsureUser
  <2> QED BY <2>1, <2>2
<1>5. ASSUME NEW s \in Requests, ReadTarget(s) PROVE DecisionOf(q)'
  <2>0. users' = users /\ log' = log BY <1>5 DEF ReadTarget
  <2>1. CASE r = s
    <3>1. PICK p \in InFlight : p = req[r] BY <1>5, <2>1 DEF ReadTarget, TypeOK
    <3>2. Allowed(p) /\ q = AfterRead(p)
      BY <1>5, <1>q, <2>1, <3>1 DEF ReadTarget, TypeOK
    <3>3. DecisionOf(AfterRead(p)) BY <3>1, <3>2, AllowedStands
    <3>4. DecisionOf(q) BY <3>2, <3>3 DEF DecisionOf, PromotedSince
    <3> QED BY <2>0, <3>4 DEF DecisionOf, PromotedSince
  <2>2. CASE r # s
    <3>1. req[r] = q BY <1>5, <2>2 DEF ReadTarget, TypeOK
    <3> QED BY <1>u, <2>0, <3>1
  <2> QED BY <2>1, <2>2
<1>6. ASSUME NEW s \in Requests, Write(s) PROVE DecisionOf(q)'
  <2>1. req[r] = q BY <1>6, <1>q DEF Write, TypeOK
  <2>2. DecisionOf(q) BY <1>d, <2>1
  <2> DEFINE n == Len(log) + 1
             t == q.target
  <2>3. PICK p \in InFlight : p = req[s] BY <1>6, LogGrows
  <2>4. /\ Len(log') = n
        /\ DOMAIN log = 1..Len(log) /\ DOMAIN log' = 1..n
        /\ \A k \in DOMAIN log : log'[k] = log[k]
        /\ log'[n].target = p.target /\ log'[n].what = p.what
    <3>1. log'[n] = EntryOf(req[s]) BY <1>6, LogGrows
    <3>2. log'[n] = [by |-> p.actor, what |-> p.what, target |-> p.target]
      BY <2>3, <3>1 DEF EntryOf
    <3>3. /\ Len(log') = n
          /\ DOMAIN log = 1..Len(log) /\ DOMAIN log' = 1..n
          /\ \A k \in DOMAIN log : log'[k] = log[k]
      BY <1>6, LogGrows
    <3> HIDE DEF n
    <3> QED BY <3>2, <3>3
  <2>5. ASSUME q.pc = "write", users'[t] # None, users'[t].role = "admin",
               ~(users[t] # None /\ users[t].role = "admin")
        PROVE  PromotedSince(q)'
    <3>1. users' = [users EXCEPT ![p.target] =
                      IF @ = None THEN None ELSE Updated(p, @)]
      BY <1>6, <2>3 DEF Write
    <3>2. p.target = t /\ users[t] # None /\ users'[t] = Updated(p, users[t])
      BY <1>q, <2>5, <3>1 DEF TypeOK
    <3>3. users[t] \in UserRow /\ p.what \in Actions
      BY <1>q, <3>2 DEF TypeOK, InFlight
    <3>4. p.what = "admin"
      BY <2>5, <3>2, <3>3 DEF Updated, UserRow, Actions, Roles
    <3>5. q.seen <= Len(log) BY <2>2, <2>5 DEF DecisionOf
    <3>6. n \in DOMAIN log' /\ n > q.seen BY <1>n, <1>q, <2>4, <3>5
    <3>7. log'[n].target = t /\ log'[n].what = "admin" BY <2>4, <3>2, <3>4
    <3> QED BY <3>6, <3>7 DEF PromotedSince
  <2>6. Len(log') \in Nat /\ Len(log) <= Len(log') /\ DOMAIN log \subseteq DOMAIN log'
    BY <1>n, <2>4
  <2> QED BY <2>2, <2>4, <2>5, <2>6, DecisionKept
<1>7. ASSUME NEW s \in Requests, Fails(s) PROVE DecisionOf(q)'
  <2>1. req[r] = q /\ log' = log /\ users' = users
    BY <1>7, <1>q DEF Fails, TypeOK
  <2> QED BY <1>u, <2>1
<1>8. CASE UNCHANGED vars BY <1>8, <1>u DEF vars
<1> QED BY <1>1, <1>2, <1>3, <1>4, <1>5, <1>6, <1>7, <1>8 DEF Next

LEMMA AdminInvariant == Spec => []IInv
<1>1. Init => IInv
  BY TypeInit, ExplainedInit DEF IInv, Explained, Births, DecisionsStand, Init
<1>2. IInv /\ [Next]_vars => IInv'
  <2> SUFFICES ASSUME IInv, [Next]_vars PROVE IInv'
    OBVIOUS
  <2>1. TypeOK /\ Explained /\ DecisionsStand BY DEF IInv, Explained, Births
  <2>2. TypeOK' /\ Explained' /\ DecisionsStand'
    BY <2>1, TypeStep, ExplainedStep, DecisionsStep
  <2> QED BY <2>2 DEF IInv, Explained, Births
<1> QED BY <1>1, <1>2, PTL DEF Spec

\* Whoever is suspended, the audit table names the administrator who last did it
\* (users/store.ts:42-44), however requests, sign-ins and erasures interleave.
THEOREM SuspensionsAreAudited == Spec => []SuspensionIsAccountedFor
BY AdminInvariant, PTL DEF IInv

\* A stored role is that of its latest audit row, of the row's creation, or of a
\* permanent administrator's sign-in (users/store.ts:83-85).
THEOREM RolesAreAudited == Spec => []RoleIsAccountedFor
BY AdminInvariant, PTL DEF IInv

\* Nothing demotes or suspends a permanent administrator (policy.ts:34-41): a
\* decision that was made is never against one, and the list does not change.
THEOREM PermanentAdminsAreSafe == Spec => PermanentAdminsStand
<1> DEFINE Stand ==
      \A l \in Bootstrap :
        users[l] # None /\ users'[l] # None =>
          /\ users[l].role = "admin" => users'[l].role = "admin"
          /\ users[l].by = None => users'[l].by = None
<1>1. ASSUME IInv, [Next]_vars PROVE [Stand]_vars
  <2> SUFFICES ASSUME NEW l \in Bootstrap, users[l] # None, users'[l] # None,
                      ~(users'[l] = users[l])
               PROVE  /\ users[l].role = "admin" => users'[l].role = "admin"
                      /\ users[l].by = None => users'[l].by = None
    OBVIOUS
  <2>t. TypeOK /\ l \in Logins /\ users[l] \in UserRow
    BY <1>1, BootstrapAssumption DEF IInv, TypeOK
  <2>1. ASSUME NEW m \in Logins, SignIn(m)
        PROVE  users'[l].role = "admin" /\ users'[l].by = users[l].by
    BY <2>1, <2>t DEF SignIn, Create, Promoted, InitialRole, TypeOK, UserRow
  <2>2. ASSUME NEW m \in Logins, EnsureUser(m) PROVE FALSE
    BY <2>2, <2>t DEF EnsureUser, Create, TypeOK
  <2>3. ASSUME NEW m \in Logins, EraseUser(m) PROVE FALSE
    BY <2>3, <2>t DEF EraseUser, TypeOK
  <2>4. ASSUME NEW r \in Requests, Write(r)
        PROVE  /\ users[l].role = "admin" => users'[l].role = "admin"
               /\ users[l].by = None => users'[l].by = None
    <3>1. req[r] \in InFlight BY <2>4, LogGrows, <2>t
    <3>2. req[r].target = l /\ users'[l] = Updated(req[r], users[l])
      BY <2>4, <2>t DEF Write, TypeOK
    <3>3. req[r].what \in {"unsuspend", "admin"}
      BY <1>1, <2>4, <3>2 DEF IInv, DecisionsStand, Write
    <3> QED BY <2>t, <3>2, <3>3 DEF Updated, UserRow
  <2> QED
    BY <1>1, <2>1, <2>2, <2>3, <2>4
    DEF Next, vars, Visit, Start, ReadTarget, Fails
<1>2. IInv /\ [Next]_vars => [Stand]_vars BY <1>1
<1> QED BY <1>2, AdminInvariant, PTL DEF Spec, PermanentAdminsStand

\* Who is an administrator when suspended was promoted after the request had read
\* them, and the audit table shows it (admin.ts:101-111).
THEOREM SuspendedAdminsWereJustPromoted == Spec => AdminsAreSuspendedOnlyInARace
<1> DEFINE Race ==
      \A r \in Requests :
        /\ Write(r)
        /\ req[r].what = "suspend"
        /\ users[req[r].target] # None
        /\ IsAdmin(req[r].target, users[req[r].target])
        => \E k \in DOMAIN log :
             /\ k > req[r].seen
             /\ log[k].target = req[r].target
             /\ log[k].what = "admin"
<1>1. ASSUME IInv PROVE Race
  BY <1>1 DEF IInv, DecisionsStand, Write, IsAdmin
<1>2. IInv => [Race]_vars BY <1>1
<1> QED BY <1>2, AdminInvariant, PTL DEF AdminsAreSuspendedOnlyInARace
=============================================================================
