------------------------------ MODULE AdminRoles ------------------------------
(***************************************************************************)
(* The users table, the audit table and the administrators' requests that  *)
(* change them (src/users/store.ts, src/admin/policy.ts,                   *)
(* src/routes/admin.ts:99-147).  Such a request resolves its actor, reads  *)
(* its target, decides on what it read, and writes: three awaits, between  *)
(* which other requests, sign-ins and erasures run.  The change and its    *)
(* audit row are one batch.  A suspended administrator keeps the admin     *)
(* surface: requireAdmin looks at the role alone.                          *)
(***************************************************************************)
EXTENDS Integers, Sequences, FiniteSets

CONSTANTS
  Logins,
  Bootstrap,   \* the permanent administrators of ADMIN_LOGINS
  Requests,    \* slots for administrators' requests in flight
  MaxEntries,  \* bound on the audit table, requests in flight included
  None

ASSUME BootstrapAssumption == Bootstrap \subseteq Logins

Roles == {"user", "admin"}

\* What a request asks for: the two suspensions, or the role it wants to set.
Actions == {"suspend", "unsuspend"} \cup Roles

VARIABLES
  users,   \* users: the row of each login, or None
  log,     \* admin_audit in the order of its commits, without the rows of sign-ins and of the inbox
  req,     \* the requests in flight
  birth    \* history: when each row was created, and with which role

vars == <<users, log, req, birth>>

\* by: suspended_by, None while the account is not suspended.
UserRow == [role : Roles, by : Logins \cup {None}]

\* Without created_at: it is read before the batch, and rows of requests that
\* overlap may be listed (listAudit) in another order than they were written.
Entry == [by : Logins, what : Actions, target : Logins]

\* seen: history, the length of the audit table when the target was read.
InFlight == [pc : {"read", "write"}, actor : Logins, what : Actions,
             target : Logins, seen : Nat]

ASSUME NoneIsNoRow == None \notin UserRow \cup InFlight \cup Logins

Birth == [at : Nat, role : Roles]

TypeOK ==
  /\ users \in [Logins -> UserRow \cup {None}]
  /\ log \in Seq(Entry)
  /\ req \in [Requests -> InFlight \cup {None}]
  /\ birth \in [Logins -> Birth]

\* Roles may have been granted before, under another ADMIN_LOGINS.
Init ==
  /\ users \in [Logins -> [role : Roles, by : {None}] \cup {None}]
  /\ log = <<>>
  /\ req = [r \in Requests |-> None]
  /\ birth = [l \in Logins |->
       [at |-> 0, role |-> IF users[l] = None THEN "user" ELSE users[l].role]]

-----------------------------------------------------------------------------
InitialRole(l) == IF l \in Bootstrap THEN "admin" ELSE "user"

\* isAdminUser of a row that was read.
IsAdmin(l, row) == l \in Bootstrap \/ row.role = "admin"

\* INSERT of a row for a login that has none.
Create(l) ==
  /\ users' = [users EXCEPT ![l] = [role |-> InitialRole(l), by |-> None]]
  /\ birth' = [birth EXCEPT ![l] = [at |-> Len(log), role |-> InitialRole(l)]]

\* Mutant: the upsert writes the role of a new account.
PromotedAsNew(l, row) == [row EXCEPT !.role = InitialRole(l)]

\* Mutant: the upsert replaces the row.
PromotedByReplace(l, row) ==
  [role |-> IF l \in Bootstrap THEN "admin" ELSE row.role, by |-> None]

\* A sign-in never downgrades a stored admin and re-promotes a permanent one.
Promoted(l, row) ==
  [row EXCEPT !.role = IF InitialRole(l) = "admin" THEN "admin" ELSE @]

SignIn(l) ==
  /\ \/ users[l] = None /\ Create(l)
     \/ /\ users[l] # None
        /\ users' = [users EXCEPT ![l] = Promoted(l, @)]
        /\ UNCHANGED birth
  /\ UNCHANGED <<log, req>>

EnsureUser(l) ==
  IF users[l] = None THEN Create(l) ELSE UNCHANGED <<users, birth>>

\* Any request of a session, and an administrator's whom requireAdmin rejects.
Visit(l) == EnsureUser(l) /\ UNCHANGED <<log, req>>

\* requireAuth and requireAdmin: the row read here is the actor from now on.
Start(r, l, what, target) ==
  /\ req[r] = None
  /\ Len(log) + Cardinality({s \in Requests : req[s] # None}) < MaxEntries
  /\ EnsureUser(l)
  /\ IsAdmin(l, users'[l])
  /\ req' = [req EXCEPT ![r] =
       [pc |-> "read", actor |-> l, what |-> what, target |-> target, seen |-> 0]]
  /\ UNCHANGED log

\* Mutant: the rule for permanent administrators is dropped.
CanSetAnyRole(actor, target, role) == actor # target

CanSetRole(actor, target, role) ==
  /\ actor # target
  /\ target \in Bootstrap => role = "admin"

\* Mutant: only permanent administrators are spared.
CanSuspendOrdinary(actor, target) == actor # target /\ target \notin Bootstrap

CanSuspend(actor, target) ==
  /\ actor # target
  /\ ~IsAdmin(target, users[target])

\* The decision; canUnsuspend asks nothing of the target, and the actor is an
\* administrator in all three since Start.
Allowed(q) ==
  /\ users[q.target] # None
  /\ \/ q.what = "suspend" /\ CanSuspend(q.actor, q.target)
     \/ q.what = "unsuspend"
     \/ q.what \in Roles /\ CanSetRole(q.actor, q.target, q.what)

AfterRead(q) == [q EXCEPT !.pc = "write", !.seen = Len(log)]

ReadTarget(r) ==
  /\ req[r] # None
  /\ req[r].pc = "read"
  /\ req' = [req EXCEPT ![r] = IF Allowed(@) THEN AfterRead(@) ELSE None]
  /\ UNCHANGED <<users, log, birth>>

\* The columns each UPDATE assigns.
Updated(q, row) ==
  CASE q.what = "suspend"   -> [row EXCEPT !.by = q.actor]
    [] q.what = "unsuspend" -> [row EXCEPT !.by = None]
    [] OTHER                -> [row EXCEPT !.role = q.what]

\* The batch.  Its UPDATE finds no row when the target has left meanwhile; the
\* audit row is written all the same.  The answer re-reads the row.
Write(r) ==
  /\ req[r] # None
  /\ req[r].pc = "write"
  /\ LET q == req[r]
     IN /\ users' = [users EXCEPT ![q.target] =
                       IF @ = None THEN None ELSE Updated(q, @)]
        /\ log' = Append(log, [by |-> q.actor, what |-> q.what, target |-> q.target])
  /\ req' = [req EXCEPT ![r] = None]
  /\ UNCHANGED birth

\* A read or the batch throws, or the body of the request does not parse.
Fails(r) ==
  /\ req[r] # None
  /\ req' = [req EXCEPT ![r] = None]
  /\ UNCHANGED <<users, log, birth>>

\* DELETE /me; the audit table keeps its rows.
EraseUser(l) ==
  /\ users' = [users EXCEPT ![l] = None]
  /\ birth' = [birth EXCEPT ![l] = [at |-> 0, role |-> "user"]]
  /\ UNCHANGED <<log, req>>

Next ==
  \/ \E l \in Logins : SignIn(l) \/ Visit(l) \/ EraseUser(l)
  \/ \E r \in Requests :
       \/ \E l, target \in Logins, what \in Actions : Start(r, l, what, target)
       \/ ReadTarget(r) \/ Write(r) \/ Fails(r)

Spec == Init /\ [][Next]_vars

-----------------------------------------------------------------------------
(***************************************************************************)
(* The audit table explains the users table.                               *)
(***************************************************************************)

\* Entries about l since its row was created, of the given kinds.
Since(l, kinds) ==
  {k \in DOMAIN log : /\ k > birth[l].at
                      /\ log[k].target = l
                      /\ log[k].what \in kinds}

LatestOf(k, K) == k \in K /\ \A j \in K : j <= k

\* Whoever is suspended was suspended by the author of the latest entry about it,
\* and nobody else is: however requests, sign-ins and erasures interleave, "who
\* changed what" (users/store.ts:42-44) can be read off the audit table.
SuspensionIsAccountedFor ==
  \A l \in Logins : users[l] # None =>
    LET K == Since(l, {"suspend", "unsuspend"})
    IN \/ K = {} /\ users[l].by = None
       \/ \E k \in K : LatestOf(k, K) /\
            users[l].by = IF log[k].what = "suspend" THEN log[k].by ELSE None

\* The stored role is that of the latest role entry, or the one the row was
\* created with; only a sign-in of a permanent administrator adds to that.
RoleIsAccountedFor ==
  \A l \in Logins : users[l] # None =>
    LET K == Since(l, Roles)
    IN \/ K = {} /\ users[l].role = birth[l].role
       \/ \E k \in K : LatestOf(k, K) /\ users[l].role = log[k].what
       \/ l \in Bootstrap /\ users[l].role = "admin"

(***************************************************************************)
(* The rules of src/admin/policy.ts, of what is written.                   *)
(***************************************************************************)

\* No step demotes a permanent administrator or suspends one, whatever else runs
\* between its decision and its batch (policy.ts:34-41).
PermanentAdminsStand ==
  [][\A l \in Bootstrap :
       users[l] # None /\ users'[l] # None =>
         /\ users[l].role = "admin" => users'[l].role = "admin"
         /\ users[l].by = None => users'[l].by = None]_vars

\* An administrator is suspended only by a request that had read the target before
\* the promotion which the audit table records: the decision at admin.ts:104 is
\* stale by at most that.
AdminsAreSuspendedOnlyInARace ==
  [][\A r \in Requests :
       /\ Write(r)
       /\ req[r].what = "suspend"
       /\ users[req[r].target] # None
       /\ IsAdmin(req[r].target, users[req[r].target])
       => \E k \in DOMAIN log :
            /\ k > req[r].seen
            /\ log[k].target = req[r].target
            /\ log[k].what = "admin"]_vars

\* "admins are mutually un-suspendable" (policy.ts:61), of the row as it is when
\* the suspension is written.
AdminsAreNeverSuspended ==
  [][\A l \in Logins :
       /\ users[l] # None
       /\ IsAdmin(l, users[l])
       /\ users[l].by = None
       /\ users'[l] # None
       => users'[l].by = None]_vars

\* What the requests carry: no decided request is against a permanent
\* administrator, and a suspension was decided on a target that was none.
DecisionsStand ==
  \A r \in Requests : req[r] # None /\ req[r].pc = "write" =>
    LET q == req[r]
    IN /\ q.seen <= Len(log)
       /\ q.target \in Bootstrap => q.what \in {"unsuspend", "admin"}
       /\ q.what = "suspend" /\ users[q.target] # None
            /\ users[q.target].role = "admin"
            => \E k \in DOMAIN log :
                 k > q.seen /\ log[k].target = q.target /\ log[k].what = "admin"

\* The inductive invariant behind the four.
IInv ==
  /\ TypeOK
  /\ \A l \in Logins : birth[l].at <= Len(log)
  /\ SuspensionIsAccountedFor
  /\ RoleIsAccountedFor
  /\ DecisionsStand
=============================================================================
