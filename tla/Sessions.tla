------------------------------ MODULE Sessions ------------------------------
(***************************************************************************)
(* The sessions table (auth/session.ts): rows with a term, read by every   *)
(* request, deleted one by one by the request that finds them expired, in  *)
(* bulk by the daily sweep, by a sign-out and by an erasure.  A row whose  *)
(* token does not decrypt, after a change of SESSION_SECRET, is left out:  *)
(* it answers as no row does, and stays until it is swept.                 *)
(*                                                                         *)
(* Ids are random; here they are numbered in the order they are issued.    *)
(***************************************************************************)
EXTENDS Naturals

CONSTANTS
  Logins,
  Term,             \* SESSION_TTL_DAYS
  MaxTime,          \* explored time
  MaxSessions,      \* explored sign-ins
  None

VARIABLES sessions, issued, clock

table == <<sessions, issued, clock>>

Ids == 1 .. MaxSessions
Row == [login : Logins, expires : Nat]

ASSUME SessionsAssumption ==
  /\ Term \in Nat
  /\ MaxSessions \in Nat
  /\ None \notin Logins \cup Ids \cup Row

Expired(row) == row.expires < clock

SessionsInit ==
  /\ sessions = [i \in Ids |-> None]
  /\ issued = 0
  /\ clock = 0

Live == {i \in Ids : sessions[i] # None}

\* The rows of one DELETE FROM sessions.
DeleteRows(gone) ==
  sessions' = [i \in Ids |-> IF i \in gone THEN None ELSE sessions[i]]

\* Mutant: the id of the last sign-in is used again.
LastId == IF issued = 0 THEN 1 ELSE issued

\* The id of a new session, which its row gets and its cookie.
NextId == issued + 1

\* createSession
CreateSession(l) ==
  /\ issued < MaxSessions
  /\ issued' = issued + 1
  /\ sessions' = [sessions EXCEPT ![NextId] =
       [login |-> l, expires |-> clock + Term]]
  /\ UNCHANGED clock

\* Whom a cookie speaks for, if anybody.
SessionOf(cookie) ==
  IF cookie = None THEN None
  ELSE LET row == sessions[cookie] IN
       IF row = None \/ Expired(row)
       THEN None ELSE row.login

\* getSession: an expired row goes.
GetSession(cookie) ==
  /\ sessions' =
       IF cookie # None /\ sessions[cookie] # None /\ Expired(sessions[cookie])
       THEN [sessions EXCEPT ![cookie] = None] ELSE sessions
  /\ UNCHANGED <<issued, clock>>

\* destroySession
DestroySession(cookie) ==
  /\ DeleteRows({cookie})
  /\ UNCHANGED <<issued, clock>>

\* Mutant: only the session of this browser ends.
EraseOwnSession(l, cookie) == DestroySession(cookie)

\* deleteSessionsStatement, in the batch of DELETE /me.  The row of the cookie, if
\* it is still there, is among them, and the destroySession after the batch finds
\* nothing to delete: ids are not used again.
EraseSessions(l, cookie) ==
  /\ DeleteRows({i \in Live : sessions[i].login = l})
  /\ UNCHANGED <<issued, clock>>

\* Mutant: the last day of the term is swept too.
SweepLastDay ==
  /\ DeleteRows({i \in Live : sessions[i].expires <= clock})
  /\ UNCHANGED <<issued, clock>>

\* sweepExpiredSessions, from the daily cron
SweepExpiredSessions ==
  /\ DeleteRows({i \in Live : Expired(sessions[i])})
  /\ UNCHANGED <<issued, clock>>

Tick ==
  /\ clock < MaxTime
  /\ clock' = clock + 1
  /\ UNCHANGED <<sessions, issued>>
=============================================================================
