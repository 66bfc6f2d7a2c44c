----------------------------- MODULE RateLimiter -----------------------------
(***************************************************************************)
(* The sliding-window rate limiter (src/ratelimit/store.ts), as one caller *)
(* meets it on one endpoint.  A request counts the events of every tier,   *)
(* one query per tier, and is admitted by a batch that writes one event    *)
(* per tier; between any two of these statements other requests of the     *)
(* same caller, and the daily pruning, may run.  Buckets of other callers  *)
(* and actions share no row with these, and an admin's requests touch none *)
(* (src/routes/rate-limit.ts), so neither is modelled.                     *)
(***************************************************************************)
EXTENDS Integers, Sequences, FiniteSets

CONSTANTS
  Requests,   \* the requests the caller may have in flight at once
  Tiers,      \* the endpoint's tiers, in the order they are checked
  Horizon,    \* age beyond which the cron prunes events
  Second,     \* ticks of the clock in a second
  MaxTime,    \* bound on the clock
  None

TierIds == DOMAIN Tiers

Limit(i) == Tiers[i].limit

Window(i) == Tiers[i].window

\* Every tier admits something, and no window outlasts the events.
ASSUME LimiterAssumption ==
  /\ IsFiniteSet(Requests)
  /\ Requests # {}
  /\ Tiers \in Seq([limit : Nat \ {0}, window : Nat])
  /\ Tiers # <<>>
  /\ Horizon \in Nat
  /\ \A i \in TierIds : Window(i) <= Horizon
  /\ Second \in Nat \ {0}
  /\ MaxTime \in Nat

VARIABLES
  clock,     \* the time every Date.now() reads
  req,       \* the requests in flight
  events,    \* rate_events: one row per admitted request and tier
  served,    \* history: the requests admitted, never pruned
  advice     \* history: the latest Retry-After, until a request is admitted, and
             \* whether more events than the limit were counted for it

vars == <<clock, req, events, served, advice>>

Times == 0..MaxTime

\* now: the time read when the limiter was entered; tier: the next to count.
InFlight == [pc : {"count", "insert"}, now : Times, tier : TierIds]

ASSUME NoneIsNoRequest == None \notin InFlight

Served == [id : Nat, at : Times]

Rows == [tier : TierIds, id : Nat, at : Times]

Row(i, s) == [tier |-> i, id |-> s.id, at |-> s.at]

TypeOK ==
  /\ clock \in Times
  /\ req \in [Requests -> InFlight \cup {None}]
  /\ events \in SUBSET Rows
  /\ served \in SUBSET Served
  /\ IsFiniteSet(served)
  /\ advice \in [tier : TierIds, until : Int, overshot : BOOLEAN] \cup {None}

Init ==
  /\ clock = 0
  /\ req = [r \in Requests |-> None]
  /\ events = {}
  /\ served = {}
  /\ advice = None

Tick ==
  /\ clock < MaxTime
  /\ clock' = clock + 1
  /\ UNCHANGED <<req, events, served, advice>>

-----------------------------------------------------------------------------
Arrive(r) ==
  /\ req[r] = None
  /\ req' = [req EXCEPT ![r] = [pc |-> "count", now |-> clock, tier |-> 1]]
  /\ UNCHANGED <<clock, events, served, advice>>

\* Mutant: the window is open at its old end.
CountedHalfOpen(i, now) == {e \in events : e.tier = i /\ e.at > now - Window(i)}

\* The rows the query of a tier counts: nothing bounds them from above, so a
\* slow request sees what faster ones wrote after it.
Counted(i, now) == {e \in events : e.tier = i /\ e.at >= now - Window(i)}

\* What follows a tier that is not exhausted: the next one, then the batch.
Advance(q) ==
  IF q.tier = Len(Tiers) THEN [q EXCEPT !.pc = "insert"]
                         ELSE [q EXCEPT !.tier = @ + 1]

CountAllows(r) ==
  /\ req[r] # None
  /\ req[r].pc = "count"
  /\ Cardinality(Counted(req[r].tier, req[r].now)) < Limit(req[r].tier)
  /\ req' = [req EXCEPT ![r] = Advance(@)]
  /\ UNCHANGED <<clock, events, served, advice>>

\* Mutant: the wait is rounded down.
RetryAfterFloor(ticks) == IF ticks < Second THEN 1 ELSE ticks \div Second

\* Whole seconds, rounded up and never zero.
RetryAfter(ticks) ==
  IF ticks <= Second THEN 1 ELSE (ticks + Second - 1) \div Second

\* Mutant: the wait is reckoned from the newest event.
Newest(i, now, e) ==
  e \in Counted(i, now) /\ \A f \in Counted(i, now) : f.at <= e.at

Oldest(i, now, e) ==
  e \in Counted(i, now) /\ \A f \in Counted(i, now) : e.at <= f.at

\* An exhausted tier ends the request at once; nothing is recorded.
Deny(r) ==
  /\ req[r] # None
  /\ req[r].pc = "count"
  /\ LET i == req[r].tier
         now == req[r].now
     IN /\ Cardinality(Counted(i, now)) >= Limit(i)
        /\ \E e \in events :
             /\ Oldest(i, now, e)
             /\ advice' =
                  [tier |-> i,
                   until |-> now + Second * RetryAfter(e.at + Window(i) - now),
                   overshot |-> Cardinality(Counted(i, now)) > Limit(i)]
  /\ req' = [req EXCEPT ![r] = None]
  /\ UNCHANGED <<clock, events, served>>

\* Mutant: only the first tier is recorded.
RecordFirstTier(s) == {Row(1, s)}

RecordEveryTier(s) == {Row(i, s) : i \in TierIds}

\* The batch commits as a whole and the request goes on to its handler.
Insert(r) ==
  /\ req[r] # None
  /\ req[r].pc = "insert"
  /\ LET s == [id |-> Cardinality(served), at |-> req[r].now]
     IN /\ served' = served \cup {s}
        /\ events' = events \cup RecordEveryTier(s)
  /\ req' = [req EXCEPT ![r] = None]
  /\ advice' = None
  /\ UNCHANGED clock

\* A statement throws: the request ends with an error and records nothing.
Fails(r) ==
  /\ req[r] # None
  /\ req' = [req EXCEPT ![r] = None]
  /\ UNCHANGED <<clock, events, served, advice>>

\* Mutant: the cron prunes by half the horizon.
ExpiredEarly(now) == {e \in events : e.at < now - (Horizon \div 2)}

Expired(now) == {e \in events : e.at < now - Horizon}

\* The cron reads the clock when it is triggered; its DELETE may come later.
Prune ==
  /\ \E now \in 0..clock : events' = events \ Expired(now)
  /\ UNCHANGED <<clock, req, served, advice>>

Next ==
  \/ Tick
  \/ Prune
  \/ \E r \in Requests :
       Arrive(r) \/ CountAllows(r) \/ Deny(r) \/ Insert(r) \/ Fails(r)

Spec == Init /\ [][Next]_vars

-----------------------------------------------------------------------------
(***************************************************************************)
(* How many requests any window admits.                                    *)
(***************************************************************************)

InWindow(i, t, at) == t - Window(i) <= at /\ at <= t

ServedIn(i, t) == {s \in served : InWindow(i, t, s.at)}

\* Requests of the window under way, and those of them that tier i let pass.
LiveIn(i, t) == {r \in Requests : req[r] # None /\ InWindow(i, t, req[r].now)}

PassedIn(i, t) ==
  {r \in LiveIn(i, t) : req[r].pc = "insert" \/ req[r].tier > i}

\* Nothing that was admitted in the window has been pruned.
Remembered(i, t) == \A s \in ServedIn(i, t) : Row(i, s) \in events

\* A caller never gets more than its limit through a window but for the requests
\* it had in flight at once: the burst "can read the same pre-insert count and
\* overshoot by ~concurrency" (store.ts:21-22), and by no more than that, in any
\* window whose events are still in the table.
OvershootBounded ==
  \A i \in TierIds : \A t \in Times :
    Remembered(i, t) =>
      Cardinality(ServedIn(i, t)) + Cardinality(PassedIn(i, t))
        <= Limit(i) + Cardinality(Requests) - 1

\* Pruning may help the requests that read the clock before it, once: however the
\* cron and the requests interleave, what any window admits exceeds the limit by
\* less than twice the concurrency.
ServedBounded ==
  \A i \in TierIds : \A t \in Times :
    Cardinality(ServedIn(i, t)) + Cardinality(LiveIn(i, t))
      <= Limit(i) + 2 * Cardinality(Requests) - 1

\* Pruning drops nothing that a request entering now would have to count: every
\* admission still inside its window has its row (index.ts:124 against the
\* longest window, and the batch against each tier).
NothingForgotten ==
  \A s \in served : \A i \in TierIds :
    s.at >= clock - Window(i) => Row(i, s) \in events

\* Times are in order, admissions are told apart, rows come from admissions, and
\* only what is older than the horizon has been pruned.
Consistent ==
  /\ \A r \in Requests : req[r] # None => req[r].now <= clock
  /\ \A s \in served : s.at <= clock /\ s.id < Cardinality(served)
  /\ \A e \in events : \E s \in served : e = Row(e.tier, s)
  /\ \A s \in served : \A i \in TierIds :
        Row(i, s) \notin events => s.at < clock - Horizon

\* The inductive strengthening of the bounds (consumeRateLimits, pruneRateEvents).
IInv == TypeOK /\ Consistent /\ OvershootBounded /\ ServedBounded

(***************************************************************************)
(* What the Retry-After of a refusal is worth.                             *)
(***************************************************************************)

\* The wait is not longer than needed, but for rounding to the second: up to a
\* second before its end the tier would still refuse (store.ts:43).
AdviceIsTight ==
  advice # None =>
    \A t \in clock..(advice.until - Second) :
      Cardinality(Counted(advice.tier, t)) >= Limit(advice.tier)

\* And unless a burst had overshot the limit, the wait suffices: a caller refused
\* by a tier, and admitted nowhere since, is not refused by it again later than
\* the time it was told to wait for (store.ts:41-44).
AdviceSuffices ==
  [][\A r \in Requests :
       Deny(r) /\ advice # None /\ ~advice.overshot /\ advice.tier = req[r].tier
         => req[r].now <= advice.until]_vars
=============================================================================
