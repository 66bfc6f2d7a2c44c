-------------------------- MODULE RateLimiterProofs --------------------------
(***************************************************************************)
(* Proofs about RateLimiter, for any number of requests in flight, any     *)
(* tiers whose windows the cron respects and any length of time.           *)
(*                                                                         *)
(*   1. the sets the bounds count                                          *)
(*   2. type correctness                                                   *)
(*   3. order, rows and pruning                                            *)
(*   4. the bounds, one lemma per kind of step                             *)
(*   5. what a Retry-After is worth                                        *)
(***************************************************************************)
EXTENDS RateLimiter, FiniteSetTheorems, SequenceTheorems, TLAPS

-----------------------------------------------------------------------------
(* 1. The sets the bounds count *)

LEMMA Constants ==
  /\ Cardinality(Requests) \in Nat
  /\ TierIds = 1..Len(Tiers) /\ Len(Tiers) \in Nat \ {0}
  /\ \A i \in TierIds : Limit(i) \in Nat \ {0} /\ Window(i) \in Nat /\ Window(i) <= Horizon
<1>1. Cardinality(Requests) \in Nat
  BY LimiterAssumption, FS_CardinalityType
<1>2. TierIds = 1..Len(Tiers) /\ Len(Tiers) \in Nat \ {0}
  BY LimiterAssumption DEF TierIds
<1>3. ASSUME NEW i \in TierIds
      PROVE  Limit(i) \in Nat \ {0} /\ Window(i) \in Nat /\ Window(i) <= Horizon
  <2> DEFINE R == [limit : Nat \ {0}, window : Nat]
  <2>1. Tiers \in Seq(R) BY LimiterAssumption
  <2>2. i \in 1..Len(Tiers) BY <1>2
  <2>3. Tiers[i] \in R
    <3> HIDE DEF R
    <3> QED BY <2>1, <2>2, ElementOfSeq
  <2> QED BY <2>3, LimiterAssumption DEF Limit, Window
<1> QED BY <1>1, <1>2, <1>3

LEMMA SetsFinite ==
  ASSUME NEW t, NEW i, IsFiniteSet(served)
  PROVE  /\ IsFiniteSet(ServedIn(i, t)) /\ Cardinality(ServedIn(i, t)) \in Nat
         /\ IsFiniteSet(LiveIn(i, t)) /\ Cardinality(LiveIn(i, t)) \in Nat
         /\ IsFiniteSet(PassedIn(i, t)) /\ Cardinality(PassedIn(i, t)) \in Nat
         /\ Cardinality(LiveIn(i, t)) <= Cardinality(Requests)
         /\ Cardinality(PassedIn(i, t)) <= Cardinality(Requests)
<1>1. ServedIn(i, t) \in SUBSET served BY DEF ServedIn
<1>2. LiveIn(i, t) \in SUBSET Requests BY DEF LiveIn
<1>3. PassedIn(i, t) \in SUBSET Requests BY DEF PassedIn, LiveIn
<1>4. IsFiniteSet(Requests) BY LimiterAssumption
<1> QED BY <1>1, <1>2, <1>3, <1>4, FS_Subset, FS_CardinalityType

LEMMA CountedFinite ==
  ASSUME TypeOK, Consistent, NEW i \in TierIds, NEW now \in Times
  PROVE  IsFiniteSet(Counted(i, now)) /\ Cardinality(Counted(i, now)) \in Nat
<1> DEFINE C == Counted(i, now)
           f == [s \in served |-> Row(i, s)]
<1>1. \A e \in C : \E s \in served : e = Row(i, s)
  BY DEF Consistent, Counted
<1>2. DEFINE S == {s \in served : Row(i, s) \in C}
<1>3. S \in SUBSET served /\ IsFiniteSet(served) BY DEF TypeOK
<1>4. IsFiniteSet(S) BY <1>3, FS_Subset
<1> DEFINE g == [s \in S |-> Row(i, s)]
<1>5. g \in Surjection(S, C)
  BY <1>1 DEF Surjection
<1>6. IsFiniteSet(C) BY <1>4, <1>5, FS_Surjection
<1> QED BY <1>6, FS_CardinalityType

\* A request that finds tier i below its limit finds every window it falls into,
\* and whose admissions are remembered, below it too.
LEMMA CountSeesWindow ==
  ASSUME TypeOK, Consistent, NEW i \in TierIds, NEW t \in Times, NEW now \in Times,
         InWindow(i, t, now), Remembered(i, t)
  PROVE  Cardinality(ServedIn(i, t)) <= Cardinality(Counted(i, now))
<1> DEFINE S == ServedIn(i, t)
           C == Counted(i, now)
           f == [s \in S |-> Row(i, s)]
<1>1. IsFiniteSet(S) /\ Cardinality(S) \in Nat BY SetsFinite DEF TypeOK
<1>2. IsFiniteSet(C) /\ Cardinality(C) \in Nat BY CountedFinite
<1>3. ASSUME NEW s \in S PROVE Row(i, s) \in C
  <2>1. Row(i, s) \in events BY DEF Remembered
  <2>2. s.at \in Nat /\ t - Window(i) <= s.at
    BY DEF ServedIn, InWindow, TypeOK, Served, Times
  <2>3. s.at >= now - Window(i)
    BY <2>2, Constants, LimiterAssumption DEF InWindow, Times
  <2> QED BY <2>1, <2>3 DEF Counted, Row
<1>4. f \in [S -> C] BY <1>3
<1>5. ASSUME NEW x \in S, NEW y \in S, f[x] = f[y] PROVE x = y
  <2>1. x \in Served /\ y \in Served BY DEF ServedIn, TypeOK
  <2>2. x.id = y.id /\ x.at = y.at BY <1>5 DEF Row
  <2> QED BY <2>1, <2>2 DEF Served
<1>6. ~ (Cardinality(C) < Cardinality(S))
  <2> HIDE DEF S, C, f
  <2> QED BY <1>1, <1>2, <1>4, <1>5, FS_PigeonHole
<1> QED BY <1>1, <1>2, <1>6

-----------------------------------------------------------------------------
(* 2. Type correctness *)

LEMMA RetryAfterType ==
  ASSUME NEW x \in Int
  PROVE  RetryAfter(x) \in Int
<1>1. (x + Second - 1) \div Second \in Int
  BY LimiterAssumption
<1> QED BY <1>1 DEF RetryAfter

LEMMA AdvanceType ==
  ASSUME NEW q \in InFlight
  PROVE  Advance(q) \in InFlight
<1>1. q.tier \in 1..Len(Tiers) /\ TierIds = 1..Len(Tiers) /\ Len(Tiers) \in Nat
  BY Constants DEF InFlight
<1>2. CASE q.tier = Len(Tiers)
  <2>1. [q EXCEPT !.pc = "insert"] \in InFlight BY DEF InFlight
  <2> QED BY <1>2, <2>1 DEF Advance
<1>3. CASE q.tier # Len(Tiers)
  <2>1. q.tier + 1 \in TierIds BY <1>1, <1>3
  <2>2. [q EXCEPT !.tier = @ + 1] \in InFlight BY <2>1 DEF InFlight
  <2> QED BY <1>3, <2>2 DEF Advance
<1> QED BY <1>2, <1>3

LEMMA TypeStep == TypeOK /\ [Next]_vars => TypeOK'
<1> SUFFICES ASSUME TypeOK, [Next]_vars PROVE TypeOK'
  OBVIOUS
<1> USE Constants, LimiterAssumption
<1>1. CASE Tick
  BY <1>1 DEF Tick, TypeOK, Times
<1>2. CASE Prune
  BY <1>2 DEF Prune, TypeOK
<1>3. ASSUME NEW r \in Requests, Arrive(r) PROVE TypeOK'
  <2>1. [pc |-> "count", now |-> clock, tier |-> 1] \in InFlight
    BY DEF InFlight, TypeOK
  <2> QED BY <1>3, <2>1 DEF Arrive, TypeOK
<1>4. ASSUME NEW r \in Requests, CountAllows(r) PROVE TypeOK'
  <2>1. req[r] \in InFlight BY <1>4 DEF CountAllows, TypeOK
  <2> QED BY <1>4, <2>1, AdvanceType DEF CountAllows, TypeOK
<1>5. ASSUME NEW r \in Requests, Deny(r) PROVE TypeOK'
  <2>1. req[r] \in InFlight BY <1>5 DEF Deny, TypeOK
  <2> DEFINE i == req[r].tier
             now == req[r].now
  <2>2. i \in TierIds /\ now \in Nat BY <2>1 DEF InFlight, Times
  <2>3. PICK e \in events :
          advice' =
            [tier |-> i,
             until |-> now + Second * RetryAfter(e.at + Window(i) - now),
             overshot |-> Cardinality(Counted(i, now)) > Limit(i)]
    BY <1>5 DEF Deny
  <2>4. e.at \in Nat BY DEF TypeOK, Rows, Times
  <2>5. e.at + Window(i) - now \in Int
    BY <2>2, <2>4
  <2>6. RetryAfter(e.at + Window(i) - now) \in Int
    BY <2>5, RetryAfterType
  <2>7. now + Second * RetryAfter(e.at + Window(i) - now) \in Int
    BY <2>2, <2>6
  <2>8. (Cardinality(Counted(i, now)) > Limit(i)) \in BOOLEAN
    OBVIOUS
  <2>9. advice' \in [tier : TierIds, until : Int, overshot : BOOLEAN]
    BY <2>2, <2>3, <2>7, <2>8
  <2> QED BY <1>5, <2>9 DEF Deny, TypeOK
<1>6. ASSUME NEW r \in Requests, Insert(r) PROVE TypeOK'
  <2>1. req[r] \in InFlight BY <1>6 DEF Insert, TypeOK
  <2> DEFINE s == [id |-> Cardinality(served), at |-> req[r].now]
  <2>2. IsFiniteSet(served) /\ Cardinality(served) \in Nat
    BY FS_CardinalityType DEF TypeOK
  <2>3. s \in Served BY <2>1, <2>2 DEF Served, InFlight
  <2>4. RecordEveryTier(s) \subseteq Rows
    BY <2>3 DEF RecordEveryTier, Row, Rows, Served
  <2>5. IsFiniteSet(served \cup {s}) BY <2>2, FS_AddElement
  <2> QED BY <1>6, <2>3, <2>4, <2>5 DEF Insert, TypeOK
<1>7. ASSUME NEW r \in Requests, Fails(r) PROVE TypeOK'
  BY <1>7 DEF Fails, TypeOK
<1>8. CASE UNCHANGED vars
  BY <1>8 DEF vars, TypeOK
<1> QED BY <1>1, <1>2, <1>3, <1>4, <1>5, <1>6, <1>7, <1>8 DEF Next

\* The limiter never indexes a tier it does not have, and counts finite sets
\* (consumeRateLimits).
THEOREM LimiterTypeCorrect == Spec => []TypeOK
<1>1. Init => TypeOK
  BY LimiterAssumption, FS_EmptySet DEF Init, TypeOK, Times
<1> QED BY <1>1, TypeStep, PTL DEF Spec

-----------------------------------------------------------------------------
(* 3. Order, rows and pruning *)

LEMMA NewServed ==
  ASSUME TypeOK, Consistent, NEW r \in Requests, req[r] # None
  PROVE  LET s == [id |-> Cardinality(served), at |-> req[r].now]
         IN /\ s \in Served /\ s \notin served
            /\ s.at <= clock
            /\ IsFiniteSet(served \cup {s})
            /\ Cardinality(served \cup {s}) = Cardinality(served) + 1
            /\ \A i \in TierIds : Row(i, s) \in RecordEveryTier(s)
            /\ \A i, j \in TierIds : \A o \in served : Row(i, o) # Row(j, s)
<1> DEFINE s == [id |-> Cardinality(served), at |-> req[r].now]
<1>1. IsFiniteSet(served) /\ Cardinality(served) \in Nat
  BY FS_CardinalityType DEF TypeOK
<1>2. req[r] \in InFlight BY DEF TypeOK
<1>3. s \in Served BY <1>1, <1>2 DEF Served, InFlight
<1>4. \A o \in served : o.id \in Nat /\ o.id < Cardinality(served)
  BY DEF Consistent, TypeOK, Served
<1>5. s \notin served BY <1>1, <1>4
<1>6. s.at <= clock BY DEF Consistent
<1>7. IsFiniteSet(served \cup {s}) /\ Cardinality(served \cup {s}) = Cardinality(served) + 1
  BY <1>1, <1>5, FS_AddElement
<1>8. \A i \in TierIds : Row(i, s) \in RecordEveryTier(s)
  BY DEF RecordEveryTier
<1>9. \A i, j \in TierIds : \A o \in served : Row(i, o) # Row(j, s)
  BY <1>1, <1>4 DEF Row
<1> QED BY <1>3, <1>5, <1>6, <1>7, <1>8, <1>9

LEMMA ConsistentStep == TypeOK /\ Consistent /\ [Next]_vars => Consistent'
<1> SUFFICES ASSUME TypeOK, Consistent, [Next]_vars PROVE Consistent'
  OBVIOUS
<1> USE LimiterAssumption
<1>t. /\ clock \in Nat
      /\ \A r \in Requests : req[r] # None => req[r] \in InFlight /\ req[r].now \in Nat
      /\ \A s \in served : s.id \in Nat /\ s.at \in Nat
      /\ Cardinality(served) \in Nat
  BY FS_CardinalityType DEF TypeOK, Times, InFlight, Served
<1>1. CASE Tick
  BY <1>1, <1>t DEF Tick, Consistent
<1>2. CASE Prune
  <2>1. PICK now \in 0..clock : events' = events \ Expired(now)
    BY <1>2 DEF Prune
  <2>2. ASSUME NEW s \in served, NEW i \in TierIds, Row(i, s) \notin events'
        PROVE  s.at < clock - Horizon
    <3>1. CASE Row(i, s) \notin events BY <3>1 DEF Consistent
    <3>2. CASE Row(i, s) \in events
      <4>1. Row(i, s) \in Expired(now) BY <2>1, <2>2, <3>2
      <4>2. s.at < now - Horizon BY <4>1 DEF Expired, Row
      <4> QED BY <4>2, <1>t
    <3> QED BY <3>1, <3>2
  <2> QED BY <1>2, <2>1, <2>2 DEF Prune, Consistent
<1>3. ASSUME NEW r \in Requests, Arrive(r) PROVE Consistent'
  BY <1>3, <1>t DEF Arrive, Consistent, TypeOK
<1>4. ASSUME NEW r \in Requests, CountAllows(r) PROVE Consistent'
  <2>1. Advance(req[r]).now = req[r].now
    BY <1>4, <1>t DEF CountAllows, Advance, InFlight
  <2> QED BY <1>4, <2>1, <1>t DEF CountAllows, Consistent, TypeOK
<1>5. ASSUME NEW r \in Requests, Deny(r) PROVE Consistent'
  BY <1>5 DEF Deny, Consistent, TypeOK
<1>6. ASSUME NEW r \in Requests, Insert(r) PROVE Consistent'
  <2> DEFINE s == [id |-> Cardinality(served), at |-> req[r].now]
  <2>1. /\ served' = served \cup {s}
        /\ events' = events \cup RecordEveryTier(s)
        /\ req' = [req EXCEPT ![r] = None]
        /\ req[r] # None
        /\ clock' = clock
    BY <1>6 DEF Insert
  <2>2. /\ s.at <= clock
        /\ Cardinality(served') = Cardinality(served) + 1
        /\ \A i \in TierIds : Row(i, s) \in RecordEveryTier(s)
    BY <2>1, NewServed
  <2>3. \A q \in Requests : req'[q] # None => req'[q].now <= clock'
    BY <2>1 DEF Consistent, TypeOK
  <2>4. \A o \in served' : o.at <= clock' /\ o.id < Cardinality(served')
    BY <2>1, <2>2, <1>t DEF Consistent
  <2>5. ASSUME NEW e \in events' PROVE \E o \in served' : e = Row(e.tier, o)
    <3>1. CASE e \in events BY <2>1, <3>1 DEF Consistent
    <3>2. CASE e \in RecordEveryTier(s)
      <4>1. PICK i \in TierIds : e = Row(i, s) BY <3>2 DEF RecordEveryTier
      <4>2. e = Row(e.tier, s) BY <4>1 DEF Row
      <4> QED BY <2>1, <4>2
    <3> QED BY <2>1, <3>1, <3>2
  <2>6. \A o \in served' : \A i \in TierIds :
          Row(i, o) \notin events' => o.at < clock' - Horizon
    BY <2>1, <2>2 DEF Consistent
  <2> QED BY <2>3, <2>4, <2>5, <2>6 DEF Consistent
<1>7. ASSUME NEW r \in Requests, Fails(r) PROVE Consistent'
  BY <1>7 DEF Fails, Consistent, TypeOK
<1>8. CASE UNCHANGED vars
  BY <1>8 DEF vars, Consistent
<1> QED BY <1>1, <1>2, <1>3, <1>4, <1>5, <1>6, <1>7, <1>8 DEF Next

-----------------------------------------------------------------------------
(* 4. The bounds *)

Bounds == OvershootBounded /\ ServedBounded

\* A step that admits nothing, and neither starts a request nor lets one pass.
LEMMA QuietStep ==
  ASSUME TypeOK, Bounds, served' = served,
         \A i \in TierIds : \A t \in Times :
           /\ Remembered(i, t)' => Remembered(i, t)
           /\ LiveIn(i, t)' \subseteq LiveIn(i, t)
           /\ PassedIn(i, t)' \subseteq PassedIn(i, t)
  PROVE  Bounds'
<1>c. /\ Cardinality(Requests) \in Nat
      /\ \A i \in TierIds : Limit(i) \in Nat
  BY Constants
<1>1. ASSUME NEW i \in TierIds, NEW t \in Times
      PROVE  /\ ServedIn(i, t)' = ServedIn(i, t)
             /\ Cardinality(LiveIn(i, t)') <= Cardinality(LiveIn(i, t))
             /\ Cardinality(LiveIn(i, t)') \in Nat
             /\ Cardinality(PassedIn(i, t)') <= Cardinality(PassedIn(i, t))
             /\ Cardinality(PassedIn(i, t)') \in Nat
  <2>1. ServedIn(i, t)' = ServedIn(i, t) BY DEF ServedIn
  <2>2. IsFiniteSet(LiveIn(i, t)) /\ IsFiniteSet(PassedIn(i, t))
    BY SetsFinite DEF TypeOK
  <2>3. /\ IsFiniteSet(LiveIn(i, t)')
        /\ Cardinality(LiveIn(i, t)') <= Cardinality(LiveIn(i, t))
    BY <2>2, FS_Subset
  <2>4. /\ IsFiniteSet(PassedIn(i, t)')
        /\ Cardinality(PassedIn(i, t)') <= Cardinality(PassedIn(i, t))
    BY <2>2, FS_Subset
  <2> QED BY <2>1, <2>3, <2>4, FS_CardinalityType
<1>2. \A i \in TierIds : \A t \in Times :
        /\ Cardinality(ServedIn(i, t)) \in Nat
        /\ Cardinality(LiveIn(i, t)) \in Nat
        /\ Cardinality(PassedIn(i, t)) \in Nat
  BY SetsFinite DEF TypeOK
<1>3. OvershootBounded'
  <2> SUFFICES ASSUME NEW i \in TierIds, NEW t \in Times, Remembered(i, t)'
               PROVE  Cardinality(ServedIn(i, t)') + Cardinality(PassedIn(i, t)')
                        <= Limit(i) + Cardinality(Requests) - 1
    BY DEF OvershootBounded
  <2>1. Cardinality(ServedIn(i, t)) + Cardinality(PassedIn(i, t))
          <= Limit(i) + Cardinality(Requests) - 1
    BY DEF Bounds, OvershootBounded
  <2> QED BY <1>c, <1>1, <1>2, <2>1
<1>4. ServedBounded'
  <2> SUFFICES ASSUME NEW i \in TierIds, NEW t \in Times
               PROVE  Cardinality(ServedIn(i, t)') + Cardinality(LiveIn(i, t)')
                        <= Limit(i) + 2 * Cardinality(Requests) - 1
    BY DEF ServedBounded
  <2>1. Cardinality(ServedIn(i, t)) + Cardinality(LiveIn(i, t))
          <= Limit(i) + 2 * Cardinality(Requests) - 1
    BY DEF Bounds, ServedBounded
  <2> QED BY <1>c, <1>1, <1>2, <2>1
<1> QED BY <1>3, <1>4 DEF Bounds

\* A request that ends without being admitted leaves the counted sets smaller.
LEMMA RequestGone ==
  ASSUME TypeOK, NEW r \in Requests, req' = [req EXCEPT ![r] = None],
         NEW i \in TierIds, NEW t \in Times
  PROVE  /\ LiveIn(i, t)' \subseteq LiveIn(i, t) \ {r}
         /\ PassedIn(i, t)' \subseteq PassedIn(i, t) \ {r}
<1>1. \A q \in Requests : req'[q] = IF q = r THEN None ELSE req[q]
  BY DEF TypeOK
<1>2. LiveIn(i, t)' \subseteq LiveIn(i, t) \ {r}
  BY <1>1 DEF LiveIn
<1>3. \A q \in PassedIn(i, t)' : q \in PassedIn(i, t) /\ q # r
  BY <1>1, <1>2 DEF PassedIn, LiveIn
<1> QED BY <1>2, <1>3

LEMMA BoundsArrive ==
  ASSUME TypeOK, Consistent, Bounds, NEW r \in Requests, Arrive(r), TypeOK'
  PROVE  Bounds'
<1>c. /\ Cardinality(Requests) \in Nat /\ IsFiniteSet(Requests) /\ Horizon \in Nat
      /\ \A i \in TierIds : Limit(i) \in Nat /\ Window(i) \in Nat /\ Window(i) <= Horizon
  BY Constants, LimiterAssumption
<1>1. /\ served' = served /\ events' = events /\ clock' = clock
      /\ req[r] = None
      /\ \A q \in Requests :
           req'[q] = IF q = r THEN [pc |-> "count", now |-> clock, tier |-> 1] ELSE req[q]
  BY DEF Arrive, TypeOK
<1>2. ASSUME NEW i \in TierIds, NEW t \in Times
      PROVE  /\ ServedIn(i, t)' = ServedIn(i, t)
             /\ Remembered(i, t)' => Remembered(i, t)
             /\ PassedIn(i, t)' \subseteq PassedIn(i, t)
             /\ ~ InWindow(i, t, clock) => LiveIn(i, t)' \subseteq LiveIn(i, t)
             /\ InWindow(i, t, clock) => Remembered(i, t)
  <2>1. ServedIn(i, t)' = ServedIn(i, t) BY <1>1 DEF ServedIn
  <2>2. Remembered(i, t)' => Remembered(i, t) BY <1>1, <2>1 DEF Remembered
  <2>3. ASSUME NEW q \in PassedIn(i, t)' PROVE q \in PassedIn(i, t)
    <3>1. q \in Requests /\ req'[q] # None /\ InWindow(i, t, req'[q].now)
          /\ (req'[q].pc = "insert" \/ req'[q].tier > i)
      BY <2>3 DEF PassedIn, LiveIn
    <3>2. q # r BY <1>1, <3>1, Constants
    <3> QED BY <1>1, <3>1, <3>2 DEF PassedIn, LiveIn
  <2>4. ASSUME ~ InWindow(i, t, clock), NEW q \in LiveIn(i, t)' PROVE q \in LiveIn(i, t)
    <3>1. q \in Requests /\ req'[q] # None /\ InWindow(i, t, req'[q].now)
      BY <2>4 DEF LiveIn
    <3>2. q # r BY <1>1, <2>4, <3>1
    <3> QED BY <1>1, <3>1, <3>2 DEF LiveIn
  <2>5. ASSUME InWindow(i, t, clock), NEW s \in ServedIn(i, t) PROVE Row(i, s) \in events
    <3>1. s \in served /\ s.at \in Nat /\ t - Window(i) <= s.at
      BY DEF ServedIn, InWindow, TypeOK, Served, Times
    <3>2. clock \in Nat /\ clock <= t /\ t \in Nat
      BY <2>5 DEF InWindow, TypeOK, Times
    <3>3. ~ (s.at < clock - Horizon) BY <1>c, <3>1, <3>2
    <3> QED BY <3>1, <3>3 DEF Consistent
  <2> QED BY <2>1, <2>2, <2>3, <2>4, <2>5 DEF Remembered
<1>3. \A i \in TierIds : \A t \in Times :
        /\ Cardinality(ServedIn(i, t)) \in Nat
        /\ Cardinality(LiveIn(i, t)) \in Nat
        /\ Cardinality(PassedIn(i, t)) \in Nat
        /\ IsFiniteSet(LiveIn(i, t)) /\ IsFiniteSet(PassedIn(i, t))
  BY SetsFinite DEF TypeOK
<1>4. OvershootBounded'
  <2> SUFFICES ASSUME NEW i \in TierIds, NEW t \in Times, Remembered(i, t)'
               PROVE  Cardinality(ServedIn(i, t)') + Cardinality(PassedIn(i, t)')
                        <= Limit(i) + Cardinality(Requests) - 1
    BY DEF OvershootBounded
  <2>1. Cardinality(ServedIn(i, t)) + Cardinality(PassedIn(i, t))
          <= Limit(i) + Cardinality(Requests) - 1
    BY <1>2 DEF Bounds, OvershootBounded
  <2>2. /\ Cardinality(PassedIn(i, t)') <= Cardinality(PassedIn(i, t))
        /\ IsFiniteSet(PassedIn(i, t)')
    BY <1>2, <1>3, FS_Subset
  <2> QED BY <1>c, <1>2, <1>3, <2>1, <2>2, FS_CardinalityType
<1>5. ServedBounded'
  <2> SUFFICES ASSUME NEW i \in TierIds, NEW t \in Times
               PROVE  Cardinality(ServedIn(i, t)') + Cardinality(LiveIn(i, t)')
                        <= Limit(i) + 2 * Cardinality(Requests) - 1
    BY DEF ServedBounded
  <2>1. CASE InWindow(i, t, clock)
    <3>1. Cardinality(ServedIn(i, t)) + Cardinality(PassedIn(i, t))
            <= Limit(i) + Cardinality(Requests) - 1
      BY <1>2, <2>1 DEF Bounds, OvershootBounded
    <3>2. LiveIn(i, t)' \in SUBSET Requests BY DEF LiveIn
    <3>3. IsFiniteSet(LiveIn(i, t)') /\ Cardinality(LiveIn(i, t)') <= Cardinality(Requests)
      BY <1>c, <3>2, FS_Subset
    <3>4. Cardinality(LiveIn(i, t)') \in Nat BY <3>3, FS_CardinalityType
    <3>5. ServedIn(i, t)' = ServedIn(i, t) BY <1>2
    <3>6. Cardinality(ServedIn(i, t)) \in Nat /\ Cardinality(PassedIn(i, t)) \in Nat
      BY <1>3
    <3>7. Cardinality(ServedIn(i, t)) + Cardinality(LiveIn(i, t)')
            <= Limit(i) + 2 * Cardinality(Requests) - 1
      BY <1>c, <3>1, <3>3, <3>4, <3>6
    <3> QED BY <3>5, <3>7
  <2>2. CASE ~ InWindow(i, t, clock)
    <3>1. Cardinality(ServedIn(i, t)) + Cardinality(LiveIn(i, t))
            <= Limit(i) + 2 * Cardinality(Requests) - 1
      BY DEF Bounds, ServedBounded
    <3>2. /\ Cardinality(LiveIn(i, t)') <= Cardinality(LiveIn(i, t))
          /\ IsFiniteSet(LiveIn(i, t)')
      BY <1>2, <1>3, <2>2, FS_Subset
    <3> QED BY <1>c, <1>2, <1>3, <3>1, <3>2, FS_CardinalityType
  <2> QED BY <2>1, <2>2
<1> QED BY <1>4, <1>5 DEF Bounds

LEMMA BoundsCountAllows ==
  ASSUME TypeOK, Consistent, Bounds, NEW r \in Requests, CountAllows(r)
  PROVE  Bounds'
<1>c. /\ Cardinality(Requests) \in Nat /\ IsFiniteSet(Requests) /\ Horizon \in Nat
      /\ \A i \in TierIds : Limit(i) \in Nat /\ Window(i) \in Nat /\ Window(i) <= Horizon
  BY Constants, LimiterAssumption
<1> DEFINE q == req[r]
           j == q.tier
<1>1. /\ served' = served /\ events' = events
      /\ q \in InFlight /\ q # None /\ q.pc = "count"
      /\ j \in TierIds /\ q.now \in Times
      /\ Cardinality(Counted(j, q.now)) < Limit(j)
      /\ \A p \in Requests : req'[p] = IF p = r THEN Advance(q) ELSE req[p]
  BY DEF CountAllows, TypeOK, InFlight
<1>2. /\ Advance(q) # None /\ Advance(q).now = q.now
      /\ \A i \in TierIds : Advance(q).pc = "insert" \/ Advance(q).tier > i => j >= i
  <2>1. /\ q.tier \in 1..Len(Tiers) /\ TierIds = 1..Len(Tiers)
        /\ [q EXCEPT !.pc = "insert"].pc = "insert"
        /\ [q EXCEPT !.pc = "insert"].now = q.now
        /\ [q EXCEPT !.tier = @ + 1].pc = "count"
        /\ [q EXCEPT !.tier = @ + 1].now = q.now
        /\ [q EXCEPT !.tier = @ + 1].tier = q.tier + 1
    BY <1>1, Constants DEF InFlight
  <2>2. Advance(q) # None
    BY <1>1, AdvanceType, NoneIsNoRequest
  <2> QED BY <2>1, <2>2 DEF Advance
<1>3. ASSUME NEW i \in TierIds, NEW t \in Times
      PROVE  /\ ServedIn(i, t)' = ServedIn(i, t)
             /\ Remembered(i, t)' <=> Remembered(i, t)
             /\ LiveIn(i, t)' = LiveIn(i, t)
             /\ i # j \/ ~ InWindow(i, t, q.now) => PassedIn(i, t)' \subseteq PassedIn(i, t)
  <2>1. ServedIn(i, t)' = ServedIn(i, t) BY <1>1 DEF ServedIn
  <2>2. Remembered(i, t)' <=> Remembered(i, t) BY <1>1, <2>1 DEF Remembered
  <2>3. LiveIn(i, t)' = LiveIn(i, t) BY <1>1, <1>2 DEF LiveIn
  <2>4. ASSUME i # j \/ ~ InWindow(i, t, q.now), NEW p \in PassedIn(i, t)'
        PROVE  p \in PassedIn(i, t)
    <3>1. p \in LiveIn(i, t) /\ (req'[p].pc = "insert" \/ req'[p].tier > i)
      BY <2>3 DEF PassedIn
    <3>2. CASE p # r BY <1>1, <3>1, <3>2 DEF PassedIn, LiveIn
    <3>3. CASE p = r
      <4>1. InWindow(i, t, q.now) BY <3>1, <3>3 DEF LiveIn
      <4>2. j >= i BY <1>1, <1>2, <3>1, <3>3 DEF LiveIn
      <4>3. j > i BY <1>1, <2>4, <4>1, <4>2, Constants
      <4> QED BY <3>1, <3>3, <4>3 DEF PassedIn
    <3> QED BY <3>2, <3>3
  <2> QED BY <2>1, <2>2, <2>3, <2>4
<1>4. OvershootBounded'
  <2> SUFFICES ASSUME NEW i \in TierIds, NEW t \in Times, Remembered(i, t)'
               PROVE  Cardinality(ServedIn(i, t)') + Cardinality(PassedIn(i, t)')
                        <= Limit(i) + Cardinality(Requests) - 1
    BY DEF OvershootBounded
  <2>1. /\ Cardinality(ServedIn(i, t)) \in Nat
        /\ Cardinality(PassedIn(i, t)) \in Nat /\ IsFiniteSet(PassedIn(i, t))
    BY SetsFinite DEF TypeOK
  <2>2. CASE i # j \/ ~ InWindow(i, t, q.now)
    <3>1. Cardinality(ServedIn(i, t)) + Cardinality(PassedIn(i, t))
            <= Limit(i) + Cardinality(Requests) - 1
      BY <1>3 DEF Bounds, OvershootBounded
    <3>2. /\ Cardinality(PassedIn(i, t)') <= Cardinality(PassedIn(i, t))
          /\ Cardinality(PassedIn(i, t)') \in Nat
      BY <1>3, <2>1, <2>2, FS_Subset, FS_CardinalityType
    <3> QED BY <1>c, <1>3, <2>1, <3>1, <3>2
  <2>3. CASE i = j /\ InWindow(i, t, q.now)
    <3>1. Cardinality(ServedIn(i, t)) <= Cardinality(Counted(i, q.now))
      BY <1>1, <1>3, <2>3, CountSeesWindow
    <3>2. Cardinality(Counted(i, q.now)) \in Nat BY <1>1, CountedFinite
    <3>3. PassedIn(i, t)' \in SUBSET Requests BY DEF PassedIn, LiveIn
    <3>4. /\ Cardinality(PassedIn(i, t)') <= Cardinality(Requests)
          /\ Cardinality(PassedIn(i, t)') \in Nat
      BY <1>c, <3>3, FS_Subset, FS_CardinalityType
    <3>5. ServedIn(i, t)' = ServedIn(i, t) BY <1>3
    <3>6. Cardinality(Counted(i, q.now)) < Limit(i) BY <1>1, <2>3
    <3>7. Cardinality(ServedIn(i, t)) + Cardinality(PassedIn(i, t)')
            <= Limit(i) + Cardinality(Requests) - 1
      BY <1>c, <2>1, <3>1, <3>2, <3>4, <3>6
    <3> QED BY <3>5, <3>7
  <2> QED BY <2>2, <2>3
<1>5. ServedBounded'
  BY <1>3 DEF Bounds, ServedBounded
<1> QED BY <1>4, <1>5 DEF Bounds

LEMMA BoundsInsert ==
  ASSUME TypeOK, Consistent, Bounds, NEW r \in Requests, Insert(r)
  PROVE  Bounds'
<1>c. /\ Cardinality(Requests) \in Nat /\ IsFiniteSet(Requests) /\ Horizon \in Nat
      /\ \A i \in TierIds : Limit(i) \in Nat /\ Window(i) \in Nat /\ Window(i) <= Horizon
  BY Constants, LimiterAssumption
<1> DEFINE s == [id |-> Cardinality(served), at |-> req[r].now]
<1>1. /\ req[r] # None /\ req[r].pc = "insert"
      /\ served' = served \cup {s}
      /\ events' = events \cup RecordEveryTier(s)
      /\ req' = [req EXCEPT ![r] = None]
  BY DEF Insert
<1>2. /\ s \notin served
      /\ \A i, j \in TierIds : \A o \in served : Row(i, o) # Row(j, s)
  BY <1>1, NewServed
<1> HIDE DEF s
<1>3. s.at = req[r].now BY DEF s
<1>4. ASSUME NEW i \in TierIds, NEW t \in Times
      PROVE  /\ Remembered(i, t)' => Remembered(i, t)
             /\ Cardinality(ServedIn(i, t)') \in Nat /\ Cardinality(ServedIn(i, t)) \in Nat
             /\ Cardinality(PassedIn(i, t)') \in Nat /\ Cardinality(PassedIn(i, t)) \in Nat
             /\ Cardinality(LiveIn(i, t)') \in Nat /\ Cardinality(LiveIn(i, t)) \in Nat
             /\ Cardinality(ServedIn(i, t)') + Cardinality(PassedIn(i, t)')
                  <= Cardinality(ServedIn(i, t)) + Cardinality(PassedIn(i, t))
             /\ Cardinality(ServedIn(i, t)') + Cardinality(LiveIn(i, t)')
                  <= Cardinality(ServedIn(i, t)) + Cardinality(LiveIn(i, t))
  <2>1. ASSUME Remembered(i, t)', NEW o \in ServedIn(i, t) PROVE Row(i, o) \in events
    <3>1. o \in served /\ Row(i, o) \in events'
      BY <1>1, <2>1 DEF Remembered, ServedIn
    <3>2. Row(i, o) \notin RecordEveryTier(s)
      BY <1>2, <3>1 DEF RecordEveryTier
    <3> QED BY <1>1, <3>1, <3>2
  <2>2. /\ LiveIn(i, t)' \subseteq LiveIn(i, t) \ {r}
        /\ PassedIn(i, t)' \subseteq PassedIn(i, t) \ {r}
    BY <1>1, RequestGone
  <2>3. /\ IsFiniteSet(ServedIn(i, t)) /\ Cardinality(ServedIn(i, t)) \in Nat
        /\ IsFiniteSet(LiveIn(i, t)) /\ Cardinality(LiveIn(i, t)) \in Nat
        /\ IsFiniteSet(PassedIn(i, t)) /\ Cardinality(PassedIn(i, t)) \in Nat
    BY SetsFinite DEF TypeOK
  <2> DEFINE L == LiveIn(i, t) \ {r}
             P == PassedIn(i, t) \ {r}
  <2>4. /\ IsFiniteSet(L) /\ Cardinality(L) \in Nat
        /\ Cardinality(L) = IF r \in LiveIn(i, t) THEN Cardinality(LiveIn(i, t)) - 1
                                                ELSE Cardinality(LiveIn(i, t))
        /\ IsFiniteSet(P) /\ Cardinality(P) \in Nat
        /\ Cardinality(P) = IF r \in PassedIn(i, t) THEN Cardinality(PassedIn(i, t)) - 1
                                                  ELSE Cardinality(PassedIn(i, t))
    BY <2>3, FS_RemoveElement, FS_CardinalityType
  <2>5. /\ Cardinality(LiveIn(i, t)') <= Cardinality(L)
        /\ Cardinality(LiveIn(i, t)') \in Nat
        /\ Cardinality(PassedIn(i, t)') <= Cardinality(P)
        /\ Cardinality(PassedIn(i, t)') \in Nat
    BY <2>2, <2>4, FS_Subset, FS_CardinalityType
  <2>6. CASE InWindow(i, t, req[r].now)
    <3>1. ServedIn(i, t)' = ServedIn(i, t) \cup {s}
      BY <1>1, <1>3, <2>6 DEF ServedIn
    <3>2. Cardinality(ServedIn(i, t)') = Cardinality(ServedIn(i, t)) + 1
      BY <1>2, <2>3, <3>1, FS_AddElement DEF ServedIn
    <3>3. r \in LiveIn(i, t) /\ r \in PassedIn(i, t)
      BY <1>1, <2>6 DEF PassedIn, LiveIn
    <3>4. /\ Cardinality(PassedIn(i, t)') <= Cardinality(PassedIn(i, t)) - 1
          /\ Cardinality(LiveIn(i, t)') <= Cardinality(LiveIn(i, t)) - 1
      BY <2>4, <2>5, <3>3
    <3>5. Cardinality(ServedIn(i, t)') \in Nat BY <2>3, <3>2
    <3> QED BY <2>1, <2>3, <2>5, <3>2, <3>4, <3>5 DEF Remembered
  <2>7. CASE ~ InWindow(i, t, req[r].now)
    <3>1. ServedIn(i, t)' = ServedIn(i, t)
      BY <1>1, <1>3, <2>7 DEF ServedIn
    <3>2. /\ Cardinality(PassedIn(i, t)') <= Cardinality(PassedIn(i, t))
          /\ Cardinality(LiveIn(i, t)') <= Cardinality(LiveIn(i, t))
      BY <2>3, <2>4, <2>5
    <3>3. Cardinality(ServedIn(i, t)') \in Nat BY <2>3, <3>1
    <3> QED BY <2>1, <2>3, <2>5, <3>1, <3>2, <3>3 DEF Remembered
  <2> QED BY <2>6, <2>7
<1>5. OvershootBounded'
  <2> SUFFICES ASSUME NEW i \in TierIds, NEW t \in Times, Remembered(i, t)'
               PROVE  Cardinality(ServedIn(i, t)') + Cardinality(PassedIn(i, t)')
                        <= Limit(i) + Cardinality(Requests) - 1
    BY DEF OvershootBounded
  <2>1. Cardinality(ServedIn(i, t)) + Cardinality(PassedIn(i, t))
          <= Limit(i) + Cardinality(Requests) - 1
    BY <1>4 DEF Bounds, OvershootBounded
  <2> QED BY <1>c, <1>4, <2>1
<1>6. ServedBounded'
  <2> SUFFICES ASSUME NEW i \in TierIds, NEW t \in Times
               PROVE  Cardinality(ServedIn(i, t)') + Cardinality(LiveIn(i, t)')
                        <= Limit(i) + 2 * Cardinality(Requests) - 1
    BY DEF ServedBounded
  <2>1. Cardinality(ServedIn(i, t)) + Cardinality(LiveIn(i, t))
          <= Limit(i) + 2 * Cardinality(Requests) - 1
    BY DEF Bounds, ServedBounded
  <2> QED BY <1>c, <1>4, <2>1
<1> QED BY <1>5, <1>6 DEF Bounds

LEMMA BoundsStep == TypeOK /\ Consistent /\ Bounds /\ [Next]_vars => Bounds'
<1> SUFFICES ASSUME TypeOK, Consistent, Bounds, [Next]_vars PROVE Bounds'
  OBVIOUS
<1> DEFINE Quiet ==
      \A i \in TierIds : \A t \in Times :
        /\ Remembered(i, t)' => Remembered(i, t)
        /\ LiveIn(i, t)' \subseteq LiveIn(i, t)
        /\ PassedIn(i, t)' \subseteq PassedIn(i, t)
<1>1. CASE Tick
  <2>1. served' = served /\ Quiet
    BY <1>1 DEF Tick, Remembered, ServedIn, LiveIn, PassedIn
  <2> QED BY <2>1, QuietStep
<1>2. CASE Prune
  <2>1. served' = served /\ req' = req /\ events' \subseteq events
    BY <1>2 DEF Prune
  <2>2. Quiet BY <2>1 DEF Remembered, ServedIn, LiveIn, PassedIn
  <2> QED BY <2>1, <2>2, QuietStep
<1>3. ASSUME NEW r \in Requests, Arrive(r) PROVE Bounds'
  BY <1>3, BoundsArrive, TypeStep
<1>4. ASSUME NEW r \in Requests, CountAllows(r) PROVE Bounds'
  BY <1>4, BoundsCountAllows
<1>5. ASSUME NEW r \in Requests, Deny(r) \/ Fails(r) PROVE Bounds'
  <2>1. served' = served /\ events' = events /\ req' = [req EXCEPT ![r] = None]
    BY <1>5 DEF Deny, Fails
  <2>2. Quiet BY <2>1, RequestGone DEF Remembered, ServedIn
  <2> QED BY <2>1, <2>2, QuietStep
<1>6. ASSUME NEW r \in Requests, Insert(r) PROVE Bounds'
  BY <1>6, BoundsInsert
<1>7. CASE UNCHANGED vars
  <2>1. served' = served /\ Quiet
    BY <1>7 DEF vars, Remembered, ServedIn, LiveIn, PassedIn
  <2> QED BY <2>1, QuietStep
<1> QED BY <1>1, <1>2, <1>3, <1>4, <1>5, <1>6, <1>7 DEF Next

LEMMA IInvInit == Init => IInv
<1> SUFFICES ASSUME Init PROVE IInv
  OBVIOUS
<1>1. TypeOK BY LimiterAssumption, FS_EmptySet DEF Init, TypeOK, Times
<1>2. Consistent BY DEF Init, Consistent
<1>3. ASSUME NEW i \in TierIds, NEW t \in Times
      PROVE  /\ Cardinality(ServedIn(i, t)) = 0
             /\ Cardinality(LiveIn(i, t)) = 0
             /\ Cardinality(PassedIn(i, t)) = 0
  <2>1. ServedIn(i, t) = {} /\ LiveIn(i, t) = {} /\ PassedIn(i, t) = {}
    BY DEF Init, ServedIn, LiveIn, PassedIn
  <2> QED BY <2>1, FS_EmptySet
<1>4. Cardinality(Requests) \in Nat \ {0}
  BY LimiterAssumption, FS_CardinalityType, FS_EmptySet
<1>5. \A i \in TierIds :
        /\ 0 + 0 <= Limit(i) + Cardinality(Requests) - 1
        /\ 0 + 0 <= Limit(i) + 2 * Cardinality(Requests) - 1
  BY <1>4, Constants
<1>6. OvershootBounded BY <1>3, <1>5 DEF OvershootBounded
<1>7. ServedBounded BY <1>3, <1>5 DEF ServedBounded
<1> QED BY <1>1, <1>2, <1>6, <1>7 DEF IInv

LEMMA LimiterInvariant == Spec => []IInv
<1>1. IInv /\ [Next]_vars => IInv'
  BY TypeStep, ConsistentStep, BoundsStep DEF IInv, Bounds
<1> QED BY IInvInit, <1>1, PTL DEF Spec

\* However many requests a caller has in flight, and however they interleave,
\* they overshoot the limit of a window by less than their number, as long as the
\* window's events are in the table (consumeRateLimits: "overshoot by
\* ~concurrency").
THEOREM OvershootIsBounded == Spec => []OvershootBounded
BY LimiterInvariant, PTL DEF IInv

\* Wherever the cron's pruning falls among them, by less than twice their number.
THEOREM ServedIsBounded == Spec => []ServedBounded
BY LimiterInvariant, PTL DEF IInv

\* The cron never drops what a request entering now has to count
\* (pruneRateEvents, with the horizon of index.ts:124).
THEOREM PruningIsHarmless == Spec => []NothingForgotten
<1>1. ASSUME IInv PROVE NothingForgotten
  <2> SUFFICES ASSUME NEW s \in served, NEW i \in TierIds,
                      s.at >= clock - Window(i), Row(i, s) \notin events
               PROVE  FALSE
    BY DEF NothingForgotten
  <2>1. s.at < clock - Horizon BY <1>1 DEF IInv, Consistent
  <2>2. s.at \in Nat /\ clock \in Nat
    BY <1>1, LimiterAssumption DEF IInv, TypeOK, Served, Times
  <2>3. Window(i) \in Nat /\ Horizon \in Nat /\ Window(i) <= Horizon
    BY Constants, LimiterAssumption
  <2> QED BY <2>1, <2>2, <2>3
<1> QED BY <1>1, LimiterInvariant, PTL

-----------------------------------------------------------------------------
(* 5. What a Retry-After is worth *)

\* Rounding up adds less than a second.
LEMMA RetryAfterRounds ==
  ASSUME NEW x \in Int
  PROVE  RetryAfter(x) = 1 \/ Second * RetryAfter(x) < x + Second
<1>1. Second \in Nat \ {0} BY LimiterAssumption
<1> DEFINE a == x + Second - 1
<1>2. ASSUME x > Second PROVE Second * (a \div Second) <= a
  <2>1. a \in Nat BY <1>1, <1>2
  <2> HIDE DEF a
  <2> QED BY <1>1, <2>1
<1>3. CASE x <= Second BY <1>3 DEF RetryAfter
<1>4. CASE x > Second
  <2>1. RetryAfter(x) = a \div Second BY <1>1, <1>4 DEF RetryAfter
  <2>2. a \div Second \in Int BY <1>1
  <2>3. Second * (a \div Second) \in Int BY <1>1, <2>2
  <2> QED BY <1>1, <1>2, <1>4, <2>1, <2>3
<1> QED BY <1>1, <1>3, <1>4

LEMMA AdviceKept ==
  ASSUME TypeOK, AdviceIsTight, advice' = advice,
         clock' \in Nat, clock' >= clock,
         \A i \in TierIds : \A t \in Nat :
           t >= clock => Counted(i, t)' = Counted(i, t)
  PROVE  AdviceIsTight'
<1> SUFFICES ASSUME advice # None, NEW t \in clock'..(advice.until - Second)
             PROVE  Cardinality(Counted(advice.tier, t)') >= Limit(advice.tier)
  BY DEF AdviceIsTight
<1>1. advice.tier \in TierIds /\ advice.until \in Int /\ clock \in Nat
  BY DEF TypeOK, Times
<1>2. t \in clock..(advice.until - Second) /\ t \in Nat
  BY <1>1, LimiterAssumption
<1>3. Cardinality(Counted(advice.tier, t)) >= Limit(advice.tier)
  BY <1>2 DEF AdviceIsTight
<1>4. Counted(advice.tier, t)' = Counted(advice.tier, t)
  BY <1>1, <1>2
<1> QED BY <1>3, <1>4

\* Until a second before its end, the wait keeps every counted event counted.
LEMMA AdviceGiven ==
  ASSUME TypeOK, Consistent, NEW r \in Requests, Deny(r)
  PROVE  AdviceIsTight'
<1>0. req[r] # None /\ req[r] \in InFlight BY DEF Deny, TypeOK
<1>i. PICK i \in TierIds : i = req[r].tier BY <1>0 DEF InFlight
<1>n. PICK now \in Times : now = req[r].now BY <1>0 DEF InFlight
<1> DEFINE C == Counted(i, now)
<1>1. now \in Nat /\ now <= clock /\ clock \in Nat
  BY <1>0, <1>n DEF TypeOK, Consistent, Times
<1>2. Cardinality(C) >= Limit(i) /\ events' = events /\ clock' = clock
  BY <1>i, <1>n DEF Deny
<1>3. PICK e \in events :
        /\ Oldest(i, now, e)
        /\ advice' =
             [tier |-> i,
              until |-> now + Second * RetryAfter(e.at + Window(i) - now),
              overshot |-> Cardinality(Counted(i, now)) > Limit(i)]
  BY <1>i, <1>n DEF Deny
<1> DEFINE x == e.at + Window(i) - now
<1>4. /\ Second \in Nat \ {0} /\ Window(i) \in Nat
      /\ e.at \in Nat /\ x \in Int /\ RetryAfter(x) \in Int
  <2>1. Window(i) \in Nat BY <1>1, Constants
  <2>2. e.at \in Nat BY DEF TypeOK, Rows, Times
  <2>3. x \in Int BY <1>1, <2>1, <2>2
  <2> QED BY <2>1, <2>2, <2>3, RetryAfterType, LimiterAssumption
<1>5. ASSUME NEW t \in clock..(advice'.until - Second)
      PROVE  Cardinality(Counted(i, t)) >= Limit(i)
  <2>1. t \in Int /\ clock <= t /\ t <= now + Second * RetryAfter(x) - Second
    BY <1>1, <1>3, <1>4
  <2>2. t = now \/ t < now + x
    <3>1. CASE RetryAfter(x) = 1 BY <1>1, <1>4, <2>1, <3>1
    <3>2. CASE Second * RetryAfter(x) < x + Second
      <4>1. Second * RetryAfter(x) \in Int BY <1>4
      <4> QED BY <1>1, <1>4, <2>1, <3>2, <4>1
    <3> QED BY <1>4, <3>1, <3>2, RetryAfterRounds
  <2>3. CASE t = now BY <1>2, <2>3
  <2>4. CASE t < now + x
    <3>1. t - Window(i) < e.at BY <1>1, <1>4, <2>1, <2>4
    <3>2. ASSUME NEW f \in C PROVE f \in Counted(i, t)
      <4>1. f \in events /\ f.tier = i /\ f.at \in Nat /\ e.at <= f.at
        BY <1>3 DEF Oldest, Counted, TypeOK, Rows, Times
      <4>2. f.at >= t - Window(i) BY <1>4, <2>1, <3>1, <4>1
      <4> QED BY <4>1, <4>2 DEF Counted
    <3>3. ASSUME NEW f \in Counted(i, t) PROVE f \in C
      <4>1. f \in events /\ f.tier = i /\ f.at \in Nat /\ f.at >= t - Window(i)
        BY DEF Counted, TypeOK, Rows, Times
      <4>2. f.at >= now - Window(i) BY <1>1, <1>4, <2>1, <4>1
      <4> QED BY <4>1, <4>2 DEF Counted
    <3>4. Counted(i, t) = C BY <3>2, <3>3
    <3> QED BY <1>2, <3>4
  <2> QED BY <2>2, <2>3, <2>4
<1>6. advice'.tier = i BY <1>3
<1>7. ASSUME NEW t \in clock'..(advice'.until - Second)
      PROVE  (Cardinality(Counted(advice.tier, t)) >= Limit(advice.tier))'
  <2>1. Cardinality(Counted(i, t)) >= Limit(i) BY <1>2, <1>5, <1>7
  <2>2. Counted(i, t) = Counted(advice.tier, t)' BY <1>2, <1>6 DEF Counted
  <2>3. Limit(advice.tier)' = Limit(i) BY <1>6 DEF Limit
  <2> QED BY <2>1, <2>2, <2>3
<1> QED BY <1>7 DEF AdviceIsTight

\* A caller told to wait would have been refused all the while, but for less than
\* a second at the end: Retry-After never asks for more (store.ts:43), whatever
\* burst overshot the limit.
THEOREM RetryAfterIsTight == Spec => []AdviceIsTight
<1>1. Init => AdviceIsTight BY DEF Init, AdviceIsTight
<1>2. ASSUME IInv, AdviceIsTight, [Next]_vars PROVE AdviceIsTight'
  <2>t. TypeOK /\ Consistent /\ TypeOK' BY <1>2, TypeStep DEF IInv
  <2>c. clock \in Nat /\ clock' \in Nat
    BY <2>t DEF TypeOK, Times
  <2>1. CASE Tick
    BY <1>2, <2>1, <2>t, <2>c, AdviceKept DEF Tick, Counted
  <2>2. CASE Prune
    <3>1. PICK now \in 0..clock : events' = events \ Expired(now)
      BY <2>2 DEF Prune
    <3>2. ASSUME NEW i \in TierIds, NEW t \in Nat, t >= clock
          PROVE  Counted(i, t)' = Counted(i, t)
      <4>1. Window(i) \in Nat /\ Horizon \in Nat /\ Window(i) <= Horizon
        BY Constants, LimiterAssumption
      <4>2. ASSUME NEW e \in Counted(i, t) PROVE e \notin Expired(now)
        <5>1. e.at \in Nat /\ e.at >= t - Window(i)
          BY <2>t DEF Counted, TypeOK, Rows, Times
        <5>2. ~ (e.at < now - Horizon) BY <2>c, <3>2, <4>1, <5>1
        <5> QED BY <5>2 DEF Expired
      <4> QED BY <3>1, <4>2 DEF Counted
    <3>3. advice' = advice /\ clock' = clock BY <2>2 DEF Prune
    <3> QED BY <1>2, <2>t, <2>c, <3>2, <3>3, AdviceKept
  <2>3. ASSUME NEW r \in Requests, Arrive(r) \/ CountAllows(r) \/ Fails(r)
        PROVE  AdviceIsTight'
    <3>1. advice' = advice /\ clock' = clock /\ events' = events
      BY <2>3 DEF Arrive, CountAllows, Fails
    <3> QED BY <1>2, <2>t, <2>c, <3>1, AdviceKept DEF Counted
  <2>4. ASSUME NEW r \in Requests, Deny(r) PROVE AdviceIsTight'
    BY <2>4, <2>t, AdviceGiven
  <2>5. ASSUME NEW r \in Requests, Insert(r) PROVE AdviceIsTight'
    BY <2>5 DEF Insert, AdviceIsTight
  <2>6. CASE UNCHANGED vars
    BY <1>2, <2>6, <2>t, <2>c, AdviceKept DEF vars, Counted
  <2> QED BY <1>2, <2>1, <2>2, <2>3, <2>4, <2>5, <2>6 DEF Next
<1> QED BY <1>1, <1>2, LimiterInvariant, PTL DEF Spec

\* Rounding never shortens the wait.
LEMMA RetryAfterCovers ==
  ASSUME NEW x \in Int
  PROVE  Second * RetryAfter(x) \in Int /\ Second * RetryAfter(x) >= x
<1>1. Second \in Nat \ {0} /\ RetryAfter(x) \in Int
  BY LimiterAssumption, RetryAfterType
<1> DEFINE a == x + Second - 1
<1>2. ASSUME x > Second PROVE a < Second * (a \div Second) + Second
  <2>1. a \in Nat BY <1>1, <1>2
  <2> HIDE DEF a
  <2> QED BY <1>1, <2>1
<1>3. CASE x <= Second BY <1>1, <1>3 DEF RetryAfter
<1>4. CASE x > Second
  <2>1. RetryAfter(x) = a \div Second BY <1>1, <1>4 DEF RetryAfter
  <2>2. Second * (a \div Second) \in Int BY <1>1, <2>1
  <2> QED BY <1>1, <1>2, <1>4, <2>1, <2>2
<1> QED BY <1>1, <1>3, <1>4

\* Later than the wait, too few events are left for the tier to refuse.
WaitIsEnough ==
  advice # None /\ ~advice.overshot =>
    \A t \in Int : t > advice.until =>
      /\ IsFiniteSet(Counted(advice.tier, t))
      /\ Cardinality(Counted(advice.tier, t)) < Limit(advice.tier)

LEMMA EnoughKept ==
  ASSUME TypeOK, WaitIsEnough, advice' = advice, events' \subseteq events
  PROVE  WaitIsEnough'
<1> SUFFICES ASSUME advice # None, ~advice.overshot,
                    NEW t \in Int, t > advice.until
             PROVE  /\ IsFiniteSet(Counted(advice.tier, t)')
                    /\ Cardinality(Counted(advice.tier, t)') < Limit(advice.tier)
  BY DEF WaitIsEnough
<1>1. IsFiniteSet(Counted(advice.tier, t))
      /\ Cardinality(Counted(advice.tier, t)) < Limit(advice.tier)
  BY DEF WaitIsEnough
<1>2. Counted(advice.tier, t)' \in SUBSET Counted(advice.tier, t) BY DEF Counted
<1>3. /\ IsFiniteSet(Counted(advice.tier, t)')
      /\ Cardinality(Counted(advice.tier, t)') <= Cardinality(Counted(advice.tier, t))
  BY <1>1, <1>2, FS_Subset
<1>4. Cardinality(Counted(advice.tier, t)') \in Nat
      /\ Cardinality(Counted(advice.tier, t)) \in Nat
  BY <1>1, <1>3, FS_CardinalityType
<1>5. Limit(advice.tier) \in Nat BY Constants DEF TypeOK
<1> QED BY <1>1, <1>3, <1>4, <1>5

\* Later than the wait the oldest counted event has left the window, and nothing
\* has come since.
LEMMA EnoughGiven ==
  ASSUME TypeOK, Consistent, NEW r \in Requests, Deny(r)
  PROVE  WaitIsEnough'
<1>0. req[r] # None /\ req[r] \in InFlight BY DEF Deny, TypeOK
<1>i. PICK i \in TierIds : i = req[r].tier BY <1>0 DEF InFlight
<1>n. PICK now \in Times : now = req[r].now BY <1>0 DEF InFlight
<1> DEFINE C == Counted(i, now)
<1>1. now \in Nat /\ Limit(i) \in Nat \ {0} /\ Window(i) \in Nat
  BY Constants DEF Times
<1>2. IsFiniteSet(C) /\ Cardinality(C) \in Nat /\ events' = events
  BY CountedFinite DEF Deny
<1>3. PICK e \in events :
        /\ Oldest(i, now, e)
        /\ advice' =
             [tier |-> i,
              until |-> now + Second * RetryAfter(e.at + Window(i) - now),
              overshot |-> Cardinality(Counted(i, now)) > Limit(i)]
  BY <1>i, <1>n DEF Deny
<1> DEFINE x == e.at + Window(i) - now
<1>4. e.at \in Nat /\ x \in Int /\ e \in C /\ x >= 0
  <2>1. e.at \in Nat BY DEF TypeOK, Rows, Times
  <2>2. e \in C /\ e.at >= now - Window(i) BY <1>3 DEF Oldest, Counted
  <2> QED BY <1>1, <2>1, <2>2
<1>5. Second * RetryAfter(x) \in Int /\ Second * RetryAfter(x) >= x
  BY <1>4, RetryAfterCovers
<1>6. ASSUME ~advice'.overshot, NEW t \in Int, t > advice'.until
      PROVE  IsFiniteSet(Counted(i, t)) /\ Cardinality(Counted(i, t)) < Limit(i)
  <2>0. ~(Cardinality(C) > Limit(i))
    <3>1. advice'.overshot = (Cardinality(C) > Limit(i)) BY <1>3, Zenon
    <3> QED BY <1>6, <3>1, Zenon
  <2>1. Cardinality(C) <= Limit(i) BY <1>1, <1>2, <2>0
  <2>2. t > now + x /\ t > now BY <1>1, <1>3, <1>4, <1>5, <1>6
  <2>3. ASSUME NEW f \in Counted(i, t) PROVE f \in C \ {e}
    <3>1. f \in events /\ f.tier = i /\ f.at \in Nat /\ f.at >= t - Window(i)
      BY DEF Counted, TypeOK, Rows, Times
    <3>2. f.at >= now - Window(i) /\ f.at # e.at BY <1>1, <1>4, <2>2, <3>1
    <3> QED BY <3>1, <3>2 DEF Counted
  <2>4. IsFiniteSet(C \ {e}) /\ Cardinality(C \ {e}) = Cardinality(C) - 1
    BY <1>2, <1>4, FS_RemoveElement
  <2>5. Counted(i, t) \in SUBSET (C \ {e}) BY <2>3
  <2>6. IsFiniteSet(Counted(i, t))
        /\ Cardinality(Counted(i, t)) <= Cardinality(C \ {e})
    BY <2>4, <2>5, FS_Subset
  <2>7. Cardinality(Counted(i, t)) \in Nat BY <2>6, FS_CardinalityType
  <2> QED BY <1>1, <1>2, <2>1, <2>4, <2>6, <2>7
<1>7. advice'.tier = i BY <1>3
<1>8. ASSUME ~advice'.overshot, NEW t \in Int, t > advice'.until
      PROVE  /\ IsFiniteSet(Counted(advice.tier, t)')
             /\ Cardinality(Counted(advice.tier, t)') < Limit(advice.tier)'
  <2>1. Counted(i, t) = Counted(advice.tier, t)' BY <1>2, <1>7 DEF Counted
  <2>2. Limit(advice.tier)' = Limit(i) BY <1>7 DEF Limit
  <2> QED BY <1>6, <1>8, <2>1, <2>2
<1> QED BY <1>8 DEF WaitIsEnough

\* Unless a burst overshot the limit, whoever waits longer than Retry-After said,
\* and was admitted nowhere meanwhile, is not refused by the same tier again,
\* however requests and pruning interleave (store.ts:41-44).
THEOREM RetryAfterSuffices == Spec => AdviceSuffices
<1>1. Init => WaitIsEnough BY DEF Init, WaitIsEnough
<1>2. ASSUME IInv, WaitIsEnough, [Next]_vars PROVE WaitIsEnough'
  <2>t. TypeOK /\ Consistent BY <1>2 DEF IInv
  <2>1. CASE Tick BY <1>2, <2>1, <2>t, EnoughKept DEF Tick
  <2>2. CASE Prune
    <3>1. events' \subseteq events /\ advice' = advice BY <2>2 DEF Prune
    <3> QED BY <1>2, <2>t, <3>1, EnoughKept
  <2>3. ASSUME NEW r \in Requests, Arrive(r) \/ CountAllows(r) \/ Fails(r)
        PROVE  WaitIsEnough'
    <3>1. events' = events /\ advice' = advice
      BY <2>3 DEF Arrive, CountAllows, Fails
    <3> QED BY <1>2, <2>t, <3>1, EnoughKept
  <2>4. ASSUME NEW r \in Requests, Deny(r) PROVE WaitIsEnough'
    BY <2>4, <2>t, EnoughGiven
  <2>5. ASSUME NEW r \in Requests, Insert(r) PROVE WaitIsEnough'
    BY <2>5 DEF Insert, WaitIsEnough
  <2>6. CASE UNCHANGED vars BY <1>2, <2>6, <2>t, EnoughKept DEF vars
  <2> QED BY <1>2, <2>1, <2>2, <2>3, <2>4, <2>5, <2>6 DEF Next
<1> DEFINE Waited ==
      \A r \in Requests :
        Deny(r) /\ advice # None /\ ~advice.overshot /\ advice.tier = req[r].tier
          => req[r].now <= advice.until
<1>3. ASSUME IInv, WaitIsEnough PROVE Waited
  <2> SUFFICES ASSUME NEW r \in Requests, Deny(r), advice # None,
                      ~advice.overshot, advice.tier = req[r].tier,
                      ~(req[r].now <= advice.until)
               PROVE  FALSE
    OBVIOUS
  <2>1. req[r] \in InFlight /\ advice.until \in Int
    BY <1>3 DEF IInv, TypeOK, Deny
  <2> DEFINE i == req[r].tier
             now == req[r].now
  <2>2. i \in TierIds /\ now \in Nat /\ now > advice.until
    BY <2>1 DEF InFlight, Times
  <2>3. Cardinality(Counted(i, now)) >= Limit(i) BY DEF Deny
  <2>4. IsFiniteSet(Counted(i, now)) /\ Cardinality(Counted(i, now)) < Limit(i)
    BY <1>3, <2>2 DEF WaitIsEnough
  <2>5. Limit(i) \in Nat /\ Cardinality(Counted(i, now)) \in Nat
    BY <2>2, <2>4, Constants, FS_CardinalityType
  <2> QED BY <2>3, <2>4, <2>5
<1>4. IInv /\ WaitIsEnough /\ [Next]_vars => WaitIsEnough' BY <1>2
<1>5. IInv /\ WaitIsEnough => [Waited]_vars BY <1>3
<1> QED BY <1>1, <1>4, <1>5, LimiterInvariant, PTL DEF Spec, AdviceSuffices
=============================================================================
