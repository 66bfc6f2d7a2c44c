----------------------------- MODULE WorkerPool -----------------------------
(***************************************************************************)
(* mapWithConcurrency (src/github/snapshot.ts:16-42).  The workers share   *)
(* one iterator; taking from it is synchronous, so a worker that settles   *)
(* its item takes the next one in the same step.  A pool is a record:      *)
(*                                                                         *)
(*   next   the item the iterator hands out next                           *)
(*   at     the item each worker awaits, 0 once it found the queue empty   *)
(*   out    what became of each item; "todo" is the FAILED sentinel before *)
(*          anybody had the item                                           *)
(***************************************************************************)
EXTENDS Naturals, Sequences, FiniteSets

CONSTANT Width   \* the concurrency the caller asks for

ASSUME WidthAssumption == Width \in Nat \ {0}

Lesser(m, n) == IF m <= n THEN m ELSE n

\* The workers run up to their first await as they are created.
PoolOf(n) ==
  [next |-> Lesser(Width, n) + 1,
   at |-> [w \in 1..Lesser(Width, n) |-> w],
   out |-> [i \in 1..n |-> "todo"]]

Size(p) == Len(p.out)

Working(p) == {w \in DOMAIN p.at : p.at[w] # 0}

\* Worker w's item settles, and w takes the next one.
Settled(p, w, o) ==
  [next |-> Lesser(p.next + 1, Size(p) + 1),
   at |-> [p.at EXCEPT ![w] = IF p.next <= Size(p) THEN p.next ELSE 0],
   out |-> [p.out EXCEPT ![p.at[w]] = o]]

VARIABLES
  phase,   \* "idle", "busy" or "returned"
  pool,
  result   \* the items of the result, in order

poolVars == <<phase, pool, result>>

NoPool == [next |-> 1, at |-> <<>>, out |-> <<>>]

State(i) ==
  IF pool.out[i] # "todo" THEN pool.out[i]
  ELSE IF \E w \in DOMAIN pool.at : pool.at[w] = i THEN "running"
  ELSE "todo"

jobs == [i \in 1..Size(pool) |-> State(i)]

\* The refinement mapping: a pool is the abstract map whose items are in the
\* states above.
Map == INSTANCE ParallelMap WITH jobs <- jobs

PoolInit == phase = "idle" /\ pool = NoPool /\ result = <<>>

StartPool(n) ==
  /\ phase = "idle"
  /\ phase' = "busy"
  /\ pool' = PoolOf(n)
  /\ UNCHANGED result

Settles(w, o) ==
  /\ phase = "busy"
  /\ w \in Working(pool)
  /\ pool' = Settled(pool, w, o)
  /\ UNCHANGED <<phase, result>>

\* Mutant: Promise.race.
CollectWithFirst ==
  /\ phase = "busy"
  /\ \A w \in DOMAIN pool.at : \E v \in DOMAIN pool.at : pool.at[v] = 0
  /\ phase' = "returned"
  /\ result' = Map!Ascending({i \in 1..Size(pool) : pool.out[i] = "ok"})
  /\ UNCHANGED pool

\* Mutant: an item that fails is waited for.
CollectWhenAllSucceed ==
  /\ phase = "busy"
  /\ \A i \in 1..Size(pool) : pool.out[i] = "ok"
  /\ phase' = "returned"
  /\ result' = Map!Ascending(1..Size(pool))
  /\ UNCHANGED pool

\* Promise.all, and the filter that drops the sentinels.
CollectResults ==
  /\ phase = "busy"
  /\ Working(pool) = {}
  /\ phase' = "returned"
  /\ result' = Map!Ascending({i \in 1..Size(pool) : pool.out[i] = "ok"})
  /\ UNCHANGED pool

PoolNext ==
  \/ \E n \in Nat : StartPool(n)
  \/ \E w \in DOMAIN pool.at, o \in {"ok", "failed"} : Settles(w, o)
  \/ CollectResults

PoolSpec == PoolInit /\ [][PoolNext]_poolVars

\* What mapWithConcurrency promises its callers (snapshot.ts:12-15): each item
\* once, Width at a time, failures alone, in order.
MapSpec == Map!Spec

-----------------------------------------------------------------------------
\* Why no item is missed and none is taken twice: the items below the cursor have
\* been taken, each by one worker, the others by nobody; a worker that stopped
\* found nothing left.
Consistent(p) ==
  /\ p.out \in Seq({"todo", "ok", "failed"})
  /\ p.next \in 1..Size(p)+1
  /\ p.at \in Seq(0..Size(p))
  /\ Len(p.at) <= Width
  /\ Size(p) > 0 => Len(p.at) > 0
  /\ \A v, w \in DOMAIN p.at : p.at[w] # 0 /\ p.at[v] = p.at[w] => v = w
  /\ \A w \in DOMAIN p.at :
       /\ p.at[w] < p.next
       /\ p.at[w] # 0 => p.out[p.at[w]] = "todo"
       /\ p.at[w] = 0 => p.next = Size(p) + 1
  /\ \A i \in 1..Size(p) :
       p.out[i] = "todo" <=> i >= p.next \/ \E w \in DOMAIN p.at : p.at[w] = i

PoolInv == phase \in {"idle", "busy", "returned"} /\ Consistent(pool)
=============================================================================
