--------------------------- MODULE ScanRouteProofs ---------------------------
(***************************************************************************)
(* Proofs about ScanRoute and its WorkerPool, for any account, caps,       *)
(* retries, concurrency and number of pushes.                              *)
(*                                                                         *)
(*   1. the pool's invariant                                               *)
(*   2. the pool implements the parallel map                               *)
(*   3. the outcomes of a call to GitHub                                   *)
(*   4. types, and the pool of a scan                                      *)
(*   5. no repository is reported on twice                                 *)
(*   6. what a scan spends                                                 *)
(*   7. orders and sorts                                                   *)
(*   8. the score of an account, and its worst repository                  *)
(*   9. bursts: the loop over the sorted days of creation                  *)
(*  10. matches: the loops over the candidates of a clone search           *)
(*  11. what a report is made of                                           *)
(*                                                                         *)
(* A recursive function and a fold are unfolded by the smallest exception  *)
(* (Smallest, MinimalSet), which stands in for induction.                  *)
(***************************************************************************)
EXTENDS ScanRoute, FiniteSetTheorems, SequenceTheorems, TLAPS

-----------------------------------------------------------------------------
(* 1. The pool's invariant *)

\* The arithmetic of the shared iterator.
LEMMA LesserType ==
  ASSUME NEW m \in Nat, NEW n \in Nat
  PROVE  /\ Lesser(m, n) \in Nat
         /\ Lesser(m, n) <= m /\ Lesser(m, n) <= n
         /\ Lesser(m, n) \in {m, n}
BY DEF Lesser

LEMMA PoolInvInit == PoolInit => PoolInv
<1> SUFFICES ASSUME PoolInit PROVE PoolInv
  OBVIOUS
<1>1. phase = "idle" /\ pool.next = 1 /\ pool.at = <<>> /\ pool.out = <<>>
  BY DEF PoolInit, NoPool
<1>2. /\ Size(pool) = 0 /\ 1..Size(pool) = {}
      /\ DOMAIN pool.at = {} /\ Len(pool.at) = 0
      /\ pool.out \in Seq({"todo", "ok", "failed"}) /\ pool.at \in Seq(0..0)
  BY <1>1 DEF Size
<1> QED BY <1>1, <1>2, WidthAssumption DEF PoolInv, Consistent

\* A fresh pool: the first workers have the first items.
LEMMA PoolOfIsConsistent ==
  ASSUME NEW n \in Nat
  PROVE  Consistent(PoolOf(n)) /\ Size(PoolOf(n)) = n
<1> DEFINE L == Lesser(Width, n)
           q == PoolOf(n)
<1>1. L \in Nat /\ L <= Width /\ L <= n /\ (n > 0 => L > 0)
  BY WidthAssumption, LesserType
<1>2. /\ q.next = L + 1
      /\ q.at = [w \in 1..L |-> w]
      /\ q.out = [i \in 1..n |-> "todo"]
  BY DEF PoolOf
<1>3. q.out \in Seq({"todo", "ok", "failed"}) /\ Len(q.out) = n
  BY <1>2
<1>4. q.at \in Seq(0..n) /\ Len(q.at) = L /\ DOMAIN q.at = 1..L
  <2> HIDE DEF L
  <2> QED BY <1>1, <1>2
<1> HIDE DEF L, q
<1>5. \A w \in 1..L : q.at[w] = w /\ w <= n
  BY <1>1, <1>2
<1>6. \A i \in 1..n : q.out[i] = "todo"
  BY <1>2
<1>7. \A v, w \in DOMAIN q.at :
        q.at[w] # 0 /\ q.at[v] = q.at[w] => v = w
  BY <1>4, <1>5
<1>8. \A w \in DOMAIN q.at :
        /\ q.at[w] < q.next
        /\ q.at[w] # 0 => q.out[q.at[w]] = "todo"
        /\ q.at[w] = 0 => q.next = n + 1
  BY <1>1, <1>2, <1>4, <1>5, <1>6
<1>9. \A i \in 1..n :
        q.out[i] = "todo" <=>
          i >= q.next \/ \E w \in DOMAIN q.at : q.at[w] = i
  <2> SUFFICES ASSUME NEW i \in 1..n
               PROVE  i >= q.next \/ \E w \in DOMAIN q.at : q.at[w] = i
    BY <1>6
  <2>1. CASE i >= L + 1 BY <2>1, <1>2
  <2>2. CASE i <= L BY <2>2, <1>1, <1>4, <1>5
  <2> QED BY <2>1, <2>2, <1>1
<1>10. Consistent(q) /\ Size(q) = n
  BY <1>1, <1>2, <1>3, <1>4, <1>7, <1>8, <1>9 DEF Consistent, Size
<1> QED BY <1>10 DEF q

\* Worker w's item settles: w has the next one, or found nothing left.
LEMMA SettledIsConsistent ==
  ASSUME NEW p, Consistent(p), NEW w \in DOMAIN p.at, p.at[w] # 0,
         NEW o \in {"ok", "failed"}
  PROVE  /\ Consistent(Settled(p, w, o)) /\ Size(Settled(p, w, o)) = Size(p)
         /\ p.at[w] \in 1..Size(p) /\ p.out[p.at[w]] = "todo"
         /\ Size(p) \in Nat /\ DOMAIN p.out = 1..Size(p)
         /\ \A i \in 1..Size(p) :
              Settled(p, w, o).out[i] = IF i = p.at[w] THEN o ELSE p.out[i]
<1> DEFINE q == Settled(p, w, o)
           n == Len(p.out)
           mine == p.at[w]
           next == p.next
           at == p.at
           out == p.out
           taken == IF next <= n THEN next ELSE 0
<1>1. /\ out \in Seq({"todo", "ok", "failed"}) /\ n \in Nat
      /\ next \in 1..n+1
      /\ at \in Seq(0..n) /\ Len(at) <= Width /\ (n > 0 => Len(at) > 0)
      /\ \A u, v \in DOMAIN at : at[v] # 0 /\ at[u] = at[v] => u = v
      /\ \A v \in DOMAIN at :
           /\ at[v] < next
           /\ at[v] # 0 => out[at[v]] = "todo"
           /\ at[v] = 0 => next = n + 1
      /\ \A i \in 1..n :
           out[i] = "todo" <=> i >= next \/ \E v \in DOMAIN at : at[v] = i
  BY DEF Consistent, Size
<1>t. /\ next \in Nat
      /\ \A v \in DOMAIN at : at[v] \in 0..n
  BY <1>1
<1>2. mine \in 1..n /\ mine < next
  BY <1>1, <1>t DEF Working
<1>3. /\ q.next = Lesser(next + 1, n + 1)
      /\ q.at = [at EXCEPT ![w] = taken]
      /\ q.out = [out EXCEPT ![mine] = o]
  BY <1>2 DEF Settled, Size
<1>4. /\ q.next \in 1..n+1
      /\ next <= n => q.next = next + 1
      /\ next = n + 1 => q.next = n + 1
  BY <1>1, <1>3 DEF Lesser
<1>5. taken \in 0..n
  BY <1>1
<1> HIDE DEF taken, q
<1>6. q.at \in Seq(0..n) /\ Len(q.at) = Len(at) /\ DOMAIN q.at = DOMAIN at
  BY <1>1, <1>3, <1>5
<1>7. /\ q.out \in Seq({"todo", "ok", "failed"}) /\ Len(q.out) = n
      /\ \A i \in 1..n : q.out[i] = IF i = mine THEN o ELSE out[i]
  BY <1>1, <1>2, <1>3
<1>8. \A v \in DOMAIN at : q.at[v] = IF v = w THEN taken ELSE at[v]
  BY <1>1, <1>3
<1>9. ASSUME NEW v \in DOMAIN at, v # w
      PROVE  at[v] # mine /\ (taken # 0 => at[v] # taken)
  BY <1>1, <1>2, <1>9 DEF taken
<1>10. \A u, v \in DOMAIN q.at :
         q.at[v] # 0 /\ q.at[u] = q.at[v] => u = v
  <2> SUFFICES ASSUME NEW u \in DOMAIN at, NEW v \in DOMAIN at,
                      q.at[v] # 0, q.at[u] = q.at[v], u # v
               PROVE  FALSE
    BY <1>6
  <2>1. CASE u = w
    BY <2>1, <1>8, <1>9
  <2>2. CASE v = w
    BY <2>2, <1>8, <1>9
  <2>3. CASE u # w /\ v # w
    BY <2>3, <1>1, <1>8
  <2> QED BY <2>1, <2>2, <2>3
<1>11. \A v \in DOMAIN q.at :
         /\ q.at[v] < q.next
         /\ q.at[v] # 0 => q.out[q.at[v]] = "todo"
         /\ q.at[v] = 0 => q.next = n + 1
  <2> SUFFICES ASSUME NEW v \in DOMAIN at
               PROVE  /\ q.at[v] < q.next
                      /\ q.at[v] # 0 => q.out[q.at[v]] = "todo"
                      /\ q.at[v] = 0 => q.next = n + 1
    BY <1>6
  <2>1. CASE v = w
    <3>1. CASE next <= n
      <4>1. taken = next /\ next # mine /\ next \in 1..n /\ out[next] = "todo"
        BY <3>1, <1>1, <1>t, <1>2 DEF taken
      <4> QED BY <4>1, <3>1, <2>1, <1>4, <1>7, <1>8
    <3>2. CASE next = n + 1
      <4>1. taken = 0 BY <3>2, <1>1 DEF taken
      <4> QED BY <4>1, <3>2, <2>1, <1>4, <1>8
    <3> QED BY <3>1, <3>2, <1>1
  <2>2. CASE v # w
    <3>1. q.at[v] = at[v] /\ at[v] # mine /\ at[v] < q.next
      BY <2>2, <1>1, <1>t, <1>4, <1>8, <1>9
    <3>2. at[v] # 0 => q.out[at[v]] = out[at[v]]
      BY <3>1, <1>t, <1>7
    <3> QED BY <3>1, <3>2, <1>1, <1>4
  <2> QED BY <2>1, <2>2
<1>12. \A i \in 1..n :
         q.out[i] = "todo" <=>
           i >= q.next \/ \E v \in DOMAIN q.at : q.at[v] = i
  <2> SUFFICES ASSUME NEW i \in 1..n
               PROVE  q.out[i] = "todo" <=>
                        i >= q.next \/ \E v \in DOMAIN at : q.at[v] = i
    BY <1>6
  <2>1. CASE i = mine
    <3>1. q.out[i] # "todo" BY <2>1, <1>7
    <3>2. i < q.next BY <2>1, <1>1, <1>t, <1>2, <1>4
    <3>3. \A v \in DOMAIN at : q.at[v] # i
      BY <2>1, <1>2, <1>8, <1>9 DEF taken
    <3> QED BY <3>1, <3>2, <3>3, <1>4
  <2>2. CASE i = next
    <3>1. taken = i /\ q.at[w] = i BY <2>2, <1>8 DEF taken
    <3>2. out[i] = "todo" /\ i # mine BY <2>2, <1>1, <1>2
    <3> QED BY <3>1, <3>2, <1>7
  <2>3. CASE i # mine /\ i # next
    <3>1. q.out[i] = out[i] BY <2>3, <1>7
    <3>2. i >= next <=> i >= q.next
      <4>1. i # next /\ i \in 1..n BY <2>3
      <4>2. (next = n + 1 /\ q.next = n + 1) \/ q.next = next + 1 BY <1>1, <1>4
      <4> QED BY <4>1, <4>2, <1>1, <1>t
    <3>3. (\E v \in DOMAIN at : at[v] = i) <=> (\E v \in DOMAIN at : q.at[v] = i)
      BY <2>3, <1>8 DEF taken
    <3> QED BY <3>1, <3>2, <3>3, <1>1
  <2> QED BY <2>1, <2>2, <2>3
<1>14. Size(p) = n /\ DOMAIN out = 1..n /\ out[mine] = "todo"
  BY <1>1, <1>2 DEF Size
<1> HIDE DEF n, at, out, next, mine
<1>13. Size(q) = n BY <1>7 DEF Size
<1>15. Consistent(q)
  BY <1>1, <1>3, <1>4, <1>6, <1>7, <1>10, <1>11, <1>12, <1>13 DEF Consistent
<1> USE DEF n, at, out, mine
<1> QED BY <1>1, <1>2, <1>7, <1>13, <1>14, <1>15 DEF q

LEMMA StartKeepsPoolInv ==
  ASSUME NEW n \in Nat, StartPool(n)
  PROVE  PoolInv'
BY PoolOfIsConsistent DEF StartPool, PoolInv

LEMMA SettlesKeepsPoolInv ==
  ASSUME PoolInv, NEW w \in DOMAIN pool.at, NEW o \in {"ok", "failed"}, Settles(w, o)
  PROVE  PoolInv'
BY SettledIsConsistent DEF Settles, Working, PoolInv

LEMMA CollectKeepsPoolInv ==
  ASSUME PoolInv, CollectResults
  PROVE  PoolInv'
BY DEF CollectResults, PoolInv

LEMMA PoolInvStep == PoolInv /\ [PoolNext]_poolVars => PoolInv'
<1> SUFFICES ASSUME PoolInv, [PoolNext]_poolVars PROVE PoolInv'
  OBVIOUS
<1>1. ASSUME NEW n \in Nat, StartPool(n) PROVE PoolInv'
  BY <1>1, StartKeepsPoolInv
<1>2. ASSUME NEW w \in DOMAIN pool.at, NEW o \in {"ok", "failed"}, Settles(w, o)
      PROVE  PoolInv'
  BY <1>2, SettlesKeepsPoolInv
<1>3. CASE CollectResults
  BY <1>3, CollectKeepsPoolInv
<1>4. CASE UNCHANGED poolVars
  <2>1. phase' = phase /\ pool' = pool BY <1>4 DEF poolVars
  <2> QED BY <2>1 DEF PoolInv
<1> QED BY <1>1, <1>2, <1>3, <1>4 DEF PoolNext

\* No item is missed and none is taken twice, whatever the order in which the
\* workers' items settle.
THEOREM PoolIsConsistent == PoolSpec => []PoolInv
<1>1. PoolInit => PoolInv BY PoolInvInit
<1>2. PoolInv /\ [PoolNext]_poolVars => PoolInv' BY PoolInvStep
<1> QED BY <1>1, <1>2, PTL DEF PoolSpec

-----------------------------------------------------------------------------
(* 2. The pool implements the parallel map *)

LEMMA InitMaps == PoolInit => Map!Init
<1> SUFFICES ASSUME PoolInit PROVE Map!Init
  OBVIOUS
<1>1. phase = "idle" /\ result = <<>> /\ pool.out = <<>>
  BY DEF PoolInit, NoPool
<1>2. 1..Size(pool) = {} BY <1>1 DEF Size
<1>3. jobs = <<>> BY <1>2 DEF jobs
<1> QED BY <1>1, <1>3 DEF Map!Init

\* The items of a fresh pool that run are the first ones, at most Width.
LEMMA StartMaps ==
  ASSUME NEW n \in Nat, StartPool(n)
  PROVE  Map!Begin
<1> DEFINE L == Lesser(Width, n)
<1>1. L \in Nat /\ L <= Width /\ L <= n /\ Width \in Nat
  BY WidthAssumption, LesserType
<1>2. /\ phase = "idle" /\ phase' = "busy" /\ result' = result
      /\ pool'.at = [w \in 1..L |-> w]
      /\ pool'.out = [i \in 1..n |-> "todo"]
  BY DEF StartPool, PoolOf
<1> HIDE DEF L
<1>3. Size(pool)' = n
  BY <1>2 DEF Size
<1>4. \A i \in 1..n : State(i)' = IF i <= L THEN "running" ELSE "todo"
  BY <1>1, <1>2 DEF State
<1>5. jobs' = [i \in 1..n |-> State(i)']
  BY <1>3 DEF jobs
<1>6. jobs' \in Seq({"todo", "running"}) /\ DOMAIN jobs' = 1..n
  BY <1>4, <1>5
<1>7. ASSUME NEW I \in SUBSET (DOMAIN jobs'), \A i \in I : jobs'[i] = "running"
      PROVE  Cardinality(I) <= Width
  <2>1. I \in SUBSET (1..L) BY <1>1, <1>4, <1>5, <1>6, <1>7
  <2>2. IsFiniteSet(1..L) /\ Cardinality(1..L) = L
    BY <1>1, FS_Interval
  <2>3. IsFiniteSet(I) /\ Cardinality(I) <= L BY <2>1, <2>2, FS_Subset
  <2> QED BY <2>3, <1>1, FS_CardinalityType
<1>8. \A I \in SUBSET (DOMAIN jobs') : Map!Cardinality(I) = Cardinality(I)
  BY DEF Cardinality, Map!Cardinality
<1> QED BY <1>2, <1>6, <1>7, <1>8 DEF Map!Begin

\* The item that settles was running, and the one its worker takes was waiting.
LEMMA SettlesMaps ==
  ASSUME PoolInv, NEW w \in DOMAIN pool.at, NEW o \in {"ok", "failed"}, Settles(w, o)
  PROVE  \E i \in DOMAIN jobs : Map!Settle(i)
<1> DEFINE n == Len(pool.out)
           mine == pool.at[w]
           next == pool.next
           at == pool.at
           out == pool.out
           taken == IF next <= n THEN next ELSE 0
<1>1. /\ out \in Seq({"todo", "ok", "failed"}) /\ n \in Nat
      /\ next \in 1..n+1
      /\ at \in Seq(0..n)
      /\ \A u, v \in DOMAIN at : at[v] # 0 /\ at[u] = at[v] => u = v
      /\ \A v \in DOMAIN at :
           /\ at[v] < next
           /\ at[v] # 0 => out[at[v]] = "todo"
           /\ at[v] = 0 => next = n + 1
      /\ \A i \in 1..n :
           out[i] = "todo" <=> i >= next \/ \E v \in DOMAIN at : at[v] = i
  BY DEF PoolInv, Consistent, Size
<1>2. next \in Nat /\ \A v \in DOMAIN at : at[v] \in 0..n
  BY <1>1
<1>3. mine \in 1..n /\ mine < next /\ out[mine] = "todo"
  BY <1>1, <1>2 DEF Settles, Working
<1>4. /\ phase = "busy" /\ phase' = phase /\ result' = result
      /\ pool'.at = [at EXCEPT ![w] = taken]
      /\ pool'.out = [out EXCEPT ![mine] = o]
  BY DEF Settles, Settled, Size
<1>5. taken \in 0..n BY <1>1
<1> HIDE DEF taken
<1>6. Size(pool) = n /\ Size(pool)' = n
  BY <1>1, <1>4 DEF Size
<1>7. /\ jobs = [i \in 1..n |-> State(i)]
      /\ jobs' = [i \in 1..n |-> State(i)']
  BY <1>6 DEF jobs
<1>8. /\ \A i \in 1..n : pool'.out[i] = IF i = mine THEN o ELSE out[i]
      /\ \A v \in DOMAIN at : pool'.at[v] = IF v = w THEN taken ELSE at[v]
      /\ DOMAIN pool'.at = DOMAIN at
  BY <1>1, <1>3, <1>4
<1>9. jobs[mine] = "running" /\ jobs'[mine] = o
  <2>1. jobs[mine] = "running" BY <1>3, <1>7 DEF State
  <2>2. pool'.out[mine] = o /\ o # "todo" BY <1>3, <1>8
  <2>3. jobs'[mine] = o BY <2>2, <1>3, <1>7 DEF State
  <2> QED BY <2>1, <2>3
<1>10. ASSUME NEW i \in 1..n, i # mine, i # taken
       PROVE  jobs'[i] = jobs[i]
  <2>1. (\E v \in DOMAIN at : at[v] = i) <=> (\E v \in DOMAIN pool'.at : pool'.at[v] = i)
    BY <1>8, <1>10
  <2>2. pool'.out[i] = out[i] BY <1>8, <1>10
  <2> QED BY <2>1, <2>2, <1>7 DEF State
<1>11. /\ jobs = [i \in 1..n |-> jobs[i]]
       /\ jobs' = [i \in 1..n |-> jobs'[i]]
  BY <1>7
<1>12. CASE next <= n
  <2>1. taken = next /\ next \in 1..n /\ next # mine
    BY <1>12, <1>2, <1>3 DEF taken
  <2>2. jobs[next] = "todo"
    BY <2>1, <1>1, <1>2, <1>7 DEF State
  <2>3. jobs'[next] = "running"
    <3>1. out[next] = "todo" BY <2>1, <1>1, <1>2
    <3>2. pool'.out[next] = "todo" BY <2>1, <3>1, <1>8
    <3>3. w \in DOMAIN pool'.at /\ pool'.at[w] = next BY <2>1, <1>8
    <3> QED BY <2>1, <3>2, <3>3, <1>7 DEF State
  <2>4. jobs' = [jobs EXCEPT ![mine] = o, ![next] = "running"]
    BY <2>1, <2>3, <1>3, <1>9, <1>10, <1>11
  <2>5. next \in Map!InState("todo")
    BY <2>1, <2>2, <1>7 DEF Map!InState
  <2>6. mine \in DOMAIN jobs /\ jobs[mine] = "running"
    BY <1>3, <1>7, <1>9
  <2> QED BY <2>4, <2>5, <2>6, <1>4 DEF Map!Settle
<1>13. CASE next = n + 1
  <2>1. taken = 0 BY <1>13, <1>1 DEF taken
  <2>2. jobs' = [jobs EXCEPT ![mine] = o]
    <3>1. \A i \in 1..n : i # taken BY <2>1
    <3> QED BY <3>1, <1>3, <1>9, <1>10, <1>11
  <2>3. mine \in DOMAIN jobs /\ jobs[mine] = "running"
    BY <1>3, <1>7, <1>9
  <2> QED BY <2>2, <2>3, <1>4 DEF Map!Settle
<1> QED BY <1>1, <1>12, <1>13

\* When all workers have stopped, no item is left.
LEMMA NoneIsLeft ==
  ASSUME PoolInv, CollectResults
  PROVE  \A i \in 1..Size(pool) : pool.out[i] # "todo"
<1> SUFFICES ASSUME NEW i \in 1..Size(pool) PROVE pool.out[i] # "todo"
  OBVIOUS
<1>1. \A v \in DOMAIN pool.at : pool.at[v] = 0 BY DEF CollectResults, Working
<1>2. Size(pool) \in Nat /\ Len(pool.at) > 0 BY DEF PoolInv, Consistent, Size
<1>3. PICK v \in DOMAIN pool.at : pool.at[v] = 0
  <2>1. 1 \in DOMAIN pool.at BY <1>2 DEF PoolInv, Consistent
  <2> QED BY <2>1, <1>1
<1>4. pool.next = Size(pool) + 1 BY <1>3 DEF PoolInv, Consistent
<1> QED BY <1>1, <1>2, <1>4 DEF PoolInv, Consistent

\* The result is what the map returns.
LEMMA CollectMaps ==
  ASSUME PoolInv, CollectResults
  PROVE  Map!Return
<1>1. /\ phase = "busy" /\ phase' = "returned" /\ pool' = pool
      /\ \A v \in DOMAIN pool.at : pool.at[v] = 0
  BY DEF CollectResults, Working
<1>2. jobs' = jobs BY <1>1 DEF jobs, State, Size
<1>3. DOMAIN jobs = 1..Size(pool) BY DEF jobs
<1>4. ASSUME NEW i \in 1..Size(pool)
      PROVE  pool.out[i] # "todo" /\ jobs[i] = pool.out[i] /\ pool.out[i] # "running"
  <2>1. pool.out[i] # "todo" BY NoneIsLeft
  <2>2. pool.out[i] \in {"todo", "ok", "failed"}
    BY <1>4 DEF PoolInv, Consistent, Size
  <2>3. jobs[i] = pool.out[i] BY <2>1, <1>4 DEF jobs, State
  <2> QED BY <2>1, <2>2, <2>3
<1>5. Map!InState("todo") \cup Map!InState("running") = {}
  BY <1>3, <1>4 DEF Map!InState
<1>6. Map!InState("ok") = {i \in 1..Size(pool) : pool.out[i] = "ok"}
  BY <1>3, <1>4 DEF Map!InState
<1>7. result' = Map!Ascending({i \in 1..Size(pool) : pool.out[i] = "ok"})
  BY DEF CollectResults
<1>8. result' = Map!Ascending(Map!InState("ok")) BY <1>6, <1>7
<1> QED BY <1>1, <1>2, <1>5, <1>8 DEF Map!Return

LEMMA StepMaps == PoolInv /\ [PoolNext]_poolVars => [Map!Next]_(Map!mapVars)
<1> SUFFICES ASSUME PoolInv, [PoolNext]_poolVars PROVE [Map!Next]_(Map!mapVars)
  OBVIOUS
<1>1. ASSUME NEW n \in Nat, StartPool(n) PROVE Map!Next
  BY <1>1, StartMaps DEF Map!Next
<1>2. ASSUME NEW w \in DOMAIN pool.at, NEW o \in {"ok", "failed"}, Settles(w, o)
      PROVE  Map!Next
  BY <1>2, SettlesMaps DEF Map!Next
<1>3. CASE CollectResults
  BY <1>3, CollectMaps DEF Map!Next
<1>4. CASE UNCHANGED poolVars
  <2>1. phase' = phase /\ pool' = pool /\ result' = result BY <1>4 DEF poolVars
  <2>2. jobs' = jobs BY <2>1 DEF jobs, State, Size
  <2> QED BY <2>1, <2>2 DEF Map!mapVars
<1> QED BY <1>1, <1>2, <1>3, <1>4 DEF PoolNext

\* mapWithConcurrency keeps the promise of its comment: every item is worked on
\* once, at most Width at a time, a failure takes no other item with it, and the
\* result has the successful items in order - for any concurrency and any
\* number of items.
THEOREM PoolImplementsMap == PoolSpec => MapSpec
<1>1. PoolInit => Map!Init BY InitMaps
<1>2. PoolInv /\ [PoolNext]_poolVars => [Map!Next]_(Map!mapVars) BY StepMaps
<1> QED BY <1>1, <1>2, PoolIsConsistent, PTL DEF PoolSpec, MapSpec, Map!Spec

-----------------------------------------------------------------------------
(* 3. The outcomes of a call to GitHub *)

Listing == {"self", "account", "clones"}
Kinds == Listing \cup {"repo", "bad"}

LEMMA Caps ==
  /\ PerPage \in Nat \ {0} /\ MaxPages \in Nat \ {0} /\ MaxCandidates \in Nat \ {0}
  /\ DefaultLimit \in Nat \ {0} /\ MaxLimit \in Nat \ {0}
  /\ DefaultSources \in Nat \ {0} /\ MaxSources \in Nat \ {0}
  /\ DefaultLimit <= MaxLimit /\ MaxLimit <= PerPage
  /\ Asked \subseteq Int
BY ScanAssumption

\* A call is retried, or it fails for good and ends the scan.
Again ==
  /\ attempt < maxRetries /\ attempt' = attempt + 1
  /\ UNCHANGED <<stage, listed, page>>

GivesUp ==
  /\ stage' = "done"
  /\ UNCHANGED <<attempt, listed, page>>

OneFetch ==
  /\ spent' = spent + 1
  /\ UNCHANGED <<kind, asked, phase, pool, result, items, work, tally, order, pushes>>

LEMMA GetUserCalls ==
  ASSUME GetUser
  PROVE  /\ stage = "user" /\ OneFetch
         /\ \/ attempt' = 0 /\ stage' = "list" /\ UNCHANGED <<listed, page>>
            \/ Again
            \/ GivesUp
BY DEF GetUser, Fetch, Again, GivesUp, OneFetch, Retried, Answer, request, listing, mapping, poolVars

LEMMA GetRepoCalls ==
  ASSUME GetRepo
  PROVE  /\ stage = "repo" /\ OneFetch
         /\ \/ attempt' = 0 /\ stage' = "snapshot" /\ UNCHANGED <<listed, page>>
            \/ Again
            \/ GivesUp
BY DEF GetRepo, Fetch, Again, GivesUp, OneFetch, Retried, Answer, request, listing, mapping, poolVars

LEMMA ListReposCalls ==
  ASSUME ListRepos
  PROVE  /\ stage = "list" /\ OneFetch
         /\ \/ /\ attempt' = 0
               /\ listed' = listed \o Page(page) /\ page' = page + 1
               /\ stage' = IF LastPage(page) THEN "select" ELSE "list"
            \/ Again
            \/ GivesUp
BY DEF ListRepos, Fetch, Again, GivesUp, OneFetch, Retried, Answer, request, listing, mapping, poolVars

LEMMA Receives ==
  ASSUME Receive("self") \/ Receive("clones") \/ ReceiveScan
  PROVE  \E k \in Kinds : Receive(k)
<1>1. CASE Receive("self") BY <1>1 DEF Kinds, Listing
<1>2. CASE Receive("clones") BY <1>2 DEF Kinds, Listing
<1>3. CASE ReceiveScan
  <2>1. \E parts : Receive(parseTarget(parts)) BY <1>3 DEF ReceiveScan
  <2>3. PICK parts : Receive(parseTarget(parts)) BY <2>1
  <2>2. parseTarget(parts) \in Kinds BY DEF parseTarget, Kinds, Listing
  <2> QED BY <2>2, <2>3
<1> QED BY <1>1, <1>2, <1>3

LEMMA Cases ==
  ASSUME ScanNext
  PROVE  \/ \E k \in Kinds : Receive(k)
         \/ GetUser \/ GetRepo \/ ListRepos \/ Select
         \/ \E w \in DOMAIN pool.at : Scanned(w)
         \/ \E w \in DOMAIN pool.at : SearchClones(w)
         \/ \E w \in DOMAIN pool.at : \E v : Inspect(w, v)
         \/ \E w \in DOMAIN pool.at : Inspected(w)
         \/ CollectItems \/ Report \/ ScanRepo \/ RecordScan
         \/ \E i \in DOMAIN order : Pushed(i)
BY Receives DEF ScanNext, ScanStep

-----------------------------------------------------------------------------
(* 4. Types, and the pool of a scan *)

LEMMA SliceType ==
  ASSUME NEW S, NEW s \in Seq(S), NEW n \in Int
  PROVE  /\ Slice(s, n) \in Seq(S)
         /\ n >= 0 => /\ Len(Slice(s, n)) = Lesser(n, Len(s))
                      /\ \A i \in 1..Lesser(n, Len(s)) : Slice(s, n)[i] = s[i]
<1>1. Len(s) \in Nat /\ \A i \in 1..Len(s) : s[i] \in S BY LenProperties
<1>2. CASE n >= 0
  <2> DEFINE k == Lesser(n, Len(s))
  <2>0. n \in Nat BY <1>2
  <2>1. k \in Nat /\ k <= Len(s) BY <2>0, <1>1, LesserType
  <2>2. Slice(s, n) = SubSeq(s, 1, k) BY <1>2 DEF Slice
  <2> HIDE DEF k
  <2>3. \A i \in 1..k : s[i] \in S BY <1>1, <2>1
  <2>4. /\ SubSeq(s, 1, k) \in Seq(S)
        /\ Len(SubSeq(s, 1, k)) = IF 1 <= k THEN k - 1 + 1 ELSE 0
        /\ \A i \in 1..k - 1 + 1 : SubSeq(s, 1, k)[i] = s[1 + i - 1]
    BY <2>1, <2>3, SubSeqProperties
  <2>5. Len(SubSeq(s, 1, k)) = k BY <2>1, <2>4
  <2>6. \A i \in 1..k : SubSeq(s, 1, k)[i] = s[i] BY <2>1, <2>4
  <2> QED BY <2>2, <2>4, <2>5, <2>6 DEF k
<1>3. CASE ~(n >= 0)
  <2> DEFINE k == Len(s) + n
  <2>1. k \in Int /\ k <= Len(s) BY <1>1, <1>3
  <2>2. Slice(s, n) = SubSeq(s, 1, k) BY <1>3 DEF Slice
  <2> HIDE DEF k
  <2>3. \A i \in 1..k : s[i] \in S BY <1>1, <2>1
  <2>4. SubSeq(s, 1, k) \in Seq(S) BY <2>1, <2>3, SubSeqProperties
  <2> QED BY <1>3, <2>2, <2>4
<1> QED BY <1>2, <1>3

LEMMA Limits ==
  ASSUME NEW n \in Int
  PROVE  clampLimit(n) \in Nat /\ clampLimit(n) <= PerPage
<1>1. CASE n <= 0 BY <1>1, Caps DEF clampLimit
<1>2. CASE ~(n <= 0)
  <2> DEFINE k == n \div 2
  <2>1. k \in Nat BY <1>2, SMT
  <2>2. clampLimit(n) = Lesser(k, MaxLimit) BY <1>2 DEF clampLimit
  <2> HIDE DEF k
  <2>3. Lesser(k, MaxLimit) \in {k, MaxLimit} /\ Lesser(k, MaxLimit) <= MaxLimit
        /\ Lesser(k, MaxLimit) \in Nat
    BY <2>1, Caps, LesserType
  <2> QED BY <2>1, <2>2, <2>3, Caps
<1> QED BY <1>1, <1>2

LEMMA ToIntegerType ==
  ASSUME NEW n \in Int
  PROVE  ToInteger(n) \in Int
BY SMT DEF ToInteger

Types ==
  /\ TypeOK
  /\ asked \in Asked
  /\ order \in Seq(Repos)

LEMMA SelectedType ==
  ASSUME Types, kind \in Listing, NEW s \in Selected
  PROVE  s \in Seq(Repos)
<1>l. listed \in Seq(Repos) /\ asked \in Int BY Caps DEF Types, TypeOK
<1>1. CASE kind = "self"
  <2>1. s = Slice(listed, clampLimit(asked)) BY <1>1 DEF Selected
  <2>2. clampLimit(asked) \in Int BY <1>l, Limits
  <2> QED BY <1>l, <2>1, <2>2, SliceType
<1>2. CASE kind = "account"
  <2>1. s = Slice(listed, DefaultLimit) BY <1>2 DEF Selected
  <2>2. DefaultLimit \in Int BY Caps
  <2> QED BY <1>l, <2>1, <2>2, SliceType
<1>3. CASE kind = "clones"
  <2> DEFINE eligible == {i \in DOMAIN listed : listed[i] \in Eligible}
             c == Cardinality(eligible)
  <2>1. PICK p \in [1..c -> eligible] :
          s = Slice([j \in DOMAIN p |-> listed[p[j]]], maxSources)
    BY <1>3 DEF Selected, Sources
  <2>2. c \in Nat
    <3>0. Len(listed) \in Nat /\ DOMAIN listed = 1..Len(listed) BY <1>l, LenProperties
    <3>1. eligible \in SUBSET (1..Len(listed)) BY <3>0
    <3>3. IsFiniteSet(1..Len(listed)) BY <3>0, FS_Interval
    <3> HIDE DEF eligible
    <3>2. IsFiniteSet(eligible) BY <3>1, <3>3, FS_Subset
    <3> QED BY <3>2, FS_CardinalityType
  <2>3. \A j \in 1..c : listed[p[j]] \in Repos
    <3>1. \A i \in eligible : listed[i] \in Repos BY <1>l, LenProperties
    <3> HIDE DEF eligible
    <3> QED BY <2>1, <3>1
  <2> DEFINE t == [j \in 1..c |-> listed[p[j]]]
  <2>4. t \in Seq(Repos)
    <3> HIDE DEF c
    <3> QED BY <2>2, <2>3
  <2>5. s = Slice(t, maxSources) BY <2>1
  <2>6. maxSources \in Int BY <1>l, Caps, ToIntegerType DEF maxSources, Lesser
  <2> HIDE DEF t
  <2> QED BY <2>4, <2>5, <2>6, SliceType
<1> QED BY <1>1, <1>2, <1>3 DEF Listing

Stages ==
  /\ stage = "start" => kind = "none" /\ items = <<>>
  /\ stage = "user" => kind \in {"self", "account"}
  /\ stage \in {"repo", "snapshot"} => kind = "repo"
  /\ stage \in {"list", "select", "map", "report"} => kind \in Listing
  /\ stage \in {"start", "user", "repo"} => page = 1
  /\ stage = "list" => page <= MaxPages

\* Every item has its place in the pool.
Pools == PoolInv /\ Size(pool) = Len(items)

TypeInv == Types /\ Stages /\ Pools

LEMMA CallCosts ==
  ASSUME NEW k \in Nat, NEW c \in Costs(k)
  PROVE  c \in Nat /\ c <= k * (maxRetries + 1)
<1>1. PICK d \in CallCost : c = k * d BY DEF Costs
<1>2. d \in Nat /\ d <= maxRetries + 1 /\ maxRetries \in Nat
  BY RetriesAssumption DEF CallCost
<1>3. k * d \in Nat /\ k * d <= k * (maxRetries + 1) BY <1>2
<1> QED BY <1>1, <1>3

\* The work on the items changes the pool, the items' states and the cost.
LEMMA WorkerSteps ==
  ASSUME NEW w \in DOMAIN pool.at, NEW v,
         Scanned(w) \/ SearchClones(w) \/ Inspect(w, v) \/ Inspected(w)
  PROVE  /\ stage = "map" /\ w \in Working(pool)
         /\ UNCHANGED <<kind, asked, stage, attempt, order, listed, page, items, tally>>
         /\ (\E o \in {"ok", "failed"} : Settles(w, o)) \/ UNCHANGED poolVars
         /\ DOMAIN work' = DOMAIN work
         /\ spent' = spent \/ \E c \in CallCost \cup Costs(5) \cup Costs(6) : spent' = spent + c
<1>1. CASE Scanned(w) BY <1>1 DEF Scanned, request, listing
<1>2. CASE SearchClones(w) BY <1>2 DEF SearchClones, request, listing
<1>3. CASE Inspect(w, v) BY <1>3 DEF Inspect, request, listing
<1>4. CASE Inspected(w) BY <1>4 DEF Inspected, request, listing
<1> QED BY <1>1, <1>2, <1>3, <1>4

LEMMA SpentType ==
  ASSUME spent \in Nat,
         spent' \in {spent, spent + 1}
           \/ \E c \in CallCost \cup Costs(5) \cup Costs(6) : spent' = spent + c
  PROVE  spent' \in Nat
<1>1. ASSUME NEW c \in CallCost \cup Costs(5) \cup Costs(6) PROVE c \in Nat
  BY RetriesAssumption, CallCosts DEF CallCost
<1> QED BY <1>1

\* The pool of a scan takes the steps of a pool.
LEMMA PoolSteps == Types /\ Stages /\ [ScanNext]_vars => [PoolNext]_poolVars
<1> SUFFICES ASSUME Types, Stages, [ScanNext]_vars PROVE [PoolNext]_poolVars
  OBVIOUS
<1>1. CASE \E k \in Kinds : Receive(k) BY <1>1 DEF Receive, mapping
<1>2. CASE GetUser \/ GetRepo \/ ListRepos
  BY <1>2, GetUserCalls, GetRepoCalls, ListReposCalls DEF OneFetch, poolVars
<1>3. CASE Select
  <2>1. kind \in Listing /\ items' \in Selected /\ StartPool(Len(items'))
    BY <1>3 DEF Select, Stages
  <2>2. items' \in Seq(Repos) BY <2>1, SelectedType
  <2>3. Len(items') \in Nat BY <2>2, LenProperties
  <2> QED BY <2>1, <2>3 DEF PoolNext
<1>4. ASSUME NEW w \in DOMAIN pool.at, NEW v,
             Scanned(w) \/ SearchClones(w) \/ Inspect(w, v) \/ Inspected(w)
      PROVE  [PoolNext]_poolVars
  BY <1>4, WorkerSteps DEF PoolNext
<1>5. CASE CollectItems BY <1>5 DEF CollectItems, PoolNext
<1>6. CASE Report \/ ScanRepo \/ RecordScan \/ \E i \in DOMAIN order : Pushed(i)
  BY <1>6 DEF Report, ScanRepo, RecordScan, Pushed, mapping
<1>7. CASE UNCHANGED vars BY <1>7 DEF vars, mapping
<1> QED BY <1>1, <1>2, <1>3, <1>4, <1>5, <1>6, <1>7, Cases

LEMMA PageType ==
  ASSUME order \in Seq(Repos), NEW n \in Nat \ {0}
  PROVE  /\ Page(n) \in Seq(Repos)
         /\ n = 1 => /\ Len(Page(n)) = Lesser(PerPage, Len(order))
                     /\ \A i \in 1..Lesser(PerPage, Len(order)) : Page(n)[i] = order[i]
<1> DEFINE u == (n - 1) * PerPage
           v == n * PerPage
           a == u + 1
           b == Lesser(v, Len(order))
<1>1. Len(order) \in Nat /\ \A i \in 1..Len(order) : order[i] \in Repos BY LenProperties
<1>2. u \in Nat /\ v \in Nat BY Caps
<1>4. Page(n) = SubSeq(order, a, b) BY DEF Page
<1>5. n = 1 => a = 1 /\ b = Lesser(PerPage, Len(order)) BY Caps
<1> HIDE DEF u, v
<1>3. a \in Nat \ {0} /\ b \in Nat /\ b <= Len(order)
  <2>1. Len(order) \in Nat BY <1>1
  <2>2. b \in Nat /\ b <= Len(order) BY <2>1, <1>2, LesserType
  <2>3. a \in Nat \ {0} BY <1>2
  <2> QED BY <2>2, <2>3
<1> HIDE DEF a, b
<1>6. \A i \in a..b : order[i] \in Repos BY <1>1, <1>3
<1>7. /\ SubSeq(order, a, b) \in Seq(Repos)
      /\ Len(SubSeq(order, a, b)) = IF a <= b THEN b - a + 1 ELSE 0
      /\ \A i \in 1..b - a + 1 : SubSeq(order, a, b)[i] = order[a + i - 1]
  BY <1>3, <1>6, SubSeqProperties
<1>8. ASSUME n = 1
      PROVE  /\ Len(SubSeq(order, a, b)) = b
             /\ \A i \in 1..b : SubSeq(order, a, b)[i] = order[i]
  <2>1. a = 1 BY <1>5, <1>8
  <2>2. Len(SubSeq(order, a, b)) = b BY <2>1, <1>3, <1>7
  <2>3. ASSUME NEW i \in 1..b PROVE SubSeq(order, a, b)[i] = order[i]
    <3>1. i \in 1..b - a + 1 /\ a + i - 1 = i BY <2>1, <1>3
    <3> QED BY <3>1, <1>7
  <2> QED BY <2>2, <2>3
<1> QED BY <1>4, <1>5, <1>7, <1>8

\* A push moves one repository to the front.
LEMMA PushedOrder ==
  ASSUME order \in Seq(Repos), NEW i \in DOMAIN order, Pushed(i)
  PROVE  /\ order' \in Seq(Repos) /\ Len(order') = Len(order)
         /\ \A k \in 1..Len(order) :
              order'[k] = IF k = 1 THEN order[i] ELSE IF k <= i THEN order[k - 1] ELSE order[k]
<1> DEFINE n == Len(order)
           before == SubSeq(order, 1, i - 1)
           after == SubSeq(order, i + 1, n)
           first == <<order[i]>>
<1>1. /\ n \in Nat /\ i \in 1..n /\ \A k \in 1..n : order[k] \in Repos
  BY LenProperties
<1>2. /\ before \in Seq(Repos) /\ Len(before) = i - 1
      /\ \A k \in 1..i - 1 : before[k] = order[k]
  <2>1. /\ SubSeq(order, 1, i - 1) \in Seq(Repos)
        /\ Len(SubSeq(order, 1, i - 1)) = IF 1 <= i - 1 THEN (i - 1) - 1 + 1 ELSE 0
        /\ \A k \in 1..(i - 1) - 1 + 1 : SubSeq(order, 1, i - 1)[k] = order[1 + k - 1]
    BY <1>1, SubSeqProperties
  <2> HIDE DEF n
  <2> QED BY <1>1, <2>1
<1>3. /\ after \in Seq(Repos) /\ Len(after) = n - i
      /\ \A k \in 1..n - i : after[k] = order[i + k]
  <2> HIDE DEF n
  <2>1. /\ SubSeq(order, i + 1, n) \in Seq(Repos)
        /\ Len(SubSeq(order, i + 1, n)) = IF i + 1 <= n THEN n - (i + 1) + 1 ELSE 0
        /\ \A k \in 1..n - (i + 1) + 1 : SubSeq(order, i + 1, n)[k] = order[i + 1 + k - 1]
    BY <1>1, SubSeqProperties
  <2>2. \A k \in Int : i + 1 + k - 1 = i + k BY <1>1
  <2>3. n - (i + 1) + 1 = n - i BY <1>1
  <2>4. Len(SubSeq(order, i + 1, n)) = n - i BY <1>1, <2>1
  <2>5. ASSUME NEW k \in 1..n - i PROVE SubSeq(order, i + 1, n)[k] = order[i + k]
    <3>1. k \in Int BY <1>1
    <3> QED BY <3>1, <2>1, <2>2, <2>3
  <2> QED BY <2>1, <2>4, <2>5
<1>4. first \in Seq(Repos) /\ Len(first) = 1 /\ first[1] = order[i]
  BY <1>1
<1>5. order' = first \o before \o after BY DEF Pushed
<1> HIDE DEF n, before, after, first
<1>6. /\ first \o before \in Seq(Repos) /\ Len(first \o before) = i
      /\ \A k \in 1..i :
           (first \o before)[k] = IF k = 1 THEN order[i] ELSE order[k - 1]
  <2>1. /\ first \o before \in Seq(Repos) /\ Len(first \o before) = 1 + (i - 1)
        /\ \A k \in 1..1 + (i - 1) :
             (first \o before)[k] = IF k <= 1 THEN first[k] ELSE before[k - 1]
    <3>1. /\ first \o before \in Seq(Repos)
          /\ Len(first \o before) = Len(first) + Len(before)
          /\ \A k \in 1..Len(first) + Len(before) :
               (first \o before)[k] =
                 IF k <= Len(first) THEN first[k] ELSE before[k - Len(first)]
      BY <1>2, <1>4, ConcatProperties
    <3> QED BY <3>1, <1>2, <1>4
  <2>2. 1 + (i - 1) = i BY <1>1
  <2>3. ASSUME NEW k \in 1..i
        PROVE  (first \o before)[k] = IF k = 1 THEN order[i] ELSE order[k - 1]
    <3>1. (first \o before)[k] = IF k <= 1 THEN first[k] ELSE before[k - 1]
      BY <2>1, <2>2
    <3>2. k # 1 => k - 1 \in 1..i - 1 BY <1>1
    <3> QED BY <3>1, <3>2, <1>1, <1>2, <1>4
  <2> QED BY <2>1, <2>2, <2>3
<1>7. /\ order' \in Seq(Repos) /\ Len(order') = i + (n - i)
      /\ \A k \in 1..i + (n - i) :
           order'[k] = IF k <= i THEN (first \o before)[k] ELSE after[k - i]
  <2> DEFINE s == first \o before
  <2>1. order' = s \o after BY <1>5
  <2>2. s \in Seq(Repos) /\ Len(s) = i BY <1>6
  <2> HIDE DEF s
  <2>3. /\ s \o after \in Seq(Repos) /\ Len(s \o after) = Len(s) + Len(after)
        /\ \A k \in 1..Len(s) + Len(after) :
             (s \o after)[k] = IF k <= Len(s) THEN s[k] ELSE after[k - Len(s)]
    BY <1>3, <2>2, ConcatProperties
  <2>4. /\ order' \in Seq(Repos) /\ Len(order') = i + (n - i)
        /\ \A k \in 1..i + (n - i) : order'[k] = IF k <= i THEN s[k] ELSE after[k - i]
    BY <1>3, <2>1, <2>2, <2>3
  <2> QED BY <2>4 DEF s
<1>8. i + (n - i) = n BY <1>1
<1>9. ASSUME NEW k \in 1..n
      PROVE  order'[k] = IF k = 1 THEN order[i] ELSE IF k <= i THEN order[k - 1] ELSE order[k]
  <2>1. order'[k] = IF k <= i THEN (first \o before)[k] ELSE after[k - i]
    BY <1>7, <1>8
  <2>2. CASE k <= i BY <2>1, <2>2, <1>1, <1>6
  <2>3. CASE ~(k <= i)
    <3>1. k - i \in 1..n - i /\ i + (k - i) = k /\ k # 1 BY <2>3, <1>1
    <3> QED BY <2>1, <2>3, <3>1, <1>3
  <2> QED BY <2>2, <2>3
<1> QED BY <1>7, <1>8, <1>9 DEF n

LEMMA TypesStep == Types /\ Stages /\ [ScanNext]_vars => Types'
<1> SUFFICES ASSUME Types, Stages, [ScanNext]_vars PROVE Types'
  OBVIOUS
<1>t. /\ kind \in {"none"} \cup Kinds
      /\ attempt \in 0..maxRetries /\ maxRetries \in Nat
      /\ listed \in Seq(Repos) /\ order \in Seq(Repos) /\ items \in Seq(Repos)
      /\ page \in 1..MaxPages + 1 /\ MaxPages \in Nat
      /\ DOMAIN work = DOMAIN items /\ spent \in Nat
      /\ (stage = "list" => page <= MaxPages)
  BY RetriesAssumption, Caps DEF Types, TypeOK, Stages, Kinds, Listing
\* What a fetch leaves of the types to be shown.
<1>f. ASSUME OneFetch,
             attempt' = 0 \/ UNCHANGED attempt \/ Again,
             stage' \in {"user", "repo", "list", "select", "snapshot", "done"},
             listed' \in Seq(Repos), page' \in 1..MaxPages + 1
      PROVE  Types'
  <2>1. attempt' \in 0..maxRetries BY <1>f, <1>t DEF Again
  <2>2. spent' \in Nat BY <1>f, <1>t DEF OneFetch
  <2> QED BY <1>f, <2>1, <2>2 DEF OneFetch, Types, TypeOK
<1>1. ASSUME NEW k \in Kinds, Receive(k) PROVE Types'
  <2>1. /\ kind' = k /\ stage' \in {"done", "list", "repo", "user"}
        /\ UNCHANGED <<asked, attempt, order, listed, page, items, work, spent, tally>>
    BY <1>1 DEF Receive, Answer, listing, mapping
  <2> QED BY <2>1 DEF Types, TypeOK, Kinds, Listing
<1>2. CASE GetUser
  BY <1>2, <1>f, <1>t, GetUserCalls DEF Again, GivesUp
<1>3. CASE GetRepo
  BY <1>3, <1>f, <1>t, GetRepoCalls DEF Again, GivesUp
<1>4. CASE ListRepos
  <2>1. stage = "list" /\ OneFetch BY <1>4, ListReposCalls
  <2>2. CASE /\ attempt' = 0
             /\ listed' = listed \o Page(page) /\ page' = page + 1
             /\ stage' = IF LastPage(page) THEN "select" ELSE "list"
    <3>1. page \in Nat \ {0} BY <1>t
    <3>2. Page(page) \in Seq(Repos) BY <1>t, <3>1, PageType
    <3>3. listed' \in Seq(Repos) BY <1>t, <2>2, <3>2, ConcatProperties
    <3>4. page' \in 1..MaxPages + 1 BY <1>t, <2>1, <2>2
    <3> QED BY <1>f, <2>1, <2>2, <3>3, <3>4
  <2>3. CASE Again \/ GivesUp
    BY <1>f, <1>t, <2>1, <2>3 DEF Again, GivesUp
  <2> QED BY <1>4, <2>2, <2>3, ListReposCalls
<1>5. CASE Select
  <2>1. kind \in Listing /\ items' \in Selected BY <1>5 DEF Select, Stages
  <2>2. items' \in Seq(Repos) BY <2>1, SelectedType
  <2>3. /\ stage' = "map" /\ DOMAIN work' = DOMAIN items'
        /\ UNCHANGED <<kind, asked, attempt, order, listed, page, spent, tally>>
    BY <1>5 DEF Select, request, listing
  <2> QED BY <2>2, <2>3 DEF Types, TypeOK
<1>6. ASSUME NEW w \in DOMAIN pool.at, NEW v,
             Scanned(w) \/ SearchClones(w) \/ Inspect(w, v) \/ Inspected(w)
      PROVE  Types'
  <2>1. /\ UNCHANGED <<kind, asked, stage, attempt, order, listed, page, items, tally>>
        /\ DOMAIN work' = DOMAIN work
        /\ spent' = spent \/ \E c \in CallCost \cup Costs(5) \cup Costs(6) : spent' = spent + c
    BY <1>6, WorkerSteps
  <2>2. spent' \in Nat BY <1>t, <2>1, SpentType
  <2> QED BY <2>1, <2>2 DEF Types, TypeOK
<1>7. CASE CollectItems \/ Report
  <2>1. /\ stage' \in {"report", "done"} /\ tally' \in {tally, "due"}
        /\ UNCHANGED <<kind, asked, attempt, order, listed, page, items, work, spent>>
    BY <1>7 DEF CollectItems, Report, Reported, Answer, request, listing, mapping
  <2> QED BY <2>1 DEF Types, TypeOK
<1>8. CASE ScanRepo
  <2>1. /\ stage' = "done" /\ tally' \in {tally, "due"}
        /\ UNCHANGED <<kind, asked, attempt, order, listed, page, items, work>>
        /\ \E c \in Costs(6) : spent' = spent + c
    BY <1>8 DEF ScanRepo, Reported, Answer, request, listing, mapping
  <2>2. spent' \in Nat BY <1>t, <2>1, SpentType
  <2> QED BY <2>1, <2>2 DEF Types, TypeOK
<1>9. CASE RecordScan
  <2>1. /\ tally' \in {"counted", "lost"}
        /\ UNCHANGED <<kind, asked, stage, attempt, order, listed, page, items, work, spent>>
    BY <1>9 DEF RecordScan, request, listing, mapping
  <2> QED BY <2>1 DEF Types, TypeOK
<1>10. ASSUME NEW i \in DOMAIN order, Pushed(i) PROVE Types'
  <2>1. order' \in Seq(Repos) BY <1>t, <1>10, PushedOrder
  <2>2. UNCHANGED <<kind, asked, stage, attempt, listed, page, items, work, spent, tally>>
    BY <1>10 DEF Pushed, request, mapping
  <2> QED BY <2>1, <2>2 DEF Types, TypeOK
<1>11. CASE UNCHANGED vars
  BY <1>11 DEF vars, request, listing, mapping, Types, TypeOK
<1> QED BY <1>1, <1>2, <1>3, <1>4, <1>5, <1>6, <1>7, <1>8, <1>9, <1>10, <1>11, Cases

LEMMA StagesStep == Types /\ Stages /\ [ScanNext]_vars => Stages'
<1> SUFFICES ASSUME Types, Stages, [ScanNext]_vars PROVE Stages'
  OBVIOUS
<1>t. page \in 1..MaxPages + 1 /\ MaxPages \in Nat \ {0} BY Caps DEF Types, TypeOK
<1>1. ASSUME NEW k \in Kinds, Receive(k) PROVE Stages'
  <2>1. /\ stage = "start" /\ kind' = k /\ UNCHANGED <<items, page>>
        /\ stage' = CASE k = "bad" -> "done" [] k = "clones" -> "list"
                      [] k = "repo" -> "repo" [] OTHER -> "user"
    BY <1>1 DEF Receive, Answer, listing, mapping
  <2> QED BY <1>t, <2>1 DEF Stages, Kinds, Listing
<1>2. CASE GetUser
  BY <1>2, <1>t, GetUserCalls DEF Again, GivesUp, OneFetch, Stages, Listing
<1>3. CASE GetRepo
  BY <1>3, GetRepoCalls DEF Again, GivesUp, OneFetch, Stages
<1>4. CASE ListRepos
  BY <1>4, <1>t, ListReposCalls DEF Again, GivesUp, OneFetch, Stages, LastPage
<1>5. CASE Select BY <1>5 DEF Select, Stages, request
<1>6. ASSUME NEW w \in DOMAIN pool.at, NEW v,
             Scanned(w) \/ SearchClones(w) \/ Inspect(w, v) \/ Inspected(w)
      PROVE  Stages'
  <2>1. UNCHANGED <<kind, stage, page, items>> BY <1>6, WorkerSteps
  <2> QED BY <2>1 DEF Stages
<1>7. CASE CollectItems BY <1>7 DEF CollectItems, Stages, request
<1>8. CASE Report \/ ScanRepo BY <1>8 DEF Report, ScanRepo, Reported, Answer, Stages
<1>9. CASE RecordScan \/ \E i \in DOMAIN order : Pushed(i)
  <2>1. UNCHANGED <<kind, stage, page, items>>
    BY <1>9 DEF RecordScan, Pushed, request, listing, mapping
  <2> QED BY <2>1 DEF Stages
<1>10. CASE UNCHANGED vars
  BY <1>10 DEF vars, request, listing, mapping, Stages
<1> QED BY <1>1, <1>2, <1>3, <1>4, <1>5, <1>6, <1>7, <1>8, <1>9, <1>10, Cases

LEMMA PoolsStep == TypeInv /\ [ScanNext]_vars => Pools'
<1> SUFFICES ASSUME TypeInv, [ScanNext]_vars PROVE Pools'
  OBVIOUS
<1>1. PoolInv' BY PoolSteps, PoolInvStep DEF TypeInv, Pools
<1>2. CASE Select
  <2>1. kind \in Listing /\ items' \in Selected /\ pool' = PoolOf(Len(items'))
    BY <1>2 DEF Select, StartPool, TypeInv, Stages
  <2>2. Len(items') \in Nat BY <2>1, SelectedType, LenProperties DEF TypeInv
  <2> QED BY <1>1, <2>1, <2>2, PoolOfIsConsistent DEF Pools
<1>3. ASSUME NEW w \in DOMAIN pool.at, NEW v,
             Scanned(w) \/ SearchClones(w) \/ Inspect(w, v) \/ Inspected(w)
      PROVE  Size(pool)' = Len(items)'
  <2>1. UNCHANGED items /\ w \in Working(pool) BY <1>3, WorkerSteps
  <2>2. CASE UNCHANGED poolVars
    BY <2>1, <2>2 DEF poolVars, TypeInv, Pools
  <2>3. ASSUME NEW o \in {"ok", "failed"}, Settles(w, o) PROVE Size(pool)' = Len(items)'
    <3>1. Consistent(pool) /\ pool.at[w] # 0 /\ pool' = Settled(pool, w, o)
      BY <2>3, <2>1 DEF TypeInv, Pools, PoolInv, Settles, Working
    <3>2. Size(pool') = Size(pool) BY <3>1, SettledIsConsistent
    <3> QED BY <2>1, <3>2 DEF TypeInv, Pools
  <2> QED BY <1>3, <2>2, <2>3, WorkerSteps
<1>4. CASE \/ \E k \in Kinds : Receive(k)
           \/ GetUser \/ GetRepo \/ ListRepos
           \/ CollectItems \/ Report \/ ScanRepo \/ RecordScan
           \/ \E i \in DOMAIN order : Pushed(i)
           \/ UNCHANGED vars
  <2>1. UNCHANGED <<pool, items>>
    BY <1>4, GetUserCalls, GetRepoCalls, ListReposCalls
       DEF Receive, CollectItems, CollectResults, Report, ScanRepo, RecordScan, Pushed,
           OneFetch, vars, mapping, poolVars
  <2> QED BY <1>1, <2>1 DEF TypeInv, Pools
<1> QED BY <1>1, <1>2, <1>3, <1>4, Cases DEF Pools

LEMMA TypeInvariant == ScanSpec => []TypeInv
<1>1. Init => TypeInv
  <2> SUFFICES ASSUME Init PROVE TypeInv
    OBVIOUS
  <2>1. InitialOrder \in Seq(Repos) BY ScanAssumption
  <2>2. Types BY <2>1, Caps, RetriesAssumption DEF Init, Types, TypeOK
  <2>3. Stages BY DEF Init, Stages
  <2>4. PoolInv BY PoolInvInit DEF Init
  <2>5. Size(pool) = Len(items) BY DEF Init, PoolInit, NoPool, Size
  <2> QED BY <2>2, <2>3, <2>4, <2>5 DEF TypeInv, Pools
<1>2. TypeInv /\ [ScanNext]_vars => TypeInv'
  BY TypesStep, StagesStep, PoolsStep DEF TypeInv
<1> QED BY <1>1, <1>2, PTL DEF ScanSpec

\* Every variable of a scan stays within its values, whatever the caps, the
\* retries and the pushes.
THEOREM ScanTypeCorrect == ScanSpec => []TypeOK
<1>1. TypeInv => TypeOK BY DEF TypeInv, Types
<1> QED BY <1>1, TypeInvariant, PTL

\* The scan routes use mapWithConcurrency as it is meant to be used, so each
\* repository, or source of a clone search, is worked on once, at most Width at a
\* time, and those that fail take no other with them.
THEOREM ScansMapTheirItems == ScanSpec => MapSpec
<1>1. Init => PoolInit BY DEF Init
<1>2. TypeInv /\ [ScanNext]_vars => [PoolNext]_poolVars BY PoolSteps DEF TypeInv
<1>3. ScanSpec => PoolSpec BY <1>1, <1>2, TypeInvariant, PTL DEF ScanSpec, PoolSpec
<1> QED BY <1>3, PoolImplementsMap

-----------------------------------------------------------------------------
(* 5. No repository is reported on twice *)

Distinct(s, n) == \A i, j \in DOMAIN s : i <= n /\ j <= n /\ s[i] = s[j] => i = j

\* GitHub sorts each repository into one place; a page is as long as the caps
\* reach, and no later page changes the first one.
FirstPageInv ==
  /\ \A i, j \in DOMAIN order : order[i] = order[j] => i = j
  /\ Distinct(listed, PerPage)
  /\ page = 1 => listed = <<>>
  /\ stage = "list" /\ page > 1 => Len(listed) >= PerPage
  /\ NoRepoTwiceInReport

\* Before anything is pushed, the sequence has each repository once, because it
\* is as long as there are repositories.
LEMMA InitialOrderIsInjective ==
  \A i, j \in DOMAIN InitialOrder : InitialOrder[i] = InitialOrder[j] => i = j
<1> DEFINE n == Len(InitialOrder)
           f == InitialOrder
<1>1. n \in Nat /\ f \in [1..n -> Repos] BY ScanAssumption, LenProperties
<1>2. n = Cardinality(Repos) /\ \A r \in Repos : \E i \in 1..n : f[i] = r
  BY <1>1, ScanAssumption
<1>3. IsFiniteSet(1..n) /\ Cardinality(1..n) = n BY <1>1, FS_Interval
<1> HIDE DEF n, f
<1>4. f \in Surjection(1..n, Repos) BY <1>1, <1>2 DEF Surjection
<1>5. f \in Injection(1..n, Repos)
  BY <1>2, <1>3, <1>4, FS_SurjSameCardinalityImpliesInj
<1>6. \A i, j \in 1..n : f[i] = f[j] => i = j BY <1>1, <1>5 DEF Injection, IsInjective
<1> QED BY <1>1, <1>6 DEF f

LEMMA PushedDistinct ==
  ASSUME order \in Seq(Repos), NEW i \in DOMAIN order, Pushed(i),
         \A j, k \in DOMAIN order : order[j] = order[k] => j = k
  PROVE  \A j, k \in DOMAIN order' : order'[j] = order'[k] => j = k
<1> DEFINE n == Len(order)
           from == [k \in 1..n |-> IF k = 1 THEN i ELSE IF k <= i THEN k - 1 ELSE k]
<1>1. /\ n \in Nat /\ DOMAIN order = 1..n /\ i \in 1..n /\ DOMAIN order' = 1..n
      /\ \A k \in 1..n : order'[k] = IF k = 1 THEN order[i]
                                    ELSE IF k <= i THEN order[k - 1] ELSE order[k]
  BY PushedOrder, LenProperties
<1> HIDE DEF n
<1>2. \A k \in 1..n : from[k] \in 1..n /\ order'[k] = order[from[k]]
  BY <1>1
<1>3. \A j, k \in 1..n : from[j] = from[k] => j = k
  BY <1>1
<1> HIDE DEF from
<1> QED BY <1>1, <1>2, <1>3

LEMMA ListedDistinct ==
  ASSUME TypeInv, FirstPageInv, stage = "list",
         listed' = listed \o Page(page)
  PROVE  /\ Distinct(listed', PerPage)
         /\ page = 1 => Len(listed') = Len(Page(page))
         /\ page > 1 => Len(listed') >= PerPage
<1>t. /\ page \in Nat \ {0} /\ listed \in Seq(Repos) /\ order \in Seq(Repos)
      /\ Len(listed) \in Nat /\ Len(order) \in Nat /\ PerPage \in Nat
  BY Caps, LenProperties DEF TypeInv, Types, TypeOK
<1>1. Page(page) \in Seq(Repos) /\ Len(Page(page)) \in Nat
  BY <1>t, PageType, LenProperties
<1> DEFINE pg == Page(page)
<1>2. CASE page = 1
  <2>1. listed' = pg BY <1>2, <1>1, ConcatEmptySeq DEF FirstPageInv
  <2>2. /\ Len(pg) = Lesser(PerPage, Len(order))
        /\ \A i \in 1..Lesser(PerPage, Len(order)) : pg[i] = order[i]
    BY <1>2, <1>t, PageType
  <2>3. Lesser(PerPage, Len(order)) <= Len(order) /\ Lesser(PerPage, Len(order)) \in Nat
    BY <1>t, LesserType
  <2> HIDE DEF pg
  <2>4. DOMAIN pg = 1..Len(pg) BY <1>1 DEF pg
  <2>5. \A i, j \in DOMAIN pg : pg[i] = pg[j] => i = j
    <3>1. \A i \in DOMAIN pg : i \in DOMAIN order /\ pg[i] = order[i]
      BY <1>t, <2>2, <2>3, <2>4
    <3> QED BY <3>1 DEF FirstPageInv
  <2> QED BY <1>2, <2>1, <2>5 DEF Distinct, pg
<1>3. CASE page # 1
  <2>1. page > 1 /\ Len(listed) >= PerPage BY <1>3, <1>t DEF FirstPageInv
  <2> HIDE DEF pg
  <2>2. /\ listed \o pg \in Seq(Repos) /\ Len(listed \o pg) = Len(listed) + Len(pg)
        /\ \A i \in 1..Len(listed) + Len(pg) :
             (listed \o pg)[i] = IF i <= Len(listed) THEN listed[i] ELSE pg[i - Len(listed)]
    BY <1>t, <1>1, ConcatProperties DEF pg
  <2>3. listed' = listed \o pg BY DEF pg
  <2>4. Len(pg) \in Nat BY <1>1 DEF pg
  <2>5. DOMAIN listed' = 1..Len(listed) + Len(pg) /\ DOMAIN listed = 1..Len(listed)
    BY <1>t, <2>2, <2>3
  <2>6. ASSUME NEW i \in DOMAIN listed', i <= PerPage
        PROVE  i \in DOMAIN listed /\ listed'[i] = listed[i]
    BY <1>t, <2>1, <2>2, <2>3, <2>4, <2>5, <2>6
  <2>7. Distinct(listed', PerPage) BY <2>6 DEF FirstPageInv, Distinct
  <2>8. Len(listed') >= PerPage BY <1>t, <2>1, <2>2, <2>3, <2>4
  <2> QED BY <1>3, <2>7, <2>8
<1> QED BY <1>2, <1>3

LEMMA SelectedDistinct ==
  ASSUME TypeInv, FirstPageInv, kind \in {"self", "account"}, NEW s \in Selected
  PROVE  \A i, j \in DOMAIN s : s[i] = s[j] => i = j
<1>t. listed \in Seq(Repos) /\ Len(listed) \in Nat /\ asked \in Int /\ PerPage \in Nat
      /\ DOMAIN listed = 1..Len(listed)
  BY Caps, LenProperties DEF TypeInv, Types, TypeOK
<1>1. PICK n \in Nat : n <= PerPage /\ s = Slice(listed, n)
  <2>1. CASE kind = "self"
    BY <1>t, <2>1, Limits DEF Selected
  <2>2. CASE kind = "account"
    <3>1. DefaultLimit \in Nat \ {0} /\ DefaultLimit <= PerPage BY Caps
    <3> QED BY <2>2, <3>1 DEF Selected
  <2> QED BY <2>1, <2>2
<1>2. /\ s \in Seq(Repos) /\ Len(s) = Lesser(n, Len(listed))
      /\ \A i \in 1..Lesser(n, Len(listed)) : s[i] = listed[i]
  <2>1. n \in Int /\ n >= 0 BY <1>1
  <2> QED BY <1>1, <1>t, <2>1, SliceType
<1>3. Lesser(n, Len(listed)) <= n /\ Lesser(n, Len(listed)) <= Len(listed)
      /\ Lesser(n, Len(listed)) \in Nat
  BY <1>t, <1>1, LesserType
<1>4. DOMAIN s = 1..Lesser(n, Len(listed)) BY <1>2
<1>5. \A i \in DOMAIN s : i \in DOMAIN listed /\ i <= PerPage /\ s[i] = listed[i]
  BY <1>t, <1>1, <1>2, <1>3, <1>4
<1> QED BY <1>5 DEF FirstPageInv, Distinct

LEMMA FirstPageStep == TypeInv /\ FirstPageInv /\ [ScanNext]_vars => FirstPageInv'
<1> SUFFICES ASSUME TypeInv, FirstPageInv, [ScanNext]_vars PROVE FirstPageInv'
  OBVIOUS
<1>t. page \in Nat \ {0} /\ PerPage \in Nat /\ listed \in Seq(Repos) /\ order \in Seq(Repos)
  BY Caps DEF TypeInv, Types, TypeOK
\* Most steps change nothing of it.
<1>k. ASSUME UNCHANGED <<order, listed, page, items, kind>>,
             stage' = "list" => stage = "list" \/ page = 1
      PROVE  FirstPageInv'
  BY <1>k, <1>t DEF FirstPageInv, Distinct, NoRepoTwiceInReport
<1>1. ASSUME NEW k \in Kinds, Receive(k) PROVE FirstPageInv'
  <2>1. /\ stage = "start" /\ UNCHANGED <<order, listed, page, items>>
    BY <1>1 DEF Receive, listing, mapping
  <2>2. page = 1 /\ items = <<>> BY <2>1 DEF TypeInv, Stages
  <2> QED BY <2>1, <2>2 DEF FirstPageInv, Distinct, NoRepoTwiceInReport
<1>2. CASE GetUser \/ GetRepo
  <2>1. /\ UNCHANGED <<order, listed, page, items, kind>>
        /\ stage \in {"user", "repo"}
    BY <1>2, GetUserCalls, GetRepoCalls DEF OneFetch, Again, GivesUp
  <2>2. page = 1 BY <2>1 DEF TypeInv, Stages
  <2> QED BY <1>k, <2>1, <2>2
<1>3. CASE ListRepos
  <2>1. stage = "list" /\ UNCHANGED <<order, items, kind>>
    BY <1>3, ListReposCalls DEF OneFetch
  <2>2. CASE Again \/ GivesUp
    BY <1>k, <2>1, <2>2 DEF Again, GivesUp
  <2>3. CASE /\ listed' = listed \o Page(page) /\ page' = page + 1
             /\ stage' = IF LastPage(page) THEN "select" ELSE "list"
    <3>1. /\ Distinct(listed', PerPage)
          /\ page = 1 => Len(listed') = Len(Page(page))
          /\ page > 1 => Len(listed') >= PerPage
      BY <2>1, <2>3, ListedDistinct
    <3>2. Len(Page(page)) \in Nat BY <1>t, PageType, LenProperties
    <3>3. stage' = "list" => Len(listed') >= PerPage
      BY <1>t, <2>3, <3>1, <3>2 DEF LastPage
    <3>4. page' # 1 BY <1>t, <2>3
    <3>5. NoRepoTwiceInReport' BY <2>1 DEF FirstPageInv, NoRepoTwiceInReport
    <3> QED BY <2>1, <3>1, <3>3, <3>4, <3>5 DEF FirstPageInv, Distinct
  <2> QED BY <1>3, <2>2, <2>3, ListReposCalls
<1>4. CASE Select
  <2>1. /\ items' \in Selected /\ stage' = "map"
        /\ UNCHANGED <<order, listed, page, kind>>
    BY <1>4 DEF Select, request, listing
  <2>2. NoRepoTwiceInReport'
    BY <2>1, SelectedDistinct DEF NoRepoTwiceInReport
  <2> QED BY <2>1, <2>2 DEF FirstPageInv, Distinct
<1>5. ASSUME NEW w \in DOMAIN pool.at, NEW v,
             Scanned(w) \/ SearchClones(w) \/ Inspect(w, v) \/ Inspected(w)
      PROVE  FirstPageInv'
  BY <1>5, <1>k, WorkerSteps
<1>6. CASE CollectItems \/ Report \/ ScanRepo \/ RecordScan
  <2>1. /\ UNCHANGED <<order, listed, page, items, kind>>
        /\ stage' = "list" => stage = "list"
    BY <1>6 DEF CollectItems, Report, ScanRepo, RecordScan, Reported, Answer,
                request, listing, mapping
  <2> QED BY <1>k, <2>1
<1>7. ASSUME NEW i \in DOMAIN order, Pushed(i) PROVE FirstPageInv'
  <2>1. UNCHANGED <<kind, stage, listed, page, items>>
    BY <1>7 DEF Pushed, request, mapping
  <2>2. \A j, k \in DOMAIN order' : order'[j] = order'[k] => j = k
    BY <1>t, <1>7, PushedDistinct DEF FirstPageInv
  <2> QED BY <2>1, <2>2 DEF FirstPageInv, Distinct, NoRepoTwiceInReport
<1>8. CASE UNCHANGED vars
  BY <1>8, <1>k DEF vars, request, listing, mapping
<1> QED BY <1>1, <1>2, <1>3, <1>4, <1>5, <1>6, <1>7, <1>8, Cases

\* A push between two pages may list a repository twice, but never among the
\* first PerPage, and no cap lets a report see more than those.
THEOREM ReportsNameRepositoriesOnce == ScanSpec => []NoRepoTwiceInReport
<1>1. Init => FirstPageInv
  <2> SUFFICES ASSUME Init PROVE FirstPageInv
    OBVIOUS
  <2>1. order = InitialOrder /\ listed = <<>> /\ items = <<>> /\ stage = "start" BY DEF Init
  <2> QED BY <2>1, InitialOrderIsInjective DEF FirstPageInv, Distinct, NoRepoTwiceInReport
<1>2. FirstPageInv => NoRepoTwiceInReport BY DEF FirstPageInv
<1> QED BY <1>1, <1>2, FirstPageStep, TypeInvariant, PTL DEF ScanSpec

-----------------------------------------------------------------------------
(* 6. What a scan spends *)

\* The fetches of one call at most.
M == maxRetries + 1

LEMMA Times ==
  /\ M \in Nat \ {0} /\ maxRetries \in Nat /\ M = maxRetries + 1
  /\ \A a \in Nat : M * a \in Nat /\ a * M = M * a
  /\ \A a, b \in Nat : M * (a + b) = M * a + M * b
  /\ \A a, b \in Nat : a <= b => M * a <= M * b
  /\ M * 1 = M
<1>1. maxRetries \in Nat /\ M \in Nat \ {0} /\ M = maxRetries + 1 BY RetriesAssumption DEF M
<1> HIDE DEF M
<1>2. \A a \in Nat : M * a \in Nat /\ a * M = M * a BY <1>1
<1>3. \A a, b \in Nat : M * (a + b) = M * a + M * b BY <1>1
<1>4. ASSUME NEW a \in Nat, NEW b \in Nat, a <= b PROVE M * a <= M * b
  <2>1. PICK d \in Nat : b = a + d
    <3>1. b - a \in Nat /\ b = a + (b - a) BY <1>4
    <3> QED BY <3>1
  <2>2. M * b = M * a + M * d /\ M * d \in Nat /\ M * a \in Nat BY <1>1, <1>2, <1>3, <2>1
  <2> QED BY <2>2
<1> QED BY <1>1, <1>2, <1>3, <1>4

\* The items that are through, the sources that were searched, and the candidates
\* that were inspected.
Through == {i \in DOMAIN items : pool.out[i] # "todo"}
Sought == {i \in DOMAIN items : work[i] # NoWork \/ pool.out[i] # "todo"}
Weighed ==
  {p \in (DOMAIN items) \X (1..MaxCandidates) :
     /\ work[p[1]] # NoWork
     /\ p[2] \in 1..Size(work[p[1]].inner)
     /\ work[p[1]].inner.out[p[2]] # "todo"}

\* The calls the pool has made so far.
ItemCalls ==
  IF kind = "clones" THEN Cardinality(Sought) + 6 * Cardinality(Weighed)
  ELSE 5 * Cardinality(Through)

\* A source that was searched has its pool of candidates.
HasCandidates(t) ==
  /\ t = [searched |-> TRUE, suspects |-> t.suspects,
          inner |-> t.inner, confidences |-> t.confidences]
  /\ Consistent(t.inner) /\ Size(t.inner) <= MaxCandidates

Tasks ==
  kind = "clones" /\ stage = "map" =>
    \A i \in DOMAIN items : work[i] = NoWork \/ HasCandidates(work[i])

SpendInv ==
  /\ stage = "start" => spent = 0
  /\ stage \in {"user", "repo"} => spent <= attempt
  /\ stage = "list" => spent <= M * page + attempt
  /\ stage = "select" => spent <= M * (1 + MaxPages)
  /\ stage = "snapshot" => spent <= M
  /\ stage \in {"map", "report"} => spent <= M * (1 + MaxPages + ItemCalls)
  /\ stage = "done" => spent <= M * Worst

LEMMA Items ==
  ASSUME TypeInv
  PROVE  /\ items \in Seq(Repos) /\ Len(items) \in Nat /\ DOMAIN items = 1..Len(items)
         /\ IsFiniteSet(DOMAIN items) /\ Cardinality(DOMAIN items) = Len(items)
         /\ DOMAIN work = DOMAIN items
         /\ Size(pool) = Len(items) /\ Consistent(pool)
         /\ spent \in Nat
<1>1. items \in Seq(Repos) /\ DOMAIN work = DOMAIN items /\ spent \in Nat
  BY DEF TypeInv, Types, TypeOK
<1>2. Len(items) \in Nat /\ DOMAIN items = 1..Len(items) BY <1>1, LenProperties
<1>3. IsFiniteSet(DOMAIN items) /\ Cardinality(DOMAIN items) = Len(items)
  <2> DEFINE n == Len(items)
  <2>1. n \in Nat /\ DOMAIN items = 1..n BY <1>2
  <2> HIDE DEF n
  <2>2. IsFiniteSet(1..n) /\ Cardinality(1..n) = n BY <2>1, FS_Interval
  <2> QED BY <2>1, <2>2 DEF n
<1> QED BY <1>1, <1>2, <1>3 DEF TypeInv, Pools, PoolInv

LEMMA Members ==
  ASSUME NEW S, IsFiniteSet(S), NEW T \in SUBSET S
  PROVE  /\ Cardinality(T) \in Nat /\ Cardinality(T) <= Cardinality(S)
         /\ \A x : x \notin T => Cardinality(T \cup {x}) = Cardinality(T) + 1
BY FS_Subset, FS_CardinalityType, FS_AddElement

LEMMA Pairs ==
  ASSUME TypeInv
  PROVE  /\ IsFiniteSet((DOMAIN items) \X (1..MaxCandidates))
         /\ Cardinality((DOMAIN items) \X (1..MaxCandidates)) = Len(items) * MaxCandidates
<1>1. IsFiniteSet(1..MaxCandidates) /\ Cardinality(1..MaxCandidates) = MaxCandidates
  BY Caps, FS_Interval
<1>2. IsFiniteSet(DOMAIN items) /\ Cardinality(DOMAIN items) = Len(items) BY Items
<1> QED BY <1>1, <1>2, FS_Product

\* The calls of the pool are no more than the worst case counts.
LEMMA CallsBound ==
  ASSUME TypeInv
  PROVE  /\ ItemCalls \in Nat /\ Worst \in Nat
         /\ 1 + MaxPages <= Worst
         /\ kind # "repo" => 1 + MaxPages + ItemCalls <= Worst
<1> DEFINE n == Len(items)
           k == MaxCandidates
<1>1. n \in Nat /\ k \in Nat /\ MaxPages \in Nat BY Caps, Items
<1>2. n * k \in Nat /\ (1 + k * 6) * n = n + 6 * (n * k) /\ (1 + k * 6) * n \in Nat
  <2> HIDE DEF n, k
  <2> QED BY <1>1
<1>3. Cardinality(Through) \in Nat /\ Cardinality(Through) <= n
  BY Items, Members DEF Through
<1>4. Cardinality(Sought) \in Nat /\ Cardinality(Sought) <= n
  BY Items, Members DEF Sought
<1>5. Cardinality(Weighed) \in Nat /\ Cardinality(Weighed) <= n * k
  <2>1. Weighed \in SUBSET ((DOMAIN items) \X (1..MaxCandidates)) BY DEF Weighed
  <2> QED BY <2>1, Pairs, Members
<1>6. /\ kind = "clones" => Worst = 1 + MaxPages + (1 + k * 6) * n
      /\ kind = "repo" => Worst = 1 + MaxPages + 6
      /\ kind \notin {"clones", "repo"} => Worst = 1 + MaxPages + 5 * n
  BY DEF Worst
<1> HIDE DEF n, k
<1>7. CASE kind = "clones"
  <2>1. ItemCalls = Cardinality(Sought) + 6 * Cardinality(Weighed) BY <1>7 DEF ItemCalls
  <2>2. ItemCalls \in Nat /\ ItemCalls <= n + 6 * (n * k)
    BY <2>1, <1>1, <1>2, <1>4, <1>5
  <2>3. Worst = 1 + MaxPages + (n + 6 * (n * k)) BY <1>2, <1>6, <1>7
  <2> QED BY <2>2, <2>3, <1>1, <1>2
<1>8. CASE kind # "clones"
  <2>1. ItemCalls = 5 * Cardinality(Through) BY <1>8 DEF ItemCalls
  <2>2. ItemCalls \in Nat /\ ItemCalls <= 5 * n BY <2>1, <1>1, <1>3
  <2> QED BY <2>2, <1>1, <1>6, <1>8
<1> QED BY <1>7, <1>8

LEMMA CallsAreCounted == TypeInv => ItemCalls \in Nat
BY CallsBound

\* The item of a worker is one of them, and only that one's outcome changes.
LEMMA SettlesOne ==
  ASSUME TypeInv, NEW w \in Working(pool), NEW i, i = pool.at[w],
         NEW o \in {"ok", "failed"}, Settles(w, o)
  PROVE  \A j \in DOMAIN items : pool'.out[j] = IF j = i THEN o ELSE pool.out[j]
<1>1. w \in DOMAIN pool.at /\ pool.at[w] # 0 /\ pool' = Settled(pool, w, o)
  BY DEF Settles, Working
<1>2. Consistent(pool) /\ DOMAIN items = 1..Size(pool) BY Items
<1> QED BY <1>1, <1>2, SettledIsConsistent

LEMMA ItemOf ==
  ASSUME NEW p, Consistent(p), NEW w \in Working(p)
  PROVE  w \in DOMAIN p.at /\ p.at[w] # 0 /\ p.at[w] \in 1..Size(p) /\ p.out[p.at[w]] = "todo"
<1>1. w \in DOMAIN p.at /\ p.at[w] # 0 BY DEF Working
<1>2. "ok" \in {"ok", "failed"} OBVIOUS
<1> QED BY <1>1, <1>2, SettledIsConsistent

\* A repository of a report is scanned, or fails.
LEMMA ScannedSpends ==
  ASSUME TypeInv, NEW w \in DOMAIN pool.at, Scanned(w),
         spent <= M * (1 + MaxPages + ItemCalls)
  PROVE  spent' <= M * (1 + MaxPages + ItemCalls')
<1>1. /\ kind # "clones" /\ w \in Working(pool) /\ UNCHANGED <<kind, items>>
      /\ \E o \in {"ok", "failed"} : Settles(w, o)
      /\ \E c \in Costs(5) : spent' = spent + c
  BY DEF Scanned, request
<1>2. PICK i \in DOMAIN items : i = pool.at[w] /\ pool.out[i] = "todo"
  BY <1>1, Items, ItemOf
<1>3. \A j \in DOMAIN items : pool'.out[j] # "todo" <=> j = i \/ pool.out[j] # "todo"
  BY <1>1, <1>2, SettlesOne
<1>4. Through' = Through \cup {i} /\ i \notin Through
  BY <1>1, <1>2, <1>3 DEF Through
<1>5. Cardinality(Through') = Cardinality(Through) + 1 /\ Cardinality(Through) \in Nat
  BY <1>4, Items, Members DEF Through
<1>6. ItemCalls' = ItemCalls + 5 /\ ItemCalls \in Nat
  BY <1>1, <1>5 DEF ItemCalls
<1>7. PICK c \in Costs(5) : spent' = spent + c BY <1>1
<1>8. c \in Nat /\ c <= M * 5 BY CallCosts, Times
<1>9. M * ((1 + MaxPages + ItemCalls) + 5) = M * (1 + MaxPages + ItemCalls) + M * 5
  BY <1>6, Caps, Times
<1>10. 1 + MaxPages + ItemCalls' = (1 + MaxPages + ItemCalls) + 5 BY <1>6, Caps
<1>11. spent \in Nat /\ M * (1 + MaxPages + ItemCalls) \in Nat /\ M * 5 \in Nat
  BY <1>6, Caps, Times, Items
<1> QED BY <1>7, <1>8, <1>9, <1>10, <1>11

\* A source is searched, and its candidates wait for their inspection, if the
\* search finds any.
LEMMA SearchSpends ==
  ASSUME TypeInv, Tasks, NEW w \in DOMAIN pool.at, SearchClones(w),
         spent <= M * (1 + MaxPages + ItemCalls)
  PROVE  spent' <= M * (1 + MaxPages + ItemCalls') /\ Tasks'
<1>1. /\ kind = "clones" /\ stage = "map" /\ w \in Working(pool) /\ ~Task(w).searched
      /\ UNCHANGED <<kind, stage, items>>
      /\ \E c \in CallCost : spent' = spent + c
  BY DEF SearchClones, request
<1>2. PICK i \in DOMAIN items : i = pool.at[w] /\ pool.out[i] = "todo"
  BY <1>1, Items, ItemOf
<1>3. work[i] = NoWork
  <2>1. ~work[i].searched BY <1>1, <1>2 DEF Task
  <2>2. HasCandidates(work[i]) => work[i].searched BY DEF HasCandidates
  <2> QED BY <1>1, <2>1, <2>2 DEF Tasks
\* It has been sought, and nothing is inspected.
<1>4. /\ Sought' = Sought \cup {i} /\ i \notin Sought /\ Weighed' = Weighed
      /\ Tasks'
  <2>1. CASE UNCHANGED work /\ Settles(w, "failed")
    <3>1. \A j \in DOMAIN items : pool'.out[j] # "todo" <=> j = i \/ pool.out[j] # "todo"
      BY <1>1, <1>2, <2>1, SettlesOne
    <3>2. Sought' = Sought \cup {i} /\ i \notin Sought
      BY <1>1, <1>2, <1>3, <2>1, <3>1 DEF Sought
    <3> QED BY <1>1, <2>1, <3>2 DEF Weighed, Tasks
  <2>2. ASSUME NEW s \in Suspects, NEW t,
               t = [searched |-> TRUE, suspects |-> s, inner |-> PoolOf(Len(s)),
                    confidences |-> [k \in DOMAIN s |-> 0]],
               work' = [work EXCEPT ![pool.at[w]] = t],
               UNCHANGED poolVars
        PROVE  Sought' = Sought \cup {i} /\ i \notin Sought /\ Weighed' = Weighed /\ Tasks'
    <3>1. Len(s) \in 0..MaxCandidates
      <4>1. PICK n \in 0..MaxCandidates : s \in [1..n -> Others] BY DEF Suspects
      <4>2. n \in Nat BY Caps
      <4>3. s \in Seq(Others) /\ Len(s) = n BY <4>1, <4>2
      <4> QED BY <4>3
    <3>2. /\ Consistent(t.inner) /\ Size(t.inner) = Len(s)
          /\ \A k \in 1..Len(s) : t.inner.out[k] = "todo"
      <4>1. t.inner = PoolOf(Len(s)) /\ Len(s) \in Nat BY <2>2, <3>1, Caps
      <4>2. PoolOf(Len(s)).out = [k \in 1..Len(s) |-> "todo"] BY DEF PoolOf
      <4> QED BY <4>1, <4>2, PoolOfIsConsistent
    <3>3. t # NoWork /\ t = [searched |-> TRUE, suspects |-> t.suspects,
                             inner |-> t.inner, confidences |-> t.confidences]
      <4>1. t.searched = TRUE /\ NoWork.searched = FALSE BY <2>2 DEF NoWork
      <4> QED BY <2>2, <4>1
    <3>4. work'[i] = t /\ \A j \in DOMAIN items \ {i} : work'[j] = work[j]
      BY <1>2, <2>2, Items
    <3>5. HasCandidates(t) BY <3>1, <3>2, <3>3, Caps DEF HasCandidates
    <3>6. Tasks' BY <1>1, <3>4, <3>5 DEF Tasks
    <3>7. pool' = pool BY <2>2 DEF poolVars
    <3>8. Sought' = Sought \cup {i} /\ i \notin Sought
      BY <1>1, <1>2, <1>3, <3>3, <3>4, <3>7 DEF Sought
    <3>9. ASSUME NEW p \in (DOMAIN items) \X (1..MaxCandidates)
          PROVE  p \in Weighed' <=> p \in Weighed
      <4>1. p[1] \in DOMAIN items OBVIOUS
      <4>2. CASE p[1] = i
        <5>1. p \notin Weighed BY <4>2, <1>3 DEF Weighed
        <5>2. p \notin Weighed'
          BY <4>2, <3>2, <3>4 DEF Weighed
        <5> QED BY <5>1, <5>2
      <4>3. CASE p[1] # i
        BY <1>1, <4>1, <4>3, <3>4 DEF Weighed
      <4> QED BY <4>2, <4>3
    <3>10. Weighed' = Weighed BY <1>1, <3>9 DEF Weighed
    <3> QED BY <3>6, <3>8, <3>10
  <2> QED BY <2>1, <2>2 DEF SearchClones
<1>5. Cardinality(Sought') = Cardinality(Sought) + 1 /\ Cardinality(Sought) \in Nat
  BY <1>4, Items, Members DEF Sought
<1>6. ItemCalls \in Nat /\ ItemCalls' = ItemCalls + 1
  <2>1. Cardinality(Weighed) \in Nat
    BY Pairs, Members DEF Weighed
  <2> QED BY <1>1, <1>4, <1>5, <2>1 DEF ItemCalls
<1>7. PICK c \in CallCost : spent' = spent + c BY <1>1
<1>8. c \in Nat /\ c <= M BY Times DEF CallCost
<1>9. M * ((1 + MaxPages + ItemCalls) + 1) = M * (1 + MaxPages + ItemCalls) + M * 1
  BY <1>6, Caps, Times
<1>10. 1 + MaxPages + ItemCalls' = (1 + MaxPages + ItemCalls) + 1 BY <1>6, Caps
<1>11. spent \in Nat /\ M * (1 + MaxPages + ItemCalls) \in Nat /\ M * 1 = M /\ M \in Nat
  BY <1>6, Caps, Times, Items
<1> QED BY <1>4, <1>7, <1>8, <1>9, <1>10, <1>11

\* A candidate is inspected, or fails.
LEMMA InspectSpends ==
  ASSUME TypeInv, Tasks, NEW w \in DOMAIN pool.at, NEW v, Inspect(w, v),
         spent <= M * (1 + MaxPages + ItemCalls)
  PROVE  spent' <= M * (1 + MaxPages + ItemCalls') /\ Tasks'
<1>1. /\ kind = "clones" /\ stage = "map" /\ w \in Working(pool)
      /\ Task(w).searched /\ v \in Working(Task(w).inner)
      /\ UNCHANGED <<kind, stage, items, pool>>
      /\ \E c \in Costs(6) : spent' = spent + c
  BY DEF Inspect, request, poolVars
<1>2. PICK i \in DOMAIN items : i = pool.at[w] BY <1>1, Items, ItemOf
<1>3. PICK t : t = work[i] OBVIOUS
<1>4. t # NoWork /\ HasCandidates(t)
  <2>1. t.searched BY <1>1, <1>2, <1>3 DEF Task
  <2>2. NoWork.searched = FALSE BY DEF NoWork
  <2> QED BY <1>1, <1>2, <1>3, <2>1, <2>2 DEF Tasks
<1>5. v \in Working(t.inner) /\ Consistent(t.inner)
  BY <1>1, <1>2, <1>3, <1>4 DEF Task, HasCandidates
<1>6. PICK k \in 1..MaxCandidates :
        k = t.inner.at[v] /\ k \in 1..Size(t.inner) /\ t.inner.out[k] = "todo"
  <2>1. t.inner.at[v] \in 1..Size(t.inner) /\ t.inner.out[t.inner.at[v]] = "todo"
        /\ Size(t.inner) \in Nat
    BY <1>5, ItemOf DEF Consistent, Size
  <2> QED BY <2>1, <1>4, Caps DEF HasCandidates
<1>7. PICK o \in {"ok", "failed"}, c \in Confidences \cup {0} :
        work' = [work EXCEPT ![pool.at[w]] =
                   [t EXCEPT !.inner = Settled(t.inner, v, o), !.confidences[k] = c]]
  <2>1. t.inner.at[v] = k /\ Task(w) = t BY <1>2, <1>3, <1>6 DEF Task
  <2>2. PICK judged :
          /\ \/ \E c \in Confidences :
                  judged = [t EXCEPT !.inner = Settled(t.inner, v, "ok"), !.confidences[k] = c]
             \/ judged = [t EXCEPT !.inner = Settled(t.inner, v, "failed"), !.confidences[k] = 0]
          /\ work' = [work EXCEPT ![pool.at[w]] = judged]
    BY <2>1 DEF Inspect
  <2> QED BY <2>2
<1>8. PICK r : r = [t EXCEPT !.inner = Settled(t.inner, v, o), !.confidences[k] = c]
  OBVIOUS
<1>9. /\ r = [searched |-> TRUE, suspects |-> r.suspects,
              inner |-> r.inner, confidences |-> r.confidences]
      /\ r.searched = TRUE
      /\ r.inner = Settled(t.inner, v, o)
  <2>1. PICK a, b, d : t = [searched |-> TRUE, suspects |-> a, inner |-> b, confidences |-> d]
    BY <1>4 DEF HasCandidates
  <2>2. r = [searched |-> TRUE, suspects |-> a, inner |-> Settled(t.inner, v, o),
             confidences |-> [d EXCEPT ![k] = c]]
    BY <1>8, <2>1
  <2> QED BY <2>2
<1>10. r # NoWork
  <2>1. NoWork.searched = FALSE BY DEF NoWork
  <2> QED BY <1>9, <2>1
<1>11. /\ Consistent(r.inner) /\ Size(r.inner) = Size(t.inner)
       /\ \A j \in 1..Size(t.inner) : r.inner.out[j] = IF j = k THEN o ELSE t.inner.out[j]
  <2>1. v \in DOMAIN t.inner.at /\ t.inner.at[v] # 0 BY <1>5 DEF Working
  <2> QED BY <1>5, <1>6, <1>9, <2>1, SettledIsConsistent
<1>12. work'[i] = r /\ \A j \in DOMAIN items \ {i} : work'[j] = work[j]
  BY <1>2, <1>7, <1>8, Items
<1>13. Tasks'
  <2>1. HasCandidates(r) BY <1>4, <1>9, <1>11 DEF HasCandidates
  <2> QED BY <1>1, <1>12, <2>1 DEF Tasks
<1>14. Sought' = Sought
  BY <1>1, <1>3, <1>4, <1>10, <1>12 DEF Sought
<1>15. Weighed' = Weighed \cup {<<i, k>>} /\ <<i, k>> \notin Weighed
  <2>1. ASSUME NEW a \in DOMAIN items, NEW b \in 1..MaxCandidates
        PROVE  /\ <<a, b>> \in Weighed <=>
                    /\ work[a] # NoWork /\ b \in 1..Size(work[a].inner)
                    /\ work[a].inner.out[b] # "todo"
               /\ <<a, b>> \in Weighed' <=>
                    /\ work'[a] # NoWork /\ b \in 1..Size(work'[a].inner)
                    /\ work'[a].inner.out[b] # "todo"
    BY <1>1 DEF Weighed
  <2>2. ASSUME NEW a \in DOMAIN items, NEW b \in 1..MaxCandidates
        PROVE  <<a, b>> \in Weighed' <=> <<a, b>> = <<i, k>> \/ <<a, b>> \in Weighed
    <3>1. CASE a = i
      BY <2>1, <3>1, <1>3, <1>4, <1>6, <1>10, <1>11, <1>12
    <3>2. CASE a # i
      <4>1. work'[a] = work[a] BY <3>2, <1>12
      <4> QED BY <2>1, <3>2, <4>1
    <3> QED BY <3>1, <3>2
  <2>3. <<i, k>> \notin Weighed BY <2>1, <1>3, <1>6
  <2>4. Weighed \subseteq (DOMAIN items) \X (1..MaxCandidates)
        /\ Weighed' \subseteq (DOMAIN items) \X (1..MaxCandidates)
    BY <1>1 DEF Weighed
  <2> QED BY <2>2, <2>3, <2>4
<1>16. Cardinality(Weighed') = Cardinality(Weighed) + 1 /\ Cardinality(Weighed) \in Nat
  BY <1>15, Pairs, Members DEF Weighed
<1>17. ItemCalls \in Nat /\ ItemCalls' = ItemCalls + 6
  <2>1. Cardinality(Sought) \in Nat BY Items, Members DEF Sought
  <2> QED BY <1>1, <1>14, <1>16, <2>1 DEF ItemCalls
<1>18. PICK d \in Costs(6) : spent' = spent + d BY <1>1
<1>19. d \in Nat /\ d <= M * 6 BY CallCosts, Times
<1>20. M * ((1 + MaxPages + ItemCalls) + 6) = M * (1 + MaxPages + ItemCalls) + M * 6
  BY <1>17, Caps, Times
<1>21. 1 + MaxPages + ItemCalls' = (1 + MaxPages + ItemCalls) + 6 BY <1>17, Caps
<1>22. spent \in Nat /\ M * (1 + MaxPages + ItemCalls) \in Nat /\ M * 6 \in Nat
  BY <1>17, Caps, Times, Items
<1> QED BY <1>13, <1>18, <1>19, <1>20, <1>21, <1>22

\* The candidates of a source are through.
LEMMA InspectedSpends ==
  ASSUME TypeInv, Tasks, NEW w \in DOMAIN pool.at, Inspected(w),
         spent <= M * (1 + MaxPages + ItemCalls)
  PROVE  spent' <= M * (1 + MaxPages + ItemCalls') /\ Tasks'
<1>1. /\ kind = "clones" /\ stage = "map" /\ w \in Working(pool)
      /\ Task(w).searched /\ Settles(w, "ok")
      /\ UNCHANGED <<kind, stage, items, work, spent>>
  BY DEF Inspected, request
<1>2. PICK i \in DOMAIN items : i = pool.at[w] BY <1>1, Items, ItemOf
<1>3. work[i] # NoWork
  <2>1. work[i].searched BY <1>1, <1>2 DEF Task
  <2> QED BY <2>1 DEF NoWork
<1>4. \A j \in DOMAIN items : pool'.out[j] # "todo" <=> j = i \/ pool.out[j] # "todo"
  BY <1>1, <1>2, SettlesOne
<1>5. Sought' = Sought BY <1>1, <1>3, <1>4 DEF Sought
<1>6. Weighed' = Weighed BY <1>1 DEF Weighed
<1>7. ItemCalls' = ItemCalls BY <1>1, <1>5, <1>6 DEF ItemCalls
<1>8. Tasks' BY <1>1 DEF Tasks
<1> QED BY <1>1, <1>7, <1>8

LEMMA TasksStep == TypeInv /\ Tasks /\ SpendInv /\ [ScanNext]_vars => Tasks'
<1> SUFFICES ASSUME TypeInv, Tasks, SpendInv, [ScanNext]_vars PROVE Tasks'
  OBVIOUS
<1>1. CASE Select
  <2>1. work' = [i \in DOMAIN items' |-> NoWork] BY <1>1 DEF Select
  <2> QED BY <2>1 DEF Tasks
<1>2. ASSUME NEW w \in DOMAIN pool.at, NEW v,
             Scanned(w) \/ SearchClones(w) \/ Inspect(w, v) \/ Inspected(w)
      PROVE  Tasks'
  <2>1. stage = "map" BY <1>2, WorkerSteps
  <2>2. spent <= M * (1 + MaxPages + ItemCalls) BY <2>1 DEF SpendInv
  <2>3. Scanned(w) => Tasks' BY DEF Scanned, request, Tasks
  <2> QED BY <1>2, <2>2, <2>3, SearchSpends, InspectSpends, InspectedSpends
<1>3. CASE \/ \E k \in Kinds : Receive(k)
           \/ GetUser \/ GetRepo \/ ListRepos \/ CollectItems \/ Report \/ ScanRepo
  <2>1. stage' # "map"
    BY <1>3, GetUserCalls, GetRepoCalls, ListReposCalls
       DEF Receive, CollectItems, Report, ScanRepo, Reported, Answer, Again, GivesUp, Kinds, Listing
  <2> QED BY <2>1 DEF Tasks
<1>4. CASE RecordScan \/ (\E i \in DOMAIN order : Pushed(i)) \/ UNCHANGED vars
  <2>1. UNCHANGED <<kind, stage, items, work>>
    BY <1>4 DEF RecordScan, Pushed, vars, request, mapping
  <2> QED BY <2>1 DEF Tasks
<1> QED BY <1>1, <1>2, <1>3, <1>4, Cases

LEMMA SpendStep == TypeInv /\ Tasks /\ SpendInv /\ [ScanNext]_vars => SpendInv'
<1> SUFFICES ASSUME TypeInv, Tasks, SpendInv, [ScanNext]_vars PROVE SpendInv'
  OBVIOUS
<1>t. /\ spent \in Nat /\ attempt \in 0..maxRetries /\ maxRetries \in Nat
      /\ page \in Nat \ {0} /\ MaxPages \in Nat \ {0} /\ M \in Nat /\ M = maxRetries + 1
      /\ (stage = "list" => page <= MaxPages)
  BY Times, Items, Caps DEF TypeInv, Types, TypeOK, Stages
<1>m. /\ M * 1 = M /\ M * (1 + MaxPages) \in Nat /\ M <= M * (1 + MaxPages)
      /\ M * page \in Nat /\ M * (page + 1) = M * page + M
      /\ (page <= MaxPages => M * (page + 1) <= M * (1 + MaxPages))
  <2>1. page + 1 \in Nat /\ 1 + MaxPages \in Nat /\ 1 <= 1 + MaxPages
        /\ (page <= MaxPages => page + 1 <= 1 + MaxPages)
    BY <1>t
  <2>2. M * 1 <= M * (1 + MaxPages) BY <2>1, Times
  <2>3. M * (page + 1) = M * page + M * 1 BY <1>t, Times
  <2>4. page <= MaxPages => M * (page + 1) <= M * (1 + MaxPages) BY <2>1, Times
  <2>5. M * page \in Nat /\ M * (1 + MaxPages) \in Nat /\ M * 1 = M BY <1>t, <2>1, Times
  <2> QED BY <2>2, <2>3, <2>4, <2>5
\* A call that gives up ends the scan.
<1>g. ASSUME OneFetch, spent' <= M * (1 + MaxPages) PROVE spent' <= M * Worst'
  <2>1. Worst' = Worst BY <1>g DEF OneFetch, Worst
  <2>2. Worst \in Nat /\ 1 + MaxPages <= Worst BY CallsBound
  <2>3. M * (1 + MaxPages) <= M * Worst /\ M * Worst \in Nat BY <1>t, <2>2, Times
  <2>4. spent' \in Nat BY <1>g, <1>t DEF OneFetch
  <2> QED BY <1>g, <1>m, <2>1, <2>3, <2>4
<1>1. ASSUME NEW k \in Kinds, Receive(k) PROVE SpendInv'
  <2>1. /\ spent' = 0 /\ stage' \in {"done", "list", "repo", "user"}
        /\ UNCHANGED <<attempt, page>> /\ kind' = k /\ UNCHANGED items
    BY <1>1 DEF Receive, Answer, listing, mapping, SpendInv
  <2>2. stage' = "done" => 0 <= M * Worst'
    <3>1. Worst' \in Nat
      <4>1. Len(items') \in Nat /\ MaxCandidates \in Nat BY <2>1, Items, Caps
      <4>2. (1 + MaxCandidates * 6) * Len(items') \in Nat /\ 5 * Len(items') \in Nat BY <4>1
      <4> QED BY <1>t, <4>2 DEF Worst
    <3>2. PICK x \in Nat : x = Worst' BY <3>1
    <3>3. M * x \in Nat BY Times
    <3> QED BY <3>2, <3>3
  <2>3. 0 <= attempt /\ 0 <= M * page + attempt BY <1>t, <1>m
  <2> QED BY <2>1, <2>2, <2>3 DEF SpendInv
<1>2. CASE GetUser \/ GetRepo
  <2>1. /\ stage \in {"user", "repo"} /\ OneFetch /\ page = 1 /\ spent <= attempt
        /\ spent' = spent + 1
    BY <1>2, GetUserCalls, GetRepoCalls DEF TypeInv, Stages, SpendInv, OneFetch
  <2>2. spent' <= M BY <1>t, <2>1
  <2>3. CASE attempt' = 0 /\ stage' \in {"list", "snapshot"} /\ UNCHANGED <<listed, page>>
    <3>1. M * page' + attempt' = M BY <1>m, <2>1, <2>3, <1>t
    <3> QED BY <2>2, <2>3, <3>1, <1>m DEF SpendInv
  <2>4. CASE Again
    <3>1. spent' <= attempt' BY <1>t, <2>1, <2>4 DEF Again
    <3> QED BY <2>1, <2>4, <3>1 DEF Again, SpendInv
  <2>5. CASE GivesUp
    <3>1. spent' <= M * (1 + MaxPages) BY <1>t, <1>m, <2>1, <2>2
    <3> QED BY <1>g, <2>1, <2>5, <3>1 DEF GivesUp, SpendInv
  <2> QED BY <1>2, <2>3, <2>4, <2>5, GetUserCalls, GetRepoCalls
<1>3. CASE ListRepos
  <2>1. /\ stage = "list" /\ OneFetch /\ page <= MaxPages /\ spent <= M * page + attempt
        /\ spent' = spent + 1
    BY <1>3, ListReposCalls DEF TypeInv, Stages, SpendInv, OneFetch
  <2>2. spent' <= M * (page + 1) BY <1>t, <1>m, <2>1
  <2>3. CASE /\ attempt' = 0
             /\ listed' = listed \o Page(page) /\ page' = page + 1
             /\ stage' = IF LastPage(page) THEN "select" ELSE "list"
    <3>1. M * page' + attempt' = M * (page + 1) BY <1>m, <1>t, <2>3
    <3>2. spent' <= M * (1 + MaxPages) BY <1>m, <1>t, <2>1, <2>2
    <3> QED BY <2>2, <2>3, <3>1, <3>2 DEF SpendInv
  <2>4. CASE Again
    <3>1. spent' <= M * page' + attempt' BY <1>t, <1>m, <2>1, <2>4 DEF Again
    <3> QED BY <2>1, <2>4, <3>1 DEF Again, SpendInv
  <2>5. CASE GivesUp
    <3>1. spent' <= M * (1 + MaxPages) BY <1>t, <1>m, <2>1, <2>2
    <3> QED BY <1>g, <2>1, <2>5, <3>1 DEF GivesUp, SpendInv
  <2> QED BY <1>3, <2>3, <2>4, <2>5, ListReposCalls
<1>4. CASE Select
  <2>1. /\ stage = "select" /\ stage' = "map" /\ UNCHANGED spent
    BY <1>4 DEF Select
  <2>2. TypeInv' BY TypesStep, StagesStep, PoolsStep DEF TypeInv
  <2>3. (ItemCalls \in Nat)' BY <2>2, CallsAreCounted, PTL
  <2>4. PICK x \in Nat : x = ItemCalls' BY <2>3
  <2>5. /\ M * (1 + MaxPages) <= M * (1 + MaxPages + x)
        /\ M * (1 + MaxPages + x) \in Nat
    <3>1. 1 + MaxPages \in Nat /\ 1 + MaxPages + x \in Nat
          /\ 1 + MaxPages <= 1 + MaxPages + x
      BY <1>t
    <3> QED BY <3>1, Times
  <2>6. spent <= M * (1 + MaxPages) BY <2>1 DEF SpendInv
  <2>7. spent' <= M * (1 + MaxPages + x)
    <3>1. spent' = spent BY <2>1
    <3> HIDE DEF M
    <3> QED BY <1>t, <1>m, <2>5, <2>6, <3>1
  <2>8. spent' <= M * (1 + MaxPages + ItemCalls') BY <2>4, <2>7
  <2> QED BY <2>1, <2>8 DEF SpendInv
<1>5. ASSUME NEW w \in DOMAIN pool.at, NEW v,
             Scanned(w) \/ SearchClones(w) \/ Inspect(w, v) \/ Inspected(w)
      PROVE  SpendInv'
  <2>1. stage = "map" /\ stage' = stage BY <1>5, WorkerSteps
  <2>2. spent <= M * (1 + MaxPages + ItemCalls) BY <2>1 DEF SpendInv
  <2>3. spent' <= M * (1 + MaxPages + ItemCalls')
    BY <1>5, <2>2, ScannedSpends, SearchSpends, InspectSpends, InspectedSpends
  <2> QED BY <2>1, <2>3 DEF SpendInv
<1>6. CASE CollectItems
  <2>1. /\ stage = "map" /\ stage' = "report" /\ UNCHANGED <<kind, items, work, pool, spent>>
    BY <1>6 DEF CollectItems, CollectResults, request
  <2>2. ItemCalls' = ItemCalls BY <2>1 DEF ItemCalls, Through, Sought, Weighed
  <2> QED BY <2>1, <2>2 DEF SpendInv
<1>7. CASE Report
  <2>1. /\ stage = "report" /\ stage' = "done" /\ UNCHANGED <<kind, items, spent>>
    BY <1>7 DEF Report, Reported, Answer, request, mapping
  <2>2. Worst' = Worst BY <2>1 DEF Worst
  <2>3. kind # "repo" BY <2>1 DEF TypeInv, Stages, Listing
  <2>4. /\ ItemCalls \in Nat /\ Worst \in Nat /\ 1 + MaxPages + ItemCalls <= Worst
    BY <2>3, CallsBound
  <2>5. /\ M * (1 + MaxPages + ItemCalls) <= M * Worst
        /\ M * (1 + MaxPages + ItemCalls) \in Nat /\ M * Worst \in Nat
    BY <1>t, <2>4, Times
  <2>6. spent <= M * (1 + MaxPages + ItemCalls) BY <2>1 DEF SpendInv
  <2>7. spent' <= M * Worst' BY <1>t, <2>1, <2>2, <2>5, <2>6
  <2> QED BY <2>1, <2>7 DEF SpendInv
<1>8. CASE ScanRepo
  <2>1. /\ stage = "snapshot" /\ stage' = "done" /\ UNCHANGED <<kind, items>>
        /\ \E c \in Costs(6) : spent' = spent + c
    BY <1>8 DEF ScanRepo, Reported, Answer, request, mapping
  <2>2. Worst' = 1 + MaxPages + 6
    BY <2>1 DEF Worst, TypeInv, Stages
  <2>3. PICK c \in Costs(6) : spent' = spent + c BY <2>1
  <2>4. c \in Nat /\ c <= M * 6 BY CallCosts, Times
  <2>5. spent <= M BY <2>1 DEF SpendInv
  <2>6. M * ((1 + MaxPages) + 6) = M * (1 + MaxPages) + M * 6 /\ M * 6 \in Nat
    BY <1>t, Times
  <2>7. spent' <= M * Worst' BY <1>t, <1>m, <2>2, <2>3, <2>4, <2>5, <2>6
  <2> QED BY <2>1, <2>7 DEF SpendInv
<1>9. CASE RecordScan \/ (\E i \in DOMAIN order : Pushed(i)) \/ UNCHANGED vars
  <2>1. UNCHANGED <<kind, stage, attempt, page, items, work, pool, spent>>
    BY <1>9 DEF RecordScan, Pushed, vars, request, listing, mapping, poolVars
  <2>2. ItemCalls' = ItemCalls BY <2>1 DEF ItemCalls, Through, Sought, Weighed
  <2>3. Worst' = Worst BY <2>1 DEF Worst
  <2> QED BY <2>1, <2>2, <2>3 DEF SpendInv
<1> QED BY <1>1, <1>2, <1>3, <1>4, <1>5, <1>6, <1>7, <1>8, <1>9, Cases

\* However the answers of GitHub and the workers' turns fall, a scan makes no
\* call twice but for its retries.
THEOREM ScansSpendWithinBounds == ScanSpec => []SpendingIsBounded
<1>1. Init => Tasks /\ SpendInv BY DEF Init, Tasks, SpendInv
<1>2. TypeInv /\ SpendInv => SpendingIsBounded
  <2> SUFFICES ASSUME TypeInv, SpendInv PROVE spent <= M * Worst
    BY DEF SpendingIsBounded, M
  <2> DEFINE W == Worst
             a == 1 + MaxPages
  <2>t. /\ spent \in Nat /\ attempt \in 0..maxRetries /\ maxRetries \in Nat
        /\ page \in Nat \ {0} /\ MaxPages \in Nat \ {0} /\ M \in Nat /\ M = maxRetries + 1
        /\ stage \in {"start", "user", "repo", "list", "select", "map", "report", "snapshot", "done"}
    BY Times, Items, Caps DEF TypeInv, Types, TypeOK
  <2>1. W \in Nat /\ a \in Nat /\ a <= W BY <2>t, CallsBound
  <2>2. M * a <= M * W /\ M * a \in Nat /\ M * W \in Nat BY <2>1, Times
  <2>3. M * 1 <= M * a /\ M * 1 = M
    <3>1. 1 <= a BY <2>t
    <3> HIDE DEF a
    <3> QED BY <2>1, <3>1, Times
  <2>4. CASE stage = "start" BY <2>4, <2>2 DEF SpendInv
  <2>5. CASE stage \in {"user", "repo"}
    <3>1. spent <= M BY <2>5, <2>t DEF SpendInv
    <3> HIDE DEF a, W
    <3> QED BY <3>1, <2>2, <2>3, <2>t DEF W
  <2>6. CASE stage = "list"
    <3>1. page <= MaxPages /\ spent <= M * page + attempt BY <2>6 DEF TypeInv, Stages, SpendInv
    <3>2. M * (page + 1) = M * page + M * 1 /\ M * page \in Nat BY <2>t, Times
    <3>3. page + 1 <= a /\ page + 1 \in Nat BY <3>1, <2>t
    <3>4. M * (page + 1) <= M * a BY <3>3, <2>1, Times
    <3> HIDE DEF a, W
    <3> QED BY <3>1, <3>2, <3>4, <2>2, <2>3, <2>t DEF W
  <2>7. CASE stage = "select"
    <3>1. spent <= M * a BY <2>7 DEF SpendInv
    <3> HIDE DEF a, W
    <3> QED BY <3>1, <2>2, <2>t DEF W
  <2>8. CASE stage = "snapshot"
    <3>1. spent <= M BY <2>8 DEF SpendInv
    <3> HIDE DEF a, W
    <3> QED BY <3>1, <2>2, <2>3, <2>t DEF W
  <2>9. CASE stage \in {"map", "report"}
    <3>1. kind # "repo" BY <2>9 DEF TypeInv, Stages, Listing
    <3>2. ItemCalls \in Nat /\ a + ItemCalls <= W BY <3>1, CallsBound
    <3>3. spent <= M * (a + ItemCalls) BY <2>9 DEF SpendInv
    <3> HIDE DEF a, W
    <3>4. M * (a + ItemCalls) <= M * W /\ M * (a + ItemCalls) \in Nat
      BY <2>1, <3>2, Times
    <3> QED BY <3>3, <3>4, <2>2, <2>t DEF W
  <2>10. CASE stage = "done" BY <2>10 DEF SpendInv
  <2> QED BY <2>t, <2>4, <2>5, <2>6, <2>7, <2>8, <2>9, <2>10
<1> QED BY <1>1, <1>2, TasksStep, SpendStep, TypeInvariant, PTL DEF ScanSpec

-----------------------------------------------------------------------------
(* 7. Orders and sorts *)

\* Induction over the subsets of a finite set, and over numbers, as the smallest
\* exception.
LEMMA MinimalSet ==
  ASSUME NEW S, IsFiniteSet(S), NEW F \in SUBSET SUBSET S, F # {}
  PROVE  \E T \in F : \A U \in F : U \subseteq T => U = T
<1>1. IsWellFoundedOn(StrictSubsetOrdering(S), FiniteSubsetsOf(S))
  BY FS_StrictSubsetOrderingWellFounded
<1>2. FiniteSubsetsOf(S) = SUBSET S BY FS_FiniteSubsetsOfFinite
<1>3. PICK T \in F : \A U \in F : <<U, T>> \notin StrictSubsetOrdering(S)
  BY <1>1, <1>2, WFMin
<1>4. ASSUME NEW U \in F, U \subseteq T PROVE U = T
  BY <1>3, <1>4 DEF StrictSubsetOrdering
<1> QED BY <1>4

LEMMA Smallest ==
  ASSUME NEW F \in SUBSET Nat, F # {}
  PROVE  \E m \in F : \A n \in F : m <= n
<1>1. PICK m \in F : \A n \in F : ~ (<<n, m>> \in OpToRel(<, Nat))
  BY NatLessThanWellFounded, WFMin
<1>2. \A n \in F : ~(n < m) BY <1>1 DEF OpToRel
<1> QED BY <1>2

\* R orders S: Prior(R, x, y) if x comes before y.
Prior(R, x, y) == <<x, y>> \in R
Orders(R, S) ==
  /\ \A x, y \in S : Prior(R, x, y) => ~Prior(R, y, x)
  /\ \A x, y, z \in S : Prior(R, x, y) /\ Prior(R, y, z) => Prior(R, x, z)
  /\ \A x, y \in S : x = y \/ Prior(R, x, y) \/ Prior(R, y, x)

LEMMA LastOne ==
  ASSUME NEW S, IsFiniteSet(S), S # {}, NEW R, Orders(R, S)
  PROVE  \E m \in S : \A x \in S : x = m \/ Prior(R, x, m)
<1> DEFINE Has(T) == \E m \in T : \A x \in T : x = m \/ Prior(R, x, m)
           F == {T \in SUBSET S : T # {} /\ ~Has(T)}
<1> SUFFICES ASSUME F # {} PROVE FALSE
  OBVIOUS
<1>1. PICK T \in F : \A U \in F : U \subseteq T => U = T
  <2>1. F \in SUBSET SUBSET S OBVIOUS
  <2> HIDE DEF F
  <2> QED BY <2>1, MinimalSet
<1>2. PICK x \in T : TRUE OBVIOUS
<1>3. CASE T \ {x} = {}
  <2>1. \A y \in T : y = x BY <1>3
  <2> QED BY <1>1, <1>2, <2>1
<1>4. CASE T \ {x} # {}
  <2>1. T \ {x} \notin F BY <1>1, <1>2
  <2>2. PICK m \in T \ {x} : \A y \in T \ {x} : y = m \/ Prior(R, y, m) BY <1>4, <2>1
  <2>3. CASE Prior(R, x, m)
    <3>1. \A y \in T : y = m \/ Prior(R, y, m) BY <2>2, <2>3
    <3> QED BY <1>1, <3>1
  <2>4. CASE ~Prior(R, x, m)
    <3>1. Prior(R, m, x) BY <1>1, <1>2, <2>2, <2>4 DEF Orders
    <3>2. \A y \in T : y = x \/ Prior(R, y, x) BY <1>1, <1>2, <2>2, <3>1 DEF Orders
    <3> QED BY <1>1, <1>2, <3>2
  <2> QED BY <2>3, <2>4
<1> QED BY <1>3, <1>4

\* A finite set can be listed in its order.
LEMMA Enumeration ==
  ASSUME NEW S, IsFiniteSet(S), NEW R, Orders(R, S)
  PROVE  \E s \in [1..Cardinality(S) -> S] :
           \A j, k \in 1..Cardinality(S) : j < k => Prior(R, s[j], s[k])
<1> DEFINE Listed(T) == \E s \in [1..Cardinality(T) -> T] :
                          \A j, k \in 1..Cardinality(T) : j < k => Prior(R, s[j], s[k])
           F == {T \in SUBSET S : ~Listed(T)}
<1> SUFFICES ASSUME F # {} PROVE FALSE
  OBVIOUS
<1>1. PICK T \in F : \A U \in F : U \subseteq T => U = T
  <2>1. F \in SUBSET SUBSET S OBVIOUS
  <2> HIDE DEF F
  <2> QED BY <2>1, MinimalSet
<1>2. IsFiniteSet(T) /\ Orders(R, T) BY <1>1, FS_Subset DEF Orders
<1> DEFINE n == Cardinality(T)
<1>3. n \in Nat BY <1>2, FS_CardinalityType
<1>4. CASE T = {}
  <2>1. n = 0 BY <1>4, FS_EmptySet
  <2>2. 1..n = {} BY <2>1
  <2>3. [i \in 1..n |-> i] \in [1..n -> T] BY <2>2
  <2> QED BY <1>1, <2>2, <2>3
<1>5. CASE T # {}
  <2>1. PICK m \in T : \A x \in T : x = m \/ Prior(R, x, m) BY <1>2, <1>5, LastOne
  <2> DEFINE U == T \ {m}
  <2>2. Cardinality(U) = n - 1 BY <1>2, <2>1, FS_RemoveElement
  <2>3. n # 0 BY <1>2, <1>5, FS_EmptySet
  <2>4. U \notin F BY <1>1, <2>1
  <2>5. PICK s \in [1..n - 1 -> U] : \A j, k \in 1..n - 1 : j < k => Prior(R, s[j], s[k])
    <3>1. Listed(U) BY <2>4
    <3> QED BY <2>2, <3>1
  <2> DEFINE r == [i \in 1..n |-> IF i = n THEN m ELSE s[i]]
  <2> HIDE DEF n, U
  <2>6. \A i \in 1..n : i # n => i \in 1..n - 1 BY <1>3, <2>3
  <2>7. r \in [1..n -> T] BY <2>1, <2>5, <2>6 DEF U
  <2>8. ASSUME NEW j \in 1..n, NEW k \in 1..n, j < k PROVE Prior(R, r[j], r[k])
    <3>1. j \in 1..n - 1 /\ j # n /\ r[j] = s[j] /\ s[j] \in T /\ s[j] # m
      BY <1>3, <2>5, <2>8 DEF U
    <3>2. CASE k = n BY <2>1, <3>1, <3>2
    <3>3. CASE k # n BY <2>5, <2>6, <2>8, <3>1, <3>3
    <3> QED BY <3>2, <3>3
  <2>9. Listed(T)
    <3> HIDE DEF r
    <3> QED BY <2>7, <2>8 DEF n
  <2> QED BY <1>1, <2>9
<1> QED BY <1>4, <1>5

\* A list in an order has each element once.
LEMMA EachOnce ==
  ASSUME NEW S, IsFiniteSet(S), NEW R, Orders(R, S), NEW n \in Nat, Cardinality(S) = n,
         NEW s \in [1..n -> S], \A j, k \in 1..n : j < k => Prior(R, s[j], s[k])
  PROVE  /\ \A j, k \in 1..n : s[j] = s[k] => j = k
         /\ \A x \in S : \E j \in 1..n : s[j] = x
<1>1. IsFiniteSet(1..n) /\ Cardinality(1..n) = n BY FS_Interval
<1>2. ASSUME NEW j \in 1..n, NEW k \in 1..n, s[j] = s[k] PROVE j = k
  <2>1. ~(j < k) /\ ~(k < j) BY <1>2 DEF Orders
  <2> QED BY <2>1
<1>3. s \in Injection(1..n, S) BY <1>2 DEF Injection, IsInjective
<1>4. s \in Surjection(1..n, S) BY <1>1, <1>3, FS_Injection
<1> QED BY <1>2, <1>4 DEF Surjection

LEMMA NumbersAreOrdered ==
  ASSUME NEW S \in SUBSET Int
  PROVE  LET R == {p \in S \X S : p[1] < p[2]} IN
         /\ Orders(R, S)
         /\ \A x, y \in S : Prior(R, x, y) <=> x < y
<1> DEFINE R == {p \in S \X S : p[1] < p[2]}
<1>1. \A x, y \in S : Prior(R, x, y) <=> x < y BY DEF Prior
<1> HIDE DEF R
<1>2. Orders(R, S) BY <1>1 DEF Orders
<1> QED BY <1>1, <1>2 DEF R

\* The largest of finitely many numbers.
LEMMA LargestIs ==
  ASSUME NEW S \in SUBSET Int, IsFiniteSet(S), S # {}
  PROVE  LargestOf(S) \in S /\ \A x \in S : x <= LargestOf(S)
<1>1. PICK R : Orders(R, S) /\ \A x, y \in S : Prior(R, x, y) <=> x < y
  BY NumbersAreOrdered
<1>2. PICK m \in S : \A x \in S : x = m \/ Prior(R, x, m) BY <1>1, LastOne
<1>3. \A x \in S : x <= m BY <1>1, <1>2
<1> QED BY <1>3 DEF LargestOf

LEMMA LargerIs ==
  ASSUME NEW a \in Int, NEW b \in Int
  PROVE  /\ LargestOf({a, b}) \in {a, b}
         /\ a <= LargestOf({a, b}) /\ b <= LargestOf({a, b})
<1>1. IsFiniteSet({a, b})
  <2>1. IsFiniteSet({a} \cup {b}) BY FS_Singleton, FS_AddElement
  <2>2. {a} \cup {b} = {a, b} OBVIOUS
  <2> QED BY <2>1, <2>2
<1> QED BY <1>1, LargestIs

\* The results of a pool are in order, each once.
LEMMA AscendingIs ==
  ASSUME NEW n \in Nat, NEW I \in SUBSET (1..n)
  PROVE  LET s == Map!Ascending(I) IN
         /\ s \in [1..Cardinality(I) -> I] /\ Cardinality(I) \in Nat
         /\ \A x \in I : \E j \in 1..Cardinality(I) : s[j] = x
<1>1. IsFiniteSet(I) /\ Cardinality(I) \in Nat
  <2>1. IsFiniteSet(1..n) BY FS_Interval
  <2>2. IsFiniteSet(I) BY <2>1, FS_Subset
  <2> QED BY <2>2, FS_CardinalityType
<1>2. I \in SUBSET Int OBVIOUS
<1>3. PICK R : Orders(R, I) /\ \A x, y \in I : Prior(R, x, y) <=> x < y
  BY <1>2, NumbersAreOrdered
<1> DEFINE Good(s) == \A j, k \in DOMAIN s : j < k => s[j] < s[k]
<1>4. \E s \in [1..Cardinality(I) -> I] : Good(s)
  <2>1. PICK s \in [1..Cardinality(I) -> I] :
          \A j, k \in 1..Cardinality(I) : j < k => Prior(R, s[j], s[k])
    BY <1>1, <1>3, Enumeration
  <2> QED BY <1>3, <2>1
<1> DEFINE s == Map!Ascending(I)
           t == CHOOSE u \in [1..Cardinality(I) -> I] : Good(u)
<1>7. Map!Cardinality(I) = Cardinality(I) BY DEF Cardinality, Map!Cardinality
<1>8. s = t BY <1>7 DEF Map!Ascending
<1>9. t \in [1..Cardinality(I) -> I] /\ Good(t)
  <2> HIDE DEF Good
  <2> QED BY <1>4
<1>5. s \in [1..Cardinality(I) -> I] /\ Good(s)
  <2> HIDE DEF s, t, Good
  <2> QED BY <1>8, <1>9
<1>6. \A j, k \in 1..Cardinality(I) : j < k => Prior(R, s[j], s[k])
  <2> HIDE DEF s
  <2> QED BY <1>3, <1>5
<1>10. \A x \in I : \E j \in 1..Cardinality(I) : s[j] = x
  <2> HIDE DEF s
  <2> QED BY <1>1, <1>3, <1>5, <1>6, EachOnce
<1> QED BY <1>1, <1>5, <1>10

\* The days of n repositories, sorted: a permutation of them.
LEMMA SortedIs ==
  ASSUME NEW n \in Nat, NEW days \in [1..n -> Nat]
  PROVE  \E p \in [1..n -> 1..n] :
           /\ \A i, j \in 1..n : p[i] = p[j] => i = j
           /\ \A i \in 1..n : \E j \in 1..n : p[j] = i
           /\ Sorted(days) = [i \in 1..n |-> days[p[i]]]
           /\ \A i, j \in 1..n : i < j => days[p[i]] <= days[p[j]]
<1> DEFINE Before(i, j) == days[i] < days[j] \/ (days[i] = days[j] /\ i < j)
           R == {q \in (1..n) \X (1..n) : Before(q[1], q[2])}
           Good(p) == \A i, j \in DOMAIN p : i < j => Before(p[i], p[j])
<1>1. \A x, y \in 1..n : Prior(R, x, y) <=> Before(x, y) BY DEF Prior
<1>2. IsFiniteSet(1..n) /\ Cardinality(1..n) = n BY FS_Interval
<1>3. Orders(R, 1..n)
  <2>1. \A x \in 1..n : days[x] \in Nat OBVIOUS
  <2> HIDE DEF R
  <2> QED BY <1>1, <2>1 DEF Orders
<1> HIDE DEF R
<1>4. \E p \in [1..n -> 1..n] : Good(p)
  <2>1. PICK p \in [1..n -> 1..n] : \A j, k \in 1..n : j < k => Prior(R, p[j], p[k])
    BY <1>2, <1>3, Enumeration
  <2>2. \A j, k \in 1..n : j < k => Before(p[j], p[k]) BY <1>1, <2>1
  <2>3. DOMAIN p = 1..n OBVIOUS
  <2> HIDE DEF Before
  <2> QED BY <2>2, <2>3
<1> DEFINE p == CHOOSE p \in [1..n -> 1..n] : Good(p)
<1>5. p \in [1..n -> 1..n] /\ Good(p)
  <2> HIDE DEF Good
  <2> QED BY <1>4
<1>6. Sorted(days) = [i \in 1..n |-> days[p[i]]]
  <2>1. DOMAIN days = 1..n OBVIOUS
  <2> QED BY <2>1 DEF Sorted
<1> HIDE DEF p
<1>7. \A j, k \in 1..n : j < k => Before(p[j], p[k]) BY <1>5
<1>8. ASSUME NEW i \in 1..n, NEW j \in 1..n, p[i] = p[j] PROVE i = j
  <2>1. p[i] \in 1..n BY <1>5
  <2>2. ~Before(p[i], p[i])
    <3>1. \A x \in 1..n : ~Before(x, x) OBVIOUS
    <3> HIDE DEF Before
    <3> QED BY <2>1, <3>1
  <2>3. ~(i < j) /\ ~(j < i)
    <3> HIDE DEF Before
    <3> QED BY <1>7, <1>8, <2>2
  <2> QED BY <2>3
<1>9. p \in Surjection(1..n, 1..n)
  <2>1. p \in Injection(1..n, 1..n) BY <1>5, <1>8 DEF Injection, IsInjective
  <2> QED BY <1>2, <2>1, FS_Injection
<1>10. \A i, j \in 1..n : i < j => days[p[i]] <= days[p[j]]
  <2>1. \A i \in 1..n : days[p[i]] \in Nat BY <1>5
  <2> QED BY <1>7, <2>1
<1> QED BY <1>5, <1>6, <1>8, <1>9, <1>10 DEF Surjection

-----------------------------------------------------------------------------
(* 8. The score of an account *)

\* The findings of an account accumulate as a fold over a set.
Some(s) == CHOOSE x \in s : TRUE
Less(left, f) == (left * (100 - f.weight)) \div 100
Left(h, s) == IF s = {} THEN Whole ELSE Less(h[s \ {Some(s)}], Some(s))

LEMMA RemainingIs ==
  ASSUME NEW S
  PROVE  Remaining(S) = (CHOOSE h : h = [s \in SUBSET S |-> Left(h, s)])[S]
BY DEF Remaining, FoldSet, MapThenFoldSet, Left, Some, Less

\* There is such a fold, and it is a number: otherwise there is a smallest number of
\* findings for which there is none.
LEMMA RemainingIsANumber ==
  ASSUME NEW S, IsFiniteSet(S), \A f \in S : f.weight \in Int
  PROVE  Remaining(S) \in Int
<1> DEFINE Upto(k) == {T \in SUBSET S : Cardinality(T) <= k}
           Right(h, k) == \A s \in Upto(k) : h[s] = Left(h, s)
           F == {k \in Nat : ~ \E h \in [Upto(k) -> Int] : Right(h, k)}
<1>w. Whole \in Int BY SMT DEF Whole, Point
<1>f. \A T \in SUBSET S : IsFiniteSet(T) /\ Cardinality(T) \in Nat BY FS_Subset, FS_CardinalityType
<1>s. \A s \in SUBSET S : s # {} => Some(s) \in s BY DEF Some
<1>l. \A n \in Int, f \in S : Less(n, f) \in Int
  <2>1. \A n, w \in Int : (n * (100 - w)) \div 100 \in Int OBVIOUS
  <2> QED BY <2>1 DEF Less
<1>d. \A k \in Nat : \A s \in Upto(k) : s # {} => k # 0 /\ s \ {Some(s)} \in Upto(k - 1)
  <2> SUFFICES ASSUME NEW k \in Nat, NEW s \in Upto(k), s # {}
               PROVE  k # 0 /\ s \ {Some(s)} \in Upto(k - 1)
    OBVIOUS
  <2>1. Cardinality(s \ {Some(s)}) = Cardinality(s) - 1 BY <1>f, <1>s, FS_RemoveElement
  <2>2. Cardinality(s) # 0 BY <1>f, FS_EmptySet
  <2>3. s \ {Some(s)} \in SUBSET S OBVIOUS
  <2> QED BY <1>f, <2>1, <2>2, <2>3
<1>1. F = {}
  <2> SUFFICES ASSUME F # {} PROVE FALSE
    OBVIOUS
  <2>1. PICK m \in F : \A n \in F : m <= n
    <3>1. F \in SUBSET Nat OBVIOUS
    <3> HIDE DEF F
    <3> QED BY <3>1, Smallest
  <2>2. m \in Nat OBVIOUS
  <2>3. CASE m = 0
    <3> DEFINE h == [s \in Upto(m) |-> Whole]
    <3>1. \A s \in Upto(m) : s = {} BY <1>d, <2>2, <2>3
    <3>2. h \in [Upto(m) -> Int] /\ Right(h, m) BY <1>w, <3>1 DEF Left
    <3> QED BY <3>2
  <2>4. CASE m # 0
    <3>1. m - 1 \in Nat /\ m - 1 \notin F
      <4> HIDE DEF F
      <4> QED BY <2>1, <2>2, <2>4
    <3>2. PICK h \in [Upto(m - 1) -> Int] : Right(h, m - 1) BY <3>1
    <3> DEFINE g == [s \in Upto(m) |-> Left(h, s)]
    <3>3. \A s \in Upto(m - 1) : s \in Upto(m) BY <1>f, <2>2
    <3>4. \A s \in Upto(m - 1) : g[s] = h[s] BY <3>2, <3>3
    <3> HIDE DEF Upto
    <3>5. ASSUME NEW s \in Upto(m) PROVE Left(h, s) \in Int /\ Left(g, s) = Left(h, s)
      <4>1. CASE s = {} BY <1>w, <4>1 DEF Left
      <4>2. CASE s # {}
        <5>1. s \ {Some(s)} \in Upto(m - 1) BY <1>d, <2>2, <4>2
        <5>2. Some(s) \in S BY <1>s, <4>2 DEF Upto
        <5>3. h[s \ {Some(s)}] \in Int BY <3>2, <5>1
        <5>4. g[s \ {Some(s)}] = h[s \ {Some(s)}] BY <3>4, <5>1
        <5> HIDE DEF g
        <5> QED BY <1>l, <4>2, <5>2, <5>3, <5>4 DEF Left
      <4> QED BY <4>1, <4>2
    <3>6. g \in [Upto(m) -> Int] /\ Right(g, m)
      <4>1. g \in [Upto(m) -> Int] BY <3>5
      <4>2. \A s \in Upto(m) : g[s] = Left(h, s) OBVIOUS
      <4> HIDE DEF g
      <4> QED BY <4>1, <4>2, <3>5
    <3> HIDE DEF g, Right
    <3> QED BY <3>6
  <2> QED BY <2>3, <2>4
<1>2. \E h : h = [s \in SUBSET S |-> Left(h, s)]
  <2> DEFINE n == Cardinality(S)
  <2>1. n \in Nat /\ n \notin F BY <1>1, <1>f
  <2>2. PICK h \in [Upto(n) -> Int] : Right(h, n) BY <2>1
  <2>3. Upto(n) = SUBSET S BY FS_Subset
  <2>4. h \in [SUBSET S -> Int] /\ \A s \in SUBSET S : h[s] = Left(h, s)
    <3> HIDE DEF n, Upto
    <3> QED BY <2>2, <2>3
  <2>5. h = [s \in SUBSET S |-> Left(h, s)] BY <2>4
  <2> QED BY <2>5
<1>3. PICK h : Remaining(S) = h[S] /\ h = [s \in SUBSET S |-> Left(h, s)]
  <2> DEFINE c == CHOOSE h : h = [s \in SUBSET S |-> Left(h, s)]
  <2>1. c = [s \in SUBSET S |-> Left(c, s)] BY <1>2
  <2>2. Remaining(S) = c[S] BY RemainingIs
  <2> HIDE DEF c
  <2> QED BY <2>1, <2>2
<1>4. \A s \in SUBSET S : h[s] = Left(h, s) BY <1>3
<1> DEFINE G == {T \in SUBSET S : h[T] \notin Int}
<1>5. G = {}
  <2> SUFFICES ASSUME G # {} PROVE FALSE
    OBVIOUS
  <2>1. PICK T \in G : \A U \in G : U \subseteq T => U = T
    <3>1. G \in SUBSET SUBSET S OBVIOUS
    <3> HIDE DEF G
    <3> QED BY <3>1, MinimalSet
  <2>2. T \in SUBSET S /\ h[T] = Left(h, T) BY <1>4
  <2>3. CASE T = {} BY <1>w, <2>2, <2>3 DEF Left
  <2>4. CASE T # {}
    <3>1. Some(T) \in T /\ Some(T) \in S BY <1>s, <2>2, <2>4
    <3>2. T \ {Some(T)} \notin G BY <2>1, <3>1
    <3>3. h[T \ {Some(T)}] \in Int BY <2>2, <3>2
    <3>4. Left(h, T) \in Int BY <1>l, <2>4, <3>1, <3>3 DEF Left
    <3> QED BY <2>1, <2>2, <3>4
  <2> QED BY <2>3, <2>4
<1> QED BY <1>3, <1>5

\* The arithmetic of the score and of the rollup.
LEMMA Arithmetic ==
  /\ \A r \in Int : RoundedDiv(Whole - r, Point) \in Int
  /\ \A x \in 0..100 : RoundedDiv(x * 85, 100) \in Int
  /\ \A x \in 0..100 : x >= 70 => RoundedDiv(x * 85, 100) >= 60
<1>1. Whole = 10000000 /\ Point = 100000 BY SMT DEF Whole, Point
<1>2. \A r \in Int : (2 * (10000000 - r) + 100000) \div (2 * 100000) \in Int BY SMT
<1>3. ASSUME NEW r \in Int PROVE RoundedDiv(Whole - r, Point) \in Int
  <2>1. RoundedDiv(Whole - r, Point) = (2 * (10000000 - r) + 100000) \div (2 * 100000)
    BY <1>1, SMT DEF RoundedDiv
  <2> QED BY <1>2, <2>1
<1>4. ASSUME NEW x \in 0..100
      PROVE  /\ RoundedDiv(x * 85, 100) \in Int
             /\ x >= 70 => RoundedDiv(x * 85, 100) >= 60
  BY <1>4, SMT DEF RoundedDiv
<1> QED BY <1>3, <1>4

LEMMA FinitelyMany ==
  /\ IsFiniteSet(0..100) /\ IsFiniteSet(1..5)
  /\ \A S, T : IsFiniteSet(S) /\ IsFiniteSet(T) => IsFiniteSet(S \cup T)
  /\ \A S, T : IsFiniteSet(S) /\ T \subseteq S => IsFiniteSet(T)
<1>1. 0 \in Int /\ 1 \in Int /\ 5 \in Int /\ 100 \in Int OBVIOUS
<1>2. IsFiniteSet(0..100) /\ IsFiniteSet(1..5) BY <1>1, FS_Interval
<1>3. \A S, T : IsFiniteSet(S) /\ IsFiniteSet(T) => IsFiniteSet(S \cup T) BY FS_Union
<1>4. \A S, T : IsFiniteSet(S) /\ T \subseteq S => IsFiniteSet(T) BY FS_Subset
<1> QED BY <1>2, <1>3, <1>4

LEMMA ScoreIsANumber ==
  ASSUME NEW S, IsFiniteSet(S), \A f \in S : f.weight \in Int /\ f.severity \in Severities
  PROVE  scoreFromFindings(S) \in Int
<1> DEFINE acc == RoundedDiv(Whole - Remaining(S), Point)
           floors == {0} \cup {SEVERITY_FLOOR[f.severity] : f \in S}
<1>1. acc \in Int BY RemainingIsANumber, Arithmetic
<1>2. floors \subseteq 0..100 /\ floors # {}
  BY SMT DEF Severities, SEVERITY_FLOOR
<1>3. LargestOf(floors) \in Int
  <2> HIDE DEF floors
  <2>1. IsFiniteSet(floors) BY <1>2, FinitelyMany
  <2>2. floors \in SUBSET Int BY <1>2
  <2> QED BY <1>2, <2>1, <2>2, LargestIs
<1>4. scoreFromFindings(S) = LargestOf({LargestOf(floors), acc}) BY DEF scoreFromFindings
<1> HIDE DEF floors, acc
<1> QED BY <1>1, <1>3, <1>4, LargerIs

LEMMA BandIs ==
  ASSUME NEW x \in Int, x >= 0
  PROVE  /\ x >= 45 => isFlagged(bandForScore(x))
         /\ bandForScore(x) = "critical" => x >= 70
<1> DEFINE B == {i \in DOMAIN BandMin : x >= BandMin[i]}
<1>1. /\ DOMAIN BandMin = 1..5
      /\ BandMin[1] = 0 /\ BandMin[2] = 10 /\ BandMin[3] = 25 /\ BandMin[4] = 45 /\ BandMin[5] = 70
  BY DEF BandMin
<1>2. B \subseteq 1..5 /\ 1 \in B BY <1>1
<1>3. bandRank(x) \in B /\ \A i \in B : i <= bandRank(x)
  <2>1. bandRank(x) = LargestOf(B) BY DEF bandRank
  <2> HIDE DEF B
  <2>2. IsFiniteSet(B) BY <1>2, FinitelyMany
  <2>3. B # {} /\ B \in SUBSET Int BY <1>2
  <2> QED BY <2>1, <2>2, <2>3, LargestIs
<1>4. x >= 45 => 4 \in B BY <1>1
<1>5. 5 \in B => x >= 70 BY <1>1
<1> HIDE DEF B
<1>k. PICK k \in 1..5 : k = bandRank(x) BY <1>2, <1>3
<1>6. k \in B /\ (4 \in B => k \in {4, 5})
  <2>1. k \in B /\ (4 \in B => 4 <= k) BY <1>3, <1>k
  <2> QED BY <2>1
<1>7. bandForScore(x) = BAND_ORDER[k] BY <1>k DEF bandForScore
<1>8. k \in {4, 5} => isFlagged(BAND_ORDER[k]) BY DEF BAND_ORDER, isFlagged
<1>9. BAND_ORDER[k] = "critical" => k = 5 BY <1>6 DEF BAND_ORDER
<1> QED BY <1>4, <1>5, <1>6, <1>7, <1>8, <1>9

LEMMA AccountFindings ==
  ASSUME NEW a, NEW reports
  PROVE  /\ IsFiniteSet(ACCOUNT_RULES(a, reports))
         /\ \A f \in ACCOUNT_RULES(a, reports) : f.weight \in Int /\ f.severity \in Severities
<1> DEFINE Fine(S) == IsFiniteSet(S) /\ \A f \in S : f.weight \in Int /\ f.severity \in Severities
<1>1. ASSUME NEW id, NEW s \in Severities, NEW w \in Int PROVE Fine(Finding(id, s, w))
  <2> DEFINE f == [id |-> id, severity |-> s, weight |-> w]
  <2>1. f.severity \in Severities /\ f.weight \in Int OBVIOUS
  <2>2. Finding(id, s, w) = {f} BY DEF Finding
  <2> HIDE DEF f
  <2> QED BY <2>1, <2>2, FS_Singleton
<1>2. Fine(NoFinding) BY FS_EmptySet DEF NoFinding
<1>3. \A S, T : Fine(S) /\ Fine(T) => Fine(S \cup T) BY FinitelyMany
<1>4. /\ WEIGHTS.accountVeryNew \in Int /\ WEIGHTS.accountNoTwoFactor \in Int
      /\ WEIGHTS.accountClusteredActivity \in Int /\ WEIGHTS.accountManyArchiveReadmes \in Int
      /\ WEIGHTS.accountLowFollowersManyRepos \in Int
  BY DEF WEIGHTS
<1>5. {"critical", "high", "medium", "low", "info"} \subseteq Severities BY DEF Severities
<1> HIDE DEF Fine
<1>6. Fine(accountVeryNew(a)) BY <1>1, <1>2, <1>4, <1>5 DEF accountVeryNew
<1>7. Fine(accountNoTwoFactor(a)) BY <1>1, <1>2, <1>4, <1>5 DEF accountNoTwoFactor
<1>8. Fine(accountClusteredActivity(reports))
  BY <1>1, <1>2, <1>4, <1>5 DEF accountClusteredActivity
<1>9. Fine(accountManyArchiveReadmes(reports))
  BY <1>1, <1>2, <1>4, <1>5 DEF accountManyArchiveReadmes
<1>10. Fine(accountLowFollowersManyRepos(a))
  BY <1>1, <1>2, <1>4, <1>5 DEF accountLowFollowersManyRepos
<1>11. Fine(ACCOUNT_RULES(a, reports))
  BY <1>3, <1>6, <1>7, <1>8, <1>9, <1>10 DEF ACCOUNT_RULES
<1> QED BY <1>11 DEF Fine

\* One critical repository is enough to flag the account.
LEMMA WorstFlags ==
  ASSUME NEW a, NEW n \in Nat, NEW reports \in [1..n -> RepoVerdict],
         NEW j \in 1..n, bandForScore(reports[j].score) = "critical"
  PROVE  isFlagged(evaluateAccount(a, reports).band)
<1> DEFINE own == scoreFromFindings(ACCOUNT_RULES(a, reports))
           scores == {0} \cup {reports[i].score : i \in 1..n}
           worst == LargestOf(scores)
           rolled == RoundedDiv(worst * 85, 100)
           score == LargestOf({own, rolled})
<1>1. own \in Int BY AccountFindings, ScoreIsANumber
<1>2. \A i \in 1..n : reports[i].score \in 0..100 BY DEF RepoVerdict
<1>3. scores \subseteq 0..100 /\ scores # {} /\ reports[j].score \in scores
  <2>1. 0 \in 0..100 OBVIOUS
  <2>2. {reports[i].score : i \in 1..n} \subseteq 0..100 BY <1>2
  <2> QED BY <2>1, <2>2, Zenon
<1>4. worst \in scores /\ \A x \in scores : x <= worst
  <2> HIDE DEF scores
  <2>1. IsFiniteSet(scores) BY <1>3, FinitelyMany
  <2>2. scores \in SUBSET Int BY <1>3
  <2> QED BY <1>3, <2>1, <2>2, LargestIs
<1>x. PICK x \in 0..100 : x = reports[j].score BY <1>2
<1>5. x >= 70
  <2>1. x \in Int /\ x >= 0 OBVIOUS
  <2>2. bandForScore(x) = "critical" BY <1>x
  <2> QED BY <2>1, <2>2, BandIs
<1>6. worst \in 0..100 /\ worst >= 70
  <2>1. worst \in 0..100 /\ x <= worst
    <3> HIDE DEF scores, worst
    <3> QED BY <1>3, <1>4, <1>x
  <2> HIDE DEF scores, worst
  <2> QED BY <1>5, <2>1
<1>7. rolled \in Int /\ rolled >= 60
  <2> HIDE DEF worst
  <2> QED BY <1>6, Arithmetic
<1> HIDE DEF own, rolled
<1>8. score \in Int /\ score >= 60
  <2>1. score \in {own, rolled} /\ rolled <= score BY <1>1, <1>7, LargerIs
  <2> HIDE DEF score
  <2> QED BY <1>1, <1>7, <2>1
<1>9. evaluateAccount(a, reports).band = bandForScore(score)
  BY DEF evaluateAccount, own, rolled
<1> HIDE DEF score
<1>10. score >= 45 /\ score >= 0 BY <1>8
<1> QED BY <1>8, <1>9, <1>10, BandIs

-----------------------------------------------------------------------------
(* 9. Bursts *)

\* The loop of maxInWindow over ascending days: after a day, its window starts as
\* early as it may, and the largest one so far is known.
Fits(c, s, e) == s <= e /\ c[e] - c[s] <= WindowDays

Slid(c, e, l) ==
  /\ l.start \in 1..(IF e = 0 THEN 1 ELSE e)
  /\ \A t \in 1..(l.start - 1) : ~Fits(c, t, e)
  /\ l.largest \in Nat
  /\ \A s, d \in 1..e : Fits(c, s, d) => d - s + 1 <= l.largest
  /\ l.largest = 0 \/ \E s, d \in 1..e : Fits(c, s, d) /\ d - s + 1 = l.largest

LEMMA SlideSlides ==
  ASSUME NEW n \in Nat, NEW c \in [1..n -> Nat],
         \A i, j \in 1..n : i < j => c[i] <= c[j],
         NEW e \in 1..n, NEW l, Slid(c, e - 1, l)
  PROVE  Slid(c, e, Slide(c, l, e))
<1> DEFINE Early(s) == /\ c[e] - c[s] <= WindowDays
                       /\ \A t \in l.start..(s - 1) : c[e] - c[t] > WindowDays
           start == CHOOSE s \in l.start..e : Early(s)
           largest == LargestOf({l.largest, e - start + 1})
<1>0. e \in Nat \ {0} /\ WindowDays = 7 BY DEF WindowDays
<1>1. l.start \in 1..e /\ l.largest \in Nat BY <1>0 DEF Slid
<1>2. \A i \in 1..e : i \in 1..n /\ c[i] \in Nat /\ c[i] <= c[e] OBVIOUS
<1>3. \E s \in l.start..e : Early(s)
  <2> DEFINE P == {s \in l.start..e : c[e] - c[s] <= WindowDays}
  <2>1. e \in P BY <1>0, <1>1, <1>2
  <2>2. P \in SUBSET Nat BY <1>0, <1>1
  <2>3. PICK s \in P : \A t \in P : s <= t
    <3> HIDE DEF P
    <3> QED BY <2>1, <2>2, Smallest
  <2>4. ASSUME NEW t \in l.start..(s - 1) PROVE c[e] - c[t] > WindowDays
    <3>1. t \in l.start..e /\ t < s BY <2>2, <2>3, <1>0, <1>1
    <3>2. t \notin P BY <2>2, <2>3, <3>1, <1>1
    <3>3. c[t] \in Nat /\ c[e] \in Nat BY <1>1, <1>2, <3>1
    <3> QED BY <1>0, <3>1, <3>2, <3>3
  <2> QED BY <2>3, <2>4
<1>4. start \in l.start..e /\ Early(start)
  <2> HIDE DEF Early
  <2> QED BY <1>3
<1>5. Slide(c, l, e) = [start |-> start, largest |-> largest] BY DEF Slide
<1> HIDE DEF start
<1>6. start \in 1..e /\ e - start + 1 \in Nat BY <1>0, <1>1, <1>4
<1>7. Fits(c, start, e) BY <1>4, <1>6 DEF Fits
<1>8. ASSUME NEW t \in 1..(start - 1) PROVE ~Fits(c, t, e)
  <2>1. CASE t >= l.start
    <3>1. t \in l.start..(start - 1) BY <2>1, <1>1, <1>6
    <3>2. c[e] - c[t] > WindowDays BY <3>1, <1>4
    <3>3. t \in 1..e BY <1>6
    <3> QED BY <1>0, <1>2, <3>2, <3>3 DEF Fits
  <2>2. CASE ~(t >= l.start)
    <3>1. t \in 1..(l.start - 1) BY <2>2, <1>1
    <3>2. e - 1 \in 1..n /\ t <= e - 1 BY <1>0, <1>1, <3>1
    <3>3. ~Fits(c, t, e - 1) BY <3>1 DEF Slid
    <3>4. c[e - 1] <= c[e] /\ c[e - 1] \in Nat /\ c[t] \in Nat /\ c[e] \in Nat
      BY <1>0, <1>1, <1>2, <3>1, <3>2
    <3>5. c[e - 1] - c[t] > WindowDays BY <1>0, <3>2, <3>3, <3>4 DEF Fits
    <3> QED BY <1>0, <3>4, <3>5 DEF Fits
  <2> QED BY <2>1, <2>2
<1>9. /\ largest \in {l.largest, e - start + 1} /\ largest \in Nat
      /\ l.largest <= largest /\ e - start + 1 <= largest
  <2>1. l.largest \in Int /\ e - start + 1 \in Int BY <1>1, <1>6
  <2>2. /\ largest \in {l.largest, e - start + 1}
        /\ l.largest <= largest /\ e - start + 1 <= largest
    BY <2>1, LargerIs
  <2> HIDE DEF largest
  <2> QED BY <1>1, <1>6, <2>2
<1> HIDE DEF largest
<1>10. ASSUME NEW s \in 1..e, NEW d \in 1..e, Fits(c, s, d) PROVE d - s + 1 <= largest
  <2>1. CASE d = e
    <3>1. ~(s \in 1..(start - 1)) BY <1>8, <1>10, <2>1
    <3>2. s >= start BY <3>1, <1>6
    <3> QED BY <2>1, <3>2, <1>6, <1>9
  <2>2. CASE d # e
    <3>1. s <= d BY <1>10 DEF Fits
    <3>2. d \in 1..(e - 1) /\ s \in 1..(e - 1) BY <2>2, <3>1, <1>0
    <3>3. d - s + 1 <= l.largest BY <3>2, <1>10 DEF Slid
    <3> QED BY <3>3, <1>1, <1>9
  <2> QED BY <2>1, <2>2
<1>11. largest = 0 \/ \E s, d \in 1..e : Fits(c, s, d) /\ d - s + 1 = largest
  <2>1. CASE largest = e - start + 1
    <3>1. e \in 1..e BY <1>0
    <3> QED BY <2>1, <3>1, <1>6, <1>7
  <2>2. CASE largest = l.largest
    <3>1. \A s \in 1..(e - 1) : s \in 1..e BY <1>0
    <3> QED BY <2>2, <3>1 DEF Slid
  <2> QED BY <1>9, <2>1, <2>2
<1>12. start \in 1..(IF e = 0 THEN 1 ELSE e) BY <1>0, <1>6
<1>13. Slide(c, l, e).start = start /\ Slide(c, l, e).largest = largest BY <1>5
<1> QED BY <1>8, <1>9, <1>10, <1>11, <1>12, <1>13 DEF Slid

\* The largest window holds as many days as fit into one.
LEMMA WindowIs ==
  ASSUME NEW n \in Nat, NEW c \in [1..n -> Nat],
         \A i, j \in 1..n : i < j => c[i] <= c[j],
         NEW k \in Nat \ {0}
  PROVE  maxInWindow(c) >= k <=> \E s, e \in 1..n : Fits(c, s, e) /\ e - s + 1 >= k
<1> DEFINE first == [start |-> 1, largest |-> 0]
           Turn(f, e) == IF e = 0 THEN first ELSE Slide(c, f[e - 1], e)
           F == {m \in Nat : ~ \E f : f = [e \in 0..m |-> Turn(f, e)]}
<1>1. F = {}
  <2> SUFFICES ASSUME F # {} PROVE FALSE
    OBVIOUS
  <2>1. PICK m \in F : \A k_1 \in F : m <= k_1
    <3>1. F \in SUBSET Nat OBVIOUS
    <3> HIDE DEF F
    <3> QED BY <3>1, Smallest
  <2>2. m \in Nat OBVIOUS
  <2>3. CASE m = 0
    <3> DEFINE f == [e \in 0..m |-> first]
    <3>1. \A e \in 0..m : e = 0 BY <2>3
    <3>2. f = [e \in 0..m |-> Turn(f, e)] BY <3>1
    <3> QED BY <3>2
  <2>4. CASE m # 0
    <3>1. m - 1 \in Nat /\ m - 1 \notin F
      <4> HIDE DEF F
      <4> QED BY <2>1, <2>2, <2>4
    <3>2. PICK h : h = [e \in 0..m - 1 |-> Turn(h, e)] BY <3>1
    <3> DEFINE g == [e \in 0..m |-> Turn(h, e)]
    <3> HIDE DEF Turn
    <3>3. \A e \in 0..m - 1 : h[e] = Turn(h, e) BY <3>2
    <3>7. \A e \in 0..m - 1 : e \in 0..m BY <2>2
    <3>4. \A e \in 0..m - 1 : g[e] = h[e] BY <3>3, <3>7
    <3>5. \A e \in 0..m : Turn(g, e) = Turn(h, e)
      <4>1. \A e \in 0..m : e # 0 => e - 1 \in 0..m - 1 BY <2>2
      <4> HIDE DEF g
      <4> QED BY <4>1, <3>4 DEF Turn
    <3>6. g = [e \in 0..m |-> Turn(g, e)] BY <3>5
    <3> HIDE DEF g
    <3> QED BY <3>6
  <2> QED BY <2>3, <2>4
<1> DEFINE loop == CHOOSE f : f = [e \in 0..n |-> Turn(f, e)]
<1>2. loop = [e \in 0..n |-> Turn(loop, e)]
  <2>1. n \notin F BY <1>1
  <2> HIDE DEF Turn
  <2> QED BY <2>1
<1>3. Len(c) = n OBVIOUS
<1>4. maxInWindow(c) = loop[n].largest BY <1>3 DEF maxInWindow
<1> HIDE DEF loop
<1>5. \A e \in 0..n : loop[e] = Turn(loop, e)
  <2> HIDE DEF Turn
  <2> QED BY <1>2
<1> DEFINE G == {e \in 0..n : ~Slid(c, e, loop[e])}
<1>6. G = {}
  <2> SUFFICES ASSUME G # {} PROVE FALSE
    OBVIOUS
  <2>1. PICK e \in G : \A d \in G : e <= d
    <3>1. G \in SUBSET Nat OBVIOUS
    <3> HIDE DEF G
    <3> QED BY <3>1, Smallest
  <2>2. e \in 0..n OBVIOUS
  <2>3. CASE e = 0
    <3>1. loop[e] = first BY <1>5, <2>2, <2>3
    <3>2. Slid(c, 0, first) BY DEF Slid
    <3> QED BY <2>1, <2>3, <3>1, <3>2
  <2>4. CASE e # 0
    <3>1. e \in 1..n /\ e - 1 \in 0..n BY <2>2, <2>4
    <3>2. e - 1 \notin G
      <4> HIDE DEF G
      <4> QED BY <2>1, <2>2
    <3>3. Slid(c, e - 1, loop[e - 1]) BY <3>1, <3>2
    <3>4. loop[e] = Slide(c, loop[e - 1], e) BY <1>5, <2>2, <2>4
    <3>5. Slid(c, e, loop[e]) BY <3>1, <3>3, <3>4, SlideSlides
    <3> QED BY <2>1, <3>5
  <2> QED BY <2>3, <2>4
<1>7. n \in 0..n OBVIOUS
<1>8. Slid(c, n, loop[n]) BY <1>6, <1>7
<1>9. PICK l : l = loop[n] OBVIOUS
<1>10. /\ l.largest \in Nat
       /\ \A s, d \in 1..n : Fits(c, s, d) => d - s + 1 <= l.largest
       /\ l.largest = 0 \/ \E s, d \in 1..n : Fits(c, s, d) /\ d - s + 1 = l.largest
  BY <1>8, <1>9 DEF Slid
<1>11. ASSUME l.largest >= k PROVE \E s, e \in 1..n : Fits(c, s, e) /\ e - s + 1 >= k
  BY <1>10, <1>11
<1>12. ASSUME NEW s \in 1..n, NEW e \in 1..n, Fits(c, s, e), e - s + 1 >= k
       PROVE  l.largest >= k
  BY <1>10, <1>12
<1> HIDE DEF Turn
<1> QED BY <1>4, <1>9, <1>11, <1>12

\* Some seven days saw that many exactly if those that follow the earliest of them
\* did.
Seen(days, n, v) == {j \in 1..n : days[j] \in v..(v + WindowDays)}

LEMMA BurstIs ==
  ASSUME NEW n \in Nat, NEW days \in [1..n -> Nat], NEW k \in Nat \ {0}
  PROVE  maxInWindow(Sorted(days)) >= k
           <=> \E j \in 1..n : Cardinality(Seen(days, n, days[j])) >= k
<1>1. PICK p \in [1..n -> 1..n] :
        /\ \A i, j \in 1..n : p[i] = p[j] => i = j
        /\ \A i \in 1..n : \E j \in 1..n : p[j] = i
        /\ Sorted(days) = [i \in 1..n |-> days[p[i]]]
        /\ \A i, j \in 1..n : i < j => days[p[i]] <= days[p[j]]
  BY SortedIs
<1> DEFINE c == [i \in 1..n |-> days[p[i]]]
<1>2. c \in [1..n -> Nat] /\ \A i, j \in 1..n : i < j => c[i] <= c[j]
  BY <1>1
<1>3. \A i \in 1..n : c[i] = days[p[i]] /\ p[i] \in 1..n BY <1>1
<1>w. WindowDays = 7 BY DEF WindowDays
<1> HIDE DEF c
<1>4. maxInWindow(Sorted(days)) >= k <=> \E s, e \in 1..n : Fits(c, s, e) /\ e - s + 1 >= k
  BY <1>1, <1>2, WindowIs DEF c
<1>5. IsFiniteSet(1..n) BY FS_Interval
<1>6. ASSUME NEW s \in 1..n, NEW e \in 1..n, Fits(c, s, e), e - s + 1 >= k
      PROVE  \E j \in 1..n : Cardinality(Seen(days, n, days[j])) >= k
  <2> DEFINE S == Seen(days, n, days[p[s]])
             q == [i \in s..e |-> p[i]]
  <2>1. IsFiniteSet(S) /\ Cardinality(S) \in Nat
    <3>1. S \in SUBSET (1..n) BY DEF Seen
    <3> HIDE DEF S
    <3> QED BY <1>5, <3>1, FS_Subset, FS_CardinalityType
  <2>2. \A i \in s..e : i \in 1..n /\ c[i] \in c[s]..(c[s] + WindowDays)
    <3> SUFFICES ASSUME NEW i \in s..e
                 PROVE  i \in 1..n /\ c[i] \in c[s]..(c[s] + WindowDays)
      OBVIOUS
    <3>1. i \in 1..n /\ s <= i /\ i <= e OBVIOUS
    <3>2. PICK x \in Nat, y \in Nat, z \in Nat : x = c[s] /\ y = c[i] /\ z = c[e]
      BY <1>2, <3>1
    <3>3. x <= y
      <4>1. CASE i = s
        <5>1. y = x BY <3>2, <4>1
        <5> QED BY <5>1
      <4>2. CASE s < i BY <1>2, <3>1, <3>2, <4>2
      <4> QED BY <3>1, <4>1, <4>2
    <3>4. y <= z
      <4>1. CASE i = e BY <3>2, <4>1
      <4>2. CASE i < e BY <1>2, <3>1, <3>2, <4>2
      <4> QED BY <3>1, <4>1, <4>2
    <3>5. z - x <= 7 BY <1>6, <1>w, <3>2 DEF Fits
    <3>6. y \in x..(x + 7) BY <3>3, <3>4, <3>5
    <3> QED BY <1>w, <3>1, <3>2, <3>6
  <2>3. \A i \in s..e : q[i] \in S BY <1>3, <2>2 DEF Seen
  <2>4. q \in Injection(s..e, S)
    <3>1. q \in [s..e -> S]
      <4> HIDE DEF S
      <4> QED BY <2>3
    <3>2. \A i, j \in s..e : q[i] = q[j] => i = j BY <1>1, <2>2
    <3> HIDE DEF q, S
    <3> QED BY <3>1, <3>2 DEF Injection, IsInjective
  <2>5. Cardinality(s..e) <= Cardinality(S)
    <3> HIDE DEF q, S
    <3> QED BY <2>1, <2>4, FS_Injection
  <2>6. Cardinality(s..e) = e - s + 1
    <3>1. s \in Int /\ e \in Int /\ ~(s > e) BY <1>6 DEF Fits
    <3> QED BY <3>1, FS_Interval
  <2>7. Cardinality(S) >= k
    <3> HIDE DEF S
    <3> QED BY <1>6, <2>1, <2>5, <2>6
  <2> QED BY <1>3, <2>7
<1>7. ASSUME NEW j \in 1..n, Cardinality(Seen(days, n, days[j])) >= k
      PROVE  \E s, e \in 1..n : Fits(c, s, e) /\ e - s + 1 >= k
  <2> DEFINE S == Seen(days, n, days[j])
             T == {i \in 1..n : p[i] \in S}
             q == [i \in T |-> p[i]]
  <2>1. IsFiniteSet(T) /\ T \in SUBSET (1..n) /\ Cardinality(T) \in Nat
    <3>1. T \in SUBSET (1..n) OBVIOUS
    <3> HIDE DEF T
    <3> QED BY <1>5, <3>1, FS_Subset, FS_CardinalityType
  <2>2. q \in Surjection(T, S)
    <3>1. q \in [T -> S] OBVIOUS
    <3>2. \A x \in S : \E i \in T : q[i] = x
      <4>1. S \subseteq 1..n BY DEF Seen
      <4> HIDE DEF S
      <4> QED BY <1>1, <4>1
    <3> HIDE DEF q, S, T
    <3> QED BY <3>1, <3>2 DEF Surjection
  <2>3. Cardinality(S) <= Cardinality(T) /\ Cardinality(S) \in Nat
    <3> HIDE DEF q, S, T
    <3> QED BY <2>1, <2>2, FS_Surjection, FS_CardinalityType
  <2>4. T # {}
    <3>1. Cardinality(T) # 0
      <4> HIDE DEF T
      <4> QED BY <1>7, <2>1, <2>3
    <3> HIDE DEF T
    <3> QED BY <2>1, <3>1, FS_EmptySet
  <2>5. PICK s \in T : \A i \in T : s <= i
    <3>1. T \in SUBSET Nat BY <2>1
    <3> HIDE DEF T
    <3> QED BY <2>4, <3>1, Smallest
  <2>6. PICK e \in T : \A i \in T : i <= e
    <3>1. T \in SUBSET Int BY <2>1
    <3> HIDE DEF T
    <3> QED BY <2>1, <2>4, <3>1, LargestIs
  <2>7. s \in 1..n /\ e \in 1..n /\ s <= e BY <2>1, <2>5, <2>6
  <2>8. Cardinality(T) <= e - s + 1
    <3>1. IsFiniteSet(s..e) /\ Cardinality(s..e) = e - s + 1
      <4>1. s \in Int /\ e \in Int /\ ~(s > e) BY <2>7
      <4> QED BY <4>1, FS_Interval
    <3>2. T \in SUBSET (s..e)
      <4>1. \A i \in T : i \in 1..n BY <2>1
      <4> HIDE DEF T
      <4> QED BY <2>5, <2>6, <2>7, <4>1
    <3> HIDE DEF T
    <3> QED BY <3>1, <3>2, FS_Subset
  <2>9. Fits(c, s, e)
    <3>1. p[s] \in S /\ p[e] \in S OBVIOUS
    <3>2. /\ c[s] \in days[j]..(days[j] + WindowDays)
          /\ c[e] \in days[j]..(days[j] + WindowDays)
      <4>1. c[s] = days[p[s]] /\ c[e] = days[p[e]] BY <1>3, <2>7
      <4> QED BY <3>1, <4>1 DEF Seen
    <3>3. PICK v \in Nat : v = days[j] OBVIOUS
    <3> HIDE DEF S, T
    <3>4. PICK x \in v..(v + 7), y \in v..(v + 7) : x = c[s] /\ y = c[e]
      BY <1>w, <3>2, <3>3
    <3>5. y - x <= 7 BY <3>3
    <3> QED BY <1>w, <2>7, <3>4, <3>5 DEF Fits
  <2>10. e - s + 1 >= k
    <3> HIDE DEF S, T
    <3> QED BY <1>7, <2>1, <2>3, <2>7, <2>8 DEF S
  <2> QED BY <2>7, <2>9, <2>10
<1> QED BY <1>4, <1>6, <1>7

\* An account has the finding exactly after a burst.
LEMMA ClusterIsFound ==
  ASSUME NEW a, NEW n \in Nat, NEW reports \in [1..n -> RepoVerdict]
  PROVE  (\E f \in evaluateAccount(a, reports).findings : f.id = "account-clustered-activity")
           <=> \E j \in 1..n :
                 Cardinality(Seen([i \in 1..n |-> reports[i].created], n, reports[j].created))
                   >= clusteredActivityMinRepos
<1> DEFINE days == [i \in 1..n |-> reports[i].created]
           Burst == maxInWindow(Sorted(days)) >= clusteredActivityMinRepos
<1>1. days \in [1..n -> Nat] BY DEF RepoVerdict
<1>2. Burst <=> \E j \in 1..n : Cardinality(Seen(days, n, days[j])) >= clusteredActivityMinRepos
  <2> HIDE DEF days
  <2> QED BY <1>1, BurstIs, ClusterAssumption
<1>3. evaluateAccount(a, reports).findings = ACCOUNT_RULES(a, reports)
  BY DEF evaluateAccount
<1> DEFINE Clustered(S) == \E f \in S : f.id = "account-clustered-activity"
<1>4. /\ ~Clustered(accountVeryNew(a)) /\ ~Clustered(accountNoTwoFactor(a))
      /\ ~Clustered(accountManyArchiveReadmes(reports))
      /\ ~Clustered(accountLowFollowersManyRepos(a))
  <2>1. \A id, v, w : Clustered(Finding(id, v, w)) => id = "account-clustered-activity"
    BY DEF Finding
  <2>2. ~Clustered(NoFinding) BY DEF NoFinding
  <2> HIDE DEF Clustered
  <2>3. ~Clustered(accountVeryNew(a)) BY <2>1, <2>2 DEF accountVeryNew
  <2>4. ~Clustered(accountNoTwoFactor(a)) BY <2>1, <2>2 DEF accountNoTwoFactor
  <2>5. ~Clustered(accountManyArchiveReadmes(reports))
    BY <2>1, <2>2 DEF accountManyArchiveReadmes
  <2>6. ~Clustered(accountLowFollowersManyRepos(a))
    BY <2>1, <2>2 DEF accountLowFollowersManyRepos
  <2> QED BY <2>3, <2>4, <2>5, <2>6
<1>5. Clustered(accountClusteredActivity(reports)) <=> Burst
  <2>1. DOMAIN reports = 1..n OBVIOUS
  <2>2. accountClusteredActivity(reports) =
          IF Burst THEN Finding("account-clustered-activity", "medium",
                                WEIGHTS.accountClusteredActivity)
          ELSE NoFinding
    BY <2>1 DEF accountClusteredActivity
  <2>3. Clustered(Finding("account-clustered-activity", "medium",
                          WEIGHTS.accountClusteredActivity))
    BY DEF Finding
  <2>4. ~Clustered(NoFinding) BY DEF NoFinding
  <2> HIDE DEF Burst, Clustered
  <2> QED BY <2>2, <2>3, <2>4
<1>6. Clustered(ACCOUNT_RULES(a, reports)) <=> Burst
  BY <1>4, <1>5 DEF ACCOUNT_RULES
<1> HIDE DEF Burst
<1> QED BY <1>2, <1>3, <1>6

-----------------------------------------------------------------------------
(* 10. Matches *)

\* What a source's candidates come to: the matches above the threshold.
Rows == [suspect : Others \X Repos, confidence : 0..100]
MatchOf(t, it, k) == [suspect |-> <<t.suspects[k], it>>, confidence |-> t.confidences[k]]
Above(t, it, n) == {m \in {MatchOf(t, it, k) : k \in 1..n} : m.confidence >= minConfidence}
Best(D) == {m \in D : \A n \in D : n.suspect = m.suspect => n.confidence <= m.confidence}

LEMMA BestExists ==
  ASSUME NEW D \in SUBSET Rows, NEW d \in D
  PROVE  \E m \in Best(D) : m.suspect = d.suspect /\ d.confidence <= m.confidence
<1> DEFINE Same == {n \in D : n.suspect = d.suspect}
           S == {n.confidence : n \in Same}
<1>1. S \subseteq 0..100 /\ d.confidence \in S
  <2>1. \A n \in D : n.confidence \in 0..100 BY DEF Rows
  <2> QED BY <2>1
<1>2. PICK x \in S : \A y \in S : y <= x
  <2> HIDE DEF S
  <2>1. IsFiniteSet(S) BY <1>1, FinitelyMany
  <2>2. S \in SUBSET Int /\ S # {} BY <1>1
  <2> QED BY <2>1, <2>2, LargestIs
<1>3. PICK m \in Same : x = m.confidence OBVIOUS
<1>4. \A n \in D : n.suspect = m.suspect => n.confidence <= m.confidence
  <2> SUFFICES ASSUME NEW n \in D, n.suspect = m.suspect PROVE n.confidence <= m.confidence
    OBVIOUS
  <2>1. n \in Same BY <1>3
  <2>2. n.confidence \in S BY <2>1
  <2> HIDE DEF S, Same
  <2> QED BY <1>2, <1>3, <2>2
<1>5. d.confidence <= m.confidence BY <1>1, <1>2, <1>3
<1> QED BY <1>3, <1>4, <1>5 DEF Best

\* Keeping the better of two, one match after the other, keeps the best of all.
LEMMA KeepsBest ==
  ASSUME NEW D \in SUBSET Rows, NEW m \in Rows
  PROVE  Keep(m, Best(D)) = Best(D \cup {m})
<1>1. \A n \in D \cup {m} : n.confidence \in 0..100 /\ n \in Rows BY DEF Rows
<1>2. \A a, b \in Rows : a.suspect = b.suspect /\ a.confidence = b.confidence => a = b
  BY DEF Rows
<1>3. CASE \E n \in Best(D) : n.suspect = m.suspect /\ n.confidence >= m.confidence
  <2>1. PICK n \in Best(D) : n.suspect = m.suspect /\ n.confidence >= m.confidence BY <1>3
  <2>2. n \in D BY DEF Best
  <2>3. Keep(m, Best(D)) = Best(D) BY <1>3 DEF Keep
  <2>4. ASSUME NEW a \in Best(D) PROVE a \in Best(D \cup {m})
    <3>1. a \in D /\ \A b \in D : b.suspect = a.suspect => b.confidence <= a.confidence
      BY DEF Best
    <3>2. m.suspect = a.suspect => m.confidence <= a.confidence
      <4> SUFFICES ASSUME m.suspect = a.suspect PROVE m.confidence <= a.confidence
        OBVIOUS
      <4>1. n.confidence <= a.confidence BY <2>1, <2>2, <3>1
      <4>2. PICK x \in 0..100, y \in 0..100, z \in 0..100 :
              x = m.confidence /\ y = n.confidence /\ z = a.confidence
        BY <1>1, <2>2, <3>1
      <4>3. x <= y /\ y <= z BY <2>1, <4>1, <4>2
      <4> QED BY <4>2, <4>3
    <3> QED BY <3>1, <3>2 DEF Best
  <2>5. ASSUME NEW a \in Best(D \cup {m}) PROVE a \in Best(D)
    <3>1. /\ a \in D \cup {m}
          /\ \A b \in D \cup {m} : b.suspect = a.suspect => b.confidence <= a.confidence
      BY DEF Best
    <3>2. a \in D
      <4> SUFFICES ASSUME a = m PROVE a \in D
        BY <3>1
      <4>1. n.confidence <= m.confidence BY <2>1, <2>2, <3>1
      <4>2. n.confidence = m.confidence BY <1>1, <2>1, <2>2, <4>1
      <4>3. n = m BY <1>1, <1>2, <2>1, <2>2, <4>2
      <4> QED BY <2>2, <4>3
    <3> QED BY <3>1, <3>2 DEF Best
  <2> QED BY <2>3, <2>4, <2>5
<1>4. CASE ~ \E n \in Best(D) : n.suspect = m.suspect /\ n.confidence >= m.confidence
  <2>1. Keep(m, Best(D)) = {n \in Best(D) : n.suspect # m.suspect} \cup {m}
    BY <1>4 DEF Keep
  <2>2. \A d \in D : d.suspect = m.suspect => d.confidence < m.confidence
    <3> SUFFICES ASSUME NEW d \in D, d.suspect = m.suspect PROVE d.confidence < m.confidence
      OBVIOUS
    <3>1. PICK n \in Best(D) : n.suspect = d.suspect /\ d.confidence <= n.confidence
      BY BestExists
    <3>2. n \in D /\ ~(n.confidence >= m.confidence) BY <1>4, <3>1 DEF Best
    <3>3. PICK x \in 0..100, y \in 0..100, z \in 0..100 :
            x = d.confidence /\ y = n.confidence /\ z = m.confidence
      BY <1>1, <3>2
    <3>4. x <= y /\ ~(y >= z) BY <3>1, <3>2, <3>3
    <3>5. x < z BY <3>4
    <3> QED BY <3>3, <3>5
  <2>3. \A d \in D : d.suspect = m.suspect =>
                       d.confidence <= m.confidence /\ ~(m.confidence <= d.confidence)
    <3> SUFFICES ASSUME NEW d \in D, d.suspect = m.suspect
                 PROVE  d.confidence <= m.confidence /\ ~(m.confidence <= d.confidence)
      OBVIOUS
    <3>1. PICK x \in 0..100, z \in 0..100 : x = d.confidence /\ z = m.confidence
      BY <1>1
    <3>2. x < z BY <2>2, <3>1
    <3>3. x <= z /\ ~(z <= x) BY <3>2
    <3> QED BY <3>1, <3>3
  <2>4. m.confidence <= m.confidence
    <3>1. PICK z \in 0..100 : z = m.confidence BY <1>1
    <3>2. z <= z OBVIOUS
    <3> QED BY <3>1, <3>2
  <2>5. ASSUME NEW a
        PROVE  a \in Best(D \cup {m}) <=> a \in {n \in Best(D) : n.suspect # m.suspect} \cup {m}
    <3>1. CASE a = m BY <3>1, <2>3, <2>4 DEF Best
    <3>2. CASE a # m /\ a.suspect = m.suspect BY <3>2, <2>3 DEF Best
    <3>3. CASE a # m /\ a.suspect # m.suspect BY <3>3 DEF Best
    <3> QED BY <3>1, <3>2, <3>3
  <2> QED BY <2>1, <2>5
<1> QED BY <1>3, <1>4

\* KeepMatches and bySuspect, of the work, the items and the results.
Inner(t, it, before) ==
  LET Match(k) == [suspect |-> <<t.suspects[k], it>>, confidence |-> t.confidences[k]]
      kept[k \in 0..Len(t.suspects)] ==
        IF k = 0 THEN before
        ELSE IF Match(k).confidence >= minConfidence THEN Keep(Match(k), kept[k - 1])
        ELSE kept[k - 1]
  IN kept[Len(t.suspects)]

Outer(r, w, its) ==
  LET kept[j \in 0..Len(r)] ==
        IF j = 0 THEN {} ELSE Inner(w[r[j]], its[r[j]], kept[j - 1])
  IN kept[Len(r)]

LEMMA LoopsAre == bySuspect = Outer(result, work, items)
BY DEF bySuspect, KeepMatches, Outer, Inner

LEMMA AboveIs ==
  ASSUME NEW n \in Nat, NEW t, t.suspects \in [1..n -> Others],
         t.confidences \in [1..n -> 0..100], NEW it \in Repos
  PROVE  /\ \A k \in 0..n : Above(t, it, k) \in SUBSET Rows
         /\ Above(t, it, 0) = {}
         /\ \A k \in 1..n :
              /\ MatchOf(t, it, k) \in Rows
              /\ Above(t, it, k) = IF MatchOf(t, it, k).confidence >= minConfidence
                                   THEN Above(t, it, k - 1) \cup {MatchOf(t, it, k)}
                                   ELSE Above(t, it, k - 1)
<1>1. \A k \in 1..n : MatchOf(t, it, k) \in Rows BY DEF MatchOf, Rows
<1>2. \A k \in 0..n : \A j \in 1..k : j \in 1..n OBVIOUS
<1>3. \A k \in 0..n : Above(t, it, k) \in SUBSET Rows BY <1>1, <1>2 DEF Above
<1>4. Above(t, it, 0) = {} BY DEF Above
<1>5. ASSUME NEW k \in 1..n
      PROVE  Above(t, it, k) = IF MatchOf(t, it, k).confidence >= minConfidence
                               THEN Above(t, it, k - 1) \cup {MatchOf(t, it, k)}
                               ELSE Above(t, it, k - 1)
  <2>1. \A j : j \in 1..k <=> j = k \/ j \in 1..(k - 1) OBVIOUS
  <2>2. \A m : m \in Above(t, it, k) <=>
                 /\ m = MatchOf(t, it, k) \/ \E j \in 1..(k - 1) : m = MatchOf(t, it, j)
                 /\ m.confidence >= minConfidence
    <3> HIDE DEF MatchOf
    <3> QED BY <2>1, Zenon DEF Above
  <2>3. \A m : m \in Above(t, it, k - 1) <=>
                 /\ \E j \in 1..(k - 1) : m = MatchOf(t, it, j)
                 /\ m.confidence >= minConfidence
    BY Zenon DEF Above
  <2> HIDE DEF Above, MatchOf
  <2> QED BY <2>2, <2>3, Zenon
<1> QED BY <1>1, <1>3, <1>4, <1>5

LEMMA InnerIs ==
  ASSUME NEW n \in Nat, NEW t, t.suspects \in [1..n -> Others],
         t.confidences \in [1..n -> 0..100], NEW it \in Repos, NEW D \in SUBSET Rows
  PROVE  Inner(t, it, Best(D)) = Best(D \cup Above(t, it, n))
<1> DEFINE Turn(f, k) ==
             IF k = 0 THEN Best(D)
             ELSE IF MatchOf(t, it, k).confidence >= minConfidence
                  THEN Keep(MatchOf(t, it, k), f[k - 1]) ELSE f[k - 1]
           Sofar(k) == Best(D \cup Above(t, it, k))
           g == [k \in 0..n |-> Sofar(k)]
<1>1. Sofar(0) = Best(D) BY AboveIs
<1>2. ASSUME NEW k \in 1..n
      PROVE  Sofar(k) = IF MatchOf(t, it, k).confidence >= minConfidence
                        THEN Keep(MatchOf(t, it, k), Sofar(k - 1)) ELSE Sofar(k - 1)
  <2> DEFINE E == D \cup Above(t, it, k - 1)
             m == MatchOf(t, it, k)
  <2>0. k - 1 \in 0..n OBVIOUS
  <2>1. E \in SUBSET Rows /\ m \in Rows BY <2>0, AboveIs
  <2>2. Keep(m, Best(E)) = Best(E \cup {m})
    <3> HIDE DEF E, m
    <3> QED BY <2>1, KeepsBest
  <2>3. D \cup Above(t, it, k) = IF m.confidence >= minConfidence THEN E \cup {m} ELSE E
    <3>1. Above(t, it, k) = IF m.confidence >= minConfidence
                            THEN Above(t, it, k - 1) \cup {m} ELSE Above(t, it, k - 1)
      BY AboveIs
    <3> HIDE DEF m
    <3> QED BY <3>1
  <2> HIDE DEF m
  <2> QED BY <2>2, <2>3 DEF m
<1>3. \A k \in 0..n : k # 0 => k \in 1..n /\ k - 1 \in 0..n OBVIOUS
<1>4. ASSUME NEW f, NEW k \in 0..n, k # 0 => f[k - 1] = Sofar(k - 1) PROVE Turn(f, k) = Sofar(k)
  <2>1. CASE k = 0 BY <1>1, <2>1
  <2>2. CASE k # 0
    <3>1. k \in 1..n BY <1>3, <2>2
    <3> HIDE DEF Sofar
    <3> QED BY <1>2, <1>4, <2>2, <3>1
  <2> QED BY <2>1, <2>2
<1> HIDE DEF Sofar, Turn
<1>5. g = [k \in 0..n |-> Turn(g, k)]
  <2>1. \A k \in 0..n : g[k] = Sofar(k) OBVIOUS
  <2>2. \A k \in 0..n : Turn(g, k) = Sofar(k)
    <3> HIDE DEF g
    <3> QED BY <1>3, <1>4, <2>1
  <2> QED BY <2>2
<1> DEFINE loop == CHOOSE f : f = [k \in 0..n |-> Turn(f, k)]
<1>6. loop = [k \in 0..n |-> Turn(loop, k)]
  <2> HIDE DEF g
  <2> QED BY <1>5
<1>7. Inner(t, it, Best(D)) = loop[n]
  <2>1. Len(t.suspects) = n OBVIOUS
  <2> QED BY <2>1 DEF Inner, MatchOf, Turn
<1> HIDE DEF loop
<1>8. \A k \in 0..n : loop[k] = Turn(loop, k) BY <1>6
<1> DEFINE G == {k \in 0..n : loop[k] # Sofar(k)}
<1>9. G = {}
  <2> SUFFICES ASSUME G # {} PROVE FALSE
    OBVIOUS
  <2>1. PICK k \in G : \A j \in G : k <= j
    <3>1. G \in SUBSET Nat OBVIOUS
    <3> HIDE DEF G
    <3> QED BY <3>1, Smallest
  <2>2. k \in 0..n OBVIOUS
  <2>3. k # 0 => k - 1 \in 0..n /\ k - 1 \notin G
    <3>1. k # 0 => k - 1 \in 0..n BY <2>2
    <3>2. k - 1 \notin G
      <4> HIDE DEF G
      <4> QED BY <2>1, <2>2
    <3> QED BY <3>1, <3>2
  <2>4. k # 0 => loop[k - 1] = Sofar(k - 1) BY <2>3
  <2>5. loop[k] = Sofar(k) BY <1>4, <1>8, <2>2, <2>4
  <2> QED BY <2>1, <2>5
<1>10. n \in 0..n OBVIOUS
<1>11. loop[n] = Sofar(n) BY <1>9, <1>10
<1> QED BY <1>7, <1>11 DEF Sofar

\* All that the sources among the results yield.
Yield(t, it) == Above(t, it, Len(t.suspects))
Yields(r, w, its, n) == UNION {Yield(w[r[j]], its[r[j]]) : j \in 1..n}

HasMatches(t) ==
  t.suspects \in Seq(Others) /\ t.confidences \in [DOMAIN t.suspects -> 0..100]

LEMMA YieldIs ==
  ASSUME NEW t, HasMatches(t), NEW it \in Repos
  PROVE  /\ Yield(t, it) \in SUBSET Rows
         /\ \A D \in SUBSET Rows : Inner(t, it, Best(D)) = Best(D \cup Yield(t, it))
<1> DEFINE n == Len(t.suspects)
<1>1. n \in Nat /\ t.suspects \in [1..n -> Others] BY LenProperties DEF HasMatches
<1>2. t.confidences \in [1..n -> 0..100] BY <1>1 DEF HasMatches
<1>3. n \in 0..n BY <1>1
<1>4. Yield(t, it) = Above(t, it, n) BY DEF Yield
<1> HIDE DEF n
<1>5. Above(t, it, n) \in SUBSET Rows BY <1>1, <1>2, <1>3, AboveIs
<1>6. \A D \in SUBSET Rows : Inner(t, it, Best(D)) = Best(D \cup Above(t, it, n))
  BY <1>1, <1>2, InnerIs
<1> QED BY <1>4, <1>5, <1>6

LEMMA OuterIs ==
  ASSUME NEW n \in Nat, NEW I, NEW r \in [1..n -> I], NEW w, NEW its,
         \A i \in I : its[i] \in Repos /\ HasMatches(w[i])
  PROVE  Outer(r, w, its) = Best(Yields(r, w, its, n))
<1> DEFINE Turn(f, j) == IF j = 0 THEN {} ELSE Inner(w[r[j]], its[r[j]], f[j - 1])
           Sofar(j) == Best(Yields(r, w, its, j))
           g == [j \in 0..n |-> Sofar(j)]
<1>1. Sofar(0) = {}
  <2>1. Yields(r, w, its, 0) = {} BY DEF Yields
  <2> QED BY <2>1 DEF Best
<1>2. ASSUME NEW j \in 1..n
      PROVE  Sofar(j) = Inner(w[r[j]], its[r[j]], Sofar(j - 1))
  <2> DEFINE D == Yields(r, w, its, j - 1)
             Y == Yield(w[r[j]], its[r[j]])
  <2>1. \A k \in 1..n : Yield(w[r[k]], its[r[k]]) \in SUBSET Rows
    <3> SUFFICES ASSUME NEW k \in 1..n PROVE Yield(w[r[k]], its[r[k]]) \in SUBSET Rows
      OBVIOUS
    <3>1. its[r[k]] \in Repos /\ HasMatches(w[r[k]]) OBVIOUS
    <3> QED BY <3>1, YieldIs
  <2>2. \A k : k \in 1..j <=> k = j \/ k \in 1..(j - 1) OBVIOUS
  <2>3. \A k \in 1..(j - 1) : k \in 1..n OBVIOUS
  <2>4. D \in SUBSET Rows BY <2>1, <2>3 DEF Yields
  <2>5. Yields(r, w, its, j) = D \cup Y
    <3>1. \A m : m \in Yields(r, w, its, j) <=>
                   m \in Y \/ \E k \in 1..(j - 1) : m \in Yield(w[r[k]], its[r[k]])
      <4> HIDE DEF Y
      <4>1. \A m : m \in Yields(r, w, its, j) <=>
                     \E k \in 1..j : m \in Yield(w[r[k]], its[r[k]])
        BY Zenon DEF Yields
      <4> QED BY <4>1, <2>2, Zenon DEF Y
    <3>2. \A m : m \in D <=> \E k \in 1..(j - 1) : m \in Yield(w[r[k]], its[r[k]])
      BY Zenon DEF Yields
    <3> HIDE DEF D, Y
    <3> QED BY <3>1, <3>2, Zenon
  <2>6. its[r[j]] \in Repos /\ HasMatches(w[r[j]]) OBVIOUS
  <2>7. Inner(w[r[j]], its[r[j]], Best(D)) = Best(D \cup Y)
    <3> HIDE DEF D
    <3> QED BY <2>4, <2>6, YieldIs
  <2> HIDE DEF D, Y
  <2> QED BY <2>5, <2>7 DEF D
<1>3. \A j \in 0..n : j # 0 => j \in 1..n /\ j - 1 \in 0..n OBVIOUS
<1>4. ASSUME NEW f, NEW j \in 0..n, j # 0 => f[j - 1] = Sofar(j - 1) PROVE Turn(f, j) = Sofar(j)
  <2>1. CASE j = 0 BY <1>1, <2>1
  <2>2. CASE j # 0
    <3>1. j \in 1..n BY <1>3, <2>2
    <3> HIDE DEF Sofar
    <3> QED BY <1>2, <1>4, <2>2, <3>1
  <2> QED BY <2>1, <2>2
<1> HIDE DEF Sofar, Turn
<1>5. g = [j \in 0..n |-> Turn(g, j)]
  <2>1. \A j \in 0..n : g[j] = Sofar(j) OBVIOUS
  <2>2. \A j \in 0..n : Turn(g, j) = Sofar(j)
    <3> HIDE DEF g
    <3> QED BY <1>3, <1>4, <2>1
  <2> QED BY <2>2
<1> DEFINE loop == CHOOSE f : f = [j \in 0..n |-> Turn(f, j)]
<1>6. loop = [j \in 0..n |-> Turn(loop, j)]
  <2> HIDE DEF g
  <2> QED BY <1>5
<1>7. Outer(r, w, its) = loop[n]
  <2>1. Len(r) = n OBVIOUS
  <2> QED BY <2>1 DEF Outer, Turn
<1> HIDE DEF loop
<1>8. \A j \in 0..n : loop[j] = Turn(loop, j) BY <1>6
<1> DEFINE G == {j \in 0..n : loop[j] # Sofar(j)}
<1>9. G = {}
  <2> SUFFICES ASSUME G # {} PROVE FALSE
    OBVIOUS
  <2>1. PICK j \in G : \A k \in G : j <= k
    <3>1. G \in SUBSET Nat OBVIOUS
    <3> HIDE DEF G
    <3> QED BY <3>1, Smallest
  <2>2. j \in 0..n OBVIOUS
  <2>3. j # 0 => j - 1 \in 0..n /\ j - 1 \notin G
    <3>1. j # 0 => j - 1 \in 0..n BY <2>2
    <3>2. j - 1 \notin G
      <4> HIDE DEF G
      <4> QED BY <2>1, <2>2
    <3> QED BY <3>1, <3>2
  <2>4. j # 0 => loop[j - 1] = Sofar(j - 1) BY <2>3
  <2>5. loop[j] = Sofar(j) BY <1>4, <1>8, <2>2, <2>4
  <2> QED BY <2>1, <2>5
<1>10. n \in 0..n OBVIOUS
<1>11. loop[n] = Sofar(n) BY <1>9, <1>10
<1> QED BY <1>7, <1>11 DEF Sofar

-----------------------------------------------------------------------------
(* 11. What is reported *)

\* What is known of each item while the pool works and after: a repository that is
\* through has its verdict, and a source its candidates.
Searched(t) ==
  /\ t = [searched |-> TRUE, suspects |-> t.suspects,
          inner |-> t.inner, confidences |-> t.confidences]
  /\ HasMatches(t)

Made(i) ==
  IF kind = "clones"
  THEN /\ work[i] = NoWork \/ Searched(work[i])
       /\ pool.out[i] = "ok" => work[i] # NoWork
       /\ pool.out[i] = "failed" => work[i] = NoWork
  ELSE pool.out[i] = "ok" => work[i] \in Verdicts

\* When the report is made, every item is through, and the result lists those that
\* did not fail.
Collected ==
  /\ \A i \in DOMAIN items : pool.out[i] # "todo"
  /\ result = Map!Ascending({i \in 1..Size(pool) : pool.out[i] = "ok"})

Scanning ==
  kind \in Listing /\ (stage \in {"map", "report"} \/ (stage = "done" /\ response = "ok"))

ReportInv ==
  /\ stage # "done" => response = "none"
  /\ Scanning => \A i \in DOMAIN items : Made(i)
  /\ Scanning /\ stage # "map" => Collected

\* A failed call ends the scan with an error.
LEMMA CallsAnswer ==
  ASSUME GetUser \/ GetRepo \/ ListRepos
  PROVE  /\ stage \notin {"map", "report", "done"} /\ UNCHANGED kind
         /\ \/ UNCHANGED response /\ stage' \in {stage, "list", "snapshot", "select"}
            \/ stage' = "done" /\ response' # "ok"
<1>1. \A a \in Answers : a # "ok" => "ok" \notin Errors(a) BY DEF Answers, Errors
<1>2. CASE GetUser BY <1>1, <1>2 DEF GetUser, Fetch, Answer, request
<1>3. CASE GetRepo BY <1>1, <1>3 DEF GetRepo, Fetch, Answer, request
<1>4. CASE ListRepos BY <1>1, <1>4 DEF ListRepos, Fetch, Answer, request
<1> QED BY <1>2, <1>3, <1>4

\* The work of a worker is on one item, which is left undone until then.
LEMMA ScannedMakes ==
  ASSUME TypeInv, ReportInv, NEW w \in DOMAIN pool.at, Scanned(w)
  PROVE  \A i \in DOMAIN items : Made(i)'
<1>1. /\ kind # "clones" /\ stage = "map" /\ w \in Working(pool) /\ UNCHANGED <<kind, items>>
      /\ \/ \E v \in Verdicts : work' = [work EXCEPT ![pool.at[w]] = v] /\ Settles(w, "ok")
         \/ UNCHANGED work /\ Settles(w, "failed")
  BY DEF Scanned, request
<1>2. PICK i \in DOMAIN items : i = pool.at[w] /\ pool.out[i] = "todo"
  BY <1>1, Items, ItemOf
<1>3. \A j \in DOMAIN items : pool.out[j] = "ok" => work[j] \in Verdicts
  <2>1. Scanning BY <1>1 DEF Scanning, TypeInv, Stages
  <2> QED BY <1>1, <2>1 DEF ReportInv, Made
<1>4. CASE \E v \in Verdicts : work' = [work EXCEPT ![pool.at[w]] = v] /\ Settles(w, "ok")
  <2>1. PICK v \in Verdicts : work' = [work EXCEPT ![i] = v] /\ Settles(w, "ok")
    BY <1>2, <1>4
  <2>2. \A j \in DOMAIN items : pool'.out[j] = IF j = i THEN "ok" ELSE pool.out[j]
    BY <1>1, <1>2, <2>1, SettlesOne
  <2>3. \A j \in DOMAIN items : work'[j] = IF j = i THEN v ELSE work[j]
    BY <2>1, Items
  <2>4. \A j \in DOMAIN items : pool'.out[j] = "ok" => work'[j] \in Verdicts
    BY <1>3, <2>2, <2>3
  <2> QED BY <1>1, <2>4 DEF Made
<1>5. CASE UNCHANGED work /\ Settles(w, "failed")
  <2>2. \A j \in DOMAIN items : pool'.out[j] = IF j = i THEN "failed" ELSE pool.out[j]
    BY <1>1, <1>2, <1>5, SettlesOne
  <2>4. \A j \in DOMAIN items : pool'.out[j] = "ok" => work'[j] \in Verdicts
    BY <1>3, <1>5, <2>2
  <2> QED BY <1>1, <2>4 DEF Made
<1> QED BY <1>1, <1>4, <1>5

LEMMA SearchMakes ==
  ASSUME TypeInv, ReportInv, NEW w \in DOMAIN pool.at, SearchClones(w)
  PROVE  \A i \in DOMAIN items : Made(i)'
<1>1. /\ kind = "clones" /\ stage = "map" /\ w \in Working(pool) /\ ~Task(w).searched
      /\ UNCHANGED <<kind, items>>
  BY DEF SearchClones, request
<1>2. PICK i \in DOMAIN items : i = pool.at[w] /\ pool.out[i] = "todo"
  BY <1>1, Items, ItemOf
<1>3. \A j \in DOMAIN items : Made(j)
  <2>1. Scanning BY <1>1 DEF Scanning, TypeInv, Stages
  <2> QED BY <2>1 DEF ReportInv
<1>4. work[i] = NoWork
  <2>1. ~work[i].searched BY <1>1, <1>2 DEF Task
  <2>2. Searched(work[i]) => work[i].searched BY DEF Searched
  <2> QED BY <1>1, <1>3, <2>1, <2>2 DEF Made
<1>5. CASE UNCHANGED work /\ Settles(w, "failed")
  <2>1. \A j \in DOMAIN items : pool'.out[j] = IF j = i THEN "failed" ELSE pool.out[j]
    BY <1>1, <1>2, <1>5, SettlesOne
  <2> QED BY <1>1, <1>3, <1>4, <1>5, <2>1 DEF Made
<1>6. ASSUME NEW s \in Suspects, NEW t,
             t = [searched |-> TRUE, suspects |-> s, inner |-> PoolOf(Len(s)),
                  confidences |-> [k \in DOMAIN s |-> 0]],
             work' = [work EXCEPT ![pool.at[w]] = t],
             UNCHANGED poolVars
      PROVE  \A j \in DOMAIN items : Made(j)'
  <2>1. s \in Seq(Others)
    <3>1. PICK n \in 0..MaxCandidates : s \in [1..n -> Others] BY DEF Suspects
    <3>2. n \in Nat BY Caps
    <3> QED BY <3>1, <3>2
  <2>2. t.suspects = s /\ t.confidences = [k \in DOMAIN s |-> 0] /\ t.searched = TRUE
        /\ t.inner = PoolOf(Len(s))
    BY <1>6
  <2>3. Searched(t)
    <3>1. t.confidences \in [DOMAIN s -> 0..100]
      <4>1. 0 \in 0..100 OBVIOUS
      <4> QED BY <2>2, <4>1
    <3> QED BY <1>6, <2>1, <2>2, <3>1 DEF Searched, HasMatches
  <2>4. t # NoWork
    <3>1. NoWork.searched = FALSE BY DEF NoWork
    <3> QED BY <2>2, <3>1
  <2>5. \A j \in DOMAIN items : work'[j] = IF j = i THEN t ELSE work[j]
    BY <1>2, <1>6, Items
  <2>6. pool' = pool BY <1>6 DEF poolVars
  <2> SUFFICES ASSUME NEW j \in DOMAIN items PROVE Made(j)'
    OBVIOUS
  <2>7. CASE j = i
    <3>1. work'[j] = t /\ pool'.out[j] = "todo" BY <1>2, <2>5, <2>6, <2>7
    <3> QED BY <1>1, <2>3, <2>4, <3>1 DEF Made
  <2>8. CASE j # i
    <3>1. work'[j] = work[j] BY <2>5, <2>8
    <3> QED BY <1>1, <1>3, <2>6, <3>1 DEF Made
  <2> QED BY <2>7, <2>8
<1> QED BY <1>5, <1>6 DEF SearchClones

LEMMA InspectMakes ==
  ASSUME TypeInv, ReportInv, NEW w \in DOMAIN pool.at, NEW v, Inspect(w, v)
  PROVE  \A i \in DOMAIN items : Made(i)'
<1>1. /\ kind = "clones" /\ stage = "map" /\ w \in Working(pool) /\ Task(w).searched
      /\ UNCHANGED <<kind, items, pool>>
  BY DEF Inspect, request, poolVars
<1>2. PICK i \in DOMAIN items : i = pool.at[w] /\ pool.out[i] = "todo"
  BY <1>1, Items, ItemOf
<1>3. \A j \in DOMAIN items : Made(j)
  <2>1. Scanning BY <1>1 DEF Scanning, TypeInv, Stages
  <2> QED BY <2>1 DEF ReportInv
<1>4. PICK t : t = work[i] OBVIOUS
<1>5. Searched(t)
  <2>1. t.searched BY <1>1, <1>2, <1>4 DEF Task
  <2>2. NoWork.searched = FALSE BY DEF NoWork
  <2> QED BY <1>1, <1>3, <1>4, <2>1, <2>2 DEF Made
<1>6. PICK p, k, c :
        /\ c \in 0..100
        /\ work' = [work EXCEPT ![pool.at[w]] = [t EXCEPT !.inner = p, !.confidences[k] = c]]
  <2>1. Task(w) = t BY <1>2, <1>4 DEF Task
  <2>2. PICK judged :
          /\ \/ \E c \in Confidences :
                  judged = [t EXCEPT !.inner = Settled(t.inner, v, "ok"),
                                     !.confidences[t.inner.at[v]] = c]
             \/ judged = [t EXCEPT !.inner = Settled(t.inner, v, "failed"),
                                   !.confidences[t.inner.at[v]] = 0]
          /\ work' = [work EXCEPT ![pool.at[w]] = judged]
    BY <2>1 DEF Inspect
  <2>3. Confidences \subseteq 0..100 BY ScanAssumption
  <2>4. 0 \in 0..100 OBVIOUS
  <2> QED BY <2>2, <2>3, <2>4
<1>7. PICK r : r = [t EXCEPT !.inner = p, !.confidences[k] = c] OBVIOUS
<1>8. /\ r = [searched |-> TRUE, suspects |-> t.suspects, inner |-> p,
              confidences |-> [t.confidences EXCEPT ![k] = c]]
  <2>1. PICK a, b, d : t = [searched |-> TRUE, suspects |-> a, inner |-> b, confidences |-> d]
    BY <1>5 DEF Searched
  <2> QED BY <1>7, <2>1
<1>9. /\ r.searched = TRUE /\ r.suspects = t.suspects /\ r.inner = p
      /\ r.confidences = [t.confidences EXCEPT ![k] = c]
  BY <1>8
<1>10. Searched(r)
  <2>1. r.confidences \in [DOMAIN r.suspects -> 0..100]
    BY <1>5, <1>6, <1>9 DEF Searched, HasMatches
  <2> QED BY <1>5, <1>8, <1>9, <2>1 DEF Searched, HasMatches
<1>11. r # NoWork
  <2>1. NoWork.searched = FALSE BY DEF NoWork
  <2> QED BY <1>9, <2>1
<1>12. \A j \in DOMAIN items : work'[j] = IF j = i THEN r ELSE work[j]
  BY <1>2, <1>6, <1>7, Items
<1> SUFFICES ASSUME NEW j \in DOMAIN items PROVE Made(j)'
  OBVIOUS
<1>13. CASE j = i
  <2>1. work'[j] = r /\ pool'.out[j] = "todo" BY <1>1, <1>2, <1>12, <1>13
  <2> QED BY <1>1, <1>10, <1>11, <2>1 DEF Made
<1>14. CASE j # i
  <2>1. work'[j] = work[j] BY <1>12, <1>14
  <2> QED BY <1>1, <1>3, <2>1 DEF Made
<1> QED BY <1>13, <1>14

LEMMA InspectedMakes ==
  ASSUME TypeInv, ReportInv, NEW w \in DOMAIN pool.at, Inspected(w)
  PROVE  \A i \in DOMAIN items : Made(i)'
<1>1. /\ kind = "clones" /\ stage = "map" /\ w \in Working(pool) /\ Task(w).searched
      /\ UNCHANGED <<kind, items, work>> /\ Settles(w, "ok")
  BY DEF Inspected, request
<1>2. PICK i \in DOMAIN items : i = pool.at[w] /\ pool.out[i] = "todo"
  BY <1>1, Items, ItemOf
<1>3. \A j \in DOMAIN items : Made(j)
  <2>1. Scanning BY <1>1 DEF Scanning, TypeInv, Stages
  <2> QED BY <2>1 DEF ReportInv
<1>4. work[i] # NoWork
  <2>1. work[i].searched BY <1>1, <1>2 DEF Task
  <2>2. NoWork.searched = FALSE BY DEF NoWork
  <2> QED BY <2>1, <2>2
<1>5. \A j \in DOMAIN items : pool'.out[j] = IF j = i THEN "ok" ELSE pool.out[j]
  BY <1>1, <1>2, SettlesOne
<1> QED BY <1>1, <1>3, <1>4, <1>5 DEF Made

LEMMA ReportStep == TypeInv /\ ReportInv /\ [ScanNext]_vars => ReportInv'
<1> SUFFICES ASSUME TypeInv, ReportInv, [ScanNext]_vars PROVE ReportInv'
  OBVIOUS
<1>1. ASSUME NEW k \in Kinds, Receive(k) PROVE ReportInv'
  <2>1. /\ stage = "start" /\ response = "none" /\ kind' = k
        /\ \/ k = "bad" /\ stage' = "done"
           \/ stage' \in {"list", "repo", "user"} /\ response' = "none"
    BY <1>1 DEF Receive, Answer, ReportInv
  <2> QED BY <2>1 DEF ReportInv, Scanning, Listing
<1>2. CASE GetUser \/ GetRepo \/ ListRepos
  <2>1. /\ stage \notin {"map", "report", "done"} /\ UNCHANGED kind
        /\ \/ UNCHANGED response /\ stage' \in {stage, "list", "snapshot", "select"}
           \/ stage' = "done" /\ response' # "ok"
    BY <1>2, CallsAnswer
  <2> QED BY <2>1 DEF ReportInv, Scanning
<1>3. CASE Select
  <2>1. /\ stage = "select" /\ stage' = "map" /\ kind' = kind /\ kind \in Listing
        /\ UNCHANGED response /\ items' \in Selected
        /\ work' = [i \in DOMAIN items' |-> NoWork] /\ pool' = PoolOf(Len(items'))
    BY <1>3 DEF Select, StartPool, request, TypeInv, Stages
  <2>2. items' \in Seq(Repos) BY <2>1, SelectedType DEF TypeInv
  <2>3. \A i \in DOMAIN items' : pool'.out[i] = "todo"
    <3>1. DOMAIN items' = 1..Len(items') BY <2>2, LenProperties
    <3>2. pool'.out = [i \in 1..Len(items') |-> "todo"] BY <2>1 DEF PoolOf
    <3> QED BY <3>1, <3>2
  <2>4. \A i \in DOMAIN items' : Made(i)' BY <2>1, <2>3 DEF Made
  <2> QED BY <2>1, <2>4 DEF ReportInv
<1>4. ASSUME NEW w \in DOMAIN pool.at, NEW v,
             Scanned(w) \/ SearchClones(w) \/ Inspect(w, v) \/ Inspected(w)
      PROVE  ReportInv'
  <2>1. stage = "map" /\ UNCHANGED <<stage, items>> BY <1>4, WorkerSteps
  <2>2. UNCHANGED response BY <1>4 DEF Scanned, SearchClones, Inspect, Inspected
  <2>3. \A i \in DOMAIN items : Made(i)'
    BY <1>4, ScannedMakes, SearchMakes, InspectMakes, InspectedMakes
  <2> QED BY <2>1, <2>2, <2>3 DEF ReportInv
<1>5. CASE CollectItems
  <2>1. /\ stage = "map" /\ stage' = "report" /\ CollectResults
        /\ UNCHANGED <<kind, items, work, pool, response>>
        /\ result' = Map!Ascending({i \in 1..Size(pool) : pool.out[i] = "ok"})
    BY <1>5 DEF CollectItems, CollectResults, request
  <2>2. Scanning BY <2>1 DEF Scanning, TypeInv, Stages
  <2>3. \A i \in DOMAIN items : Made(i)' BY <2>1, <2>2 DEF ReportInv, Made
  <2>4. \A i \in DOMAIN items : pool.out[i] # "todo"
    <3>1. PoolInv /\ DOMAIN items = 1..Size(pool) BY Items DEF TypeInv, Pools
    <3> QED BY <2>1, <3>1, NoneIsLeft
  <2>5. Collected' BY <2>1, <2>4 DEF Collected, Size
  <2> QED BY <2>1, <2>2, <2>3, <2>5 DEF ReportInv, Scanning
<1>6. CASE Report
  <2>1. /\ stage = "report" /\ stage' = "done"
        /\ UNCHANGED <<kind, items, work, pool, result>>
    BY <1>6 DEF Report, Reported, Answer, request, mapping, poolVars
  <2>2. Scanning BY <2>1 DEF Scanning, TypeInv, Stages
  <2>3. (\A i \in DOMAIN items : Made(i)') /\ Collected'
    BY <2>1, <2>2 DEF ReportInv, Made, Collected, Size
  <2> QED BY <2>1, <2>3 DEF ReportInv
<1>7. CASE ScanRepo
  <2>1. stage = "snapshot" /\ stage' = "done" /\ kind' = kind /\ kind = "repo"
    BY <1>7 DEF ScanRepo, Reported, Answer, request, TypeInv, Stages
  <2> QED BY <2>1 DEF ReportInv, Scanning, Listing
<1>8. CASE RecordScan \/ (\E i \in DOMAIN order : Pushed(i)) \/ UNCHANGED vars
  <2>1. UNCHANGED <<kind, stage, response, items, work, pool, result>>
    BY <1>8 DEF RecordScan, Pushed, vars, request, mapping, poolVars
  <2>2. \A i : Made(i) <=> Made(i)' BY <2>1 DEF Made
  <2> QED BY <2>1, <2>2 DEF ReportInv, Scanning, Collected, Size
<1> QED BY <1>1, <1>2, <1>3, <1>4, <1>5, <1>6, <1>7, <1>8, Cases

LEMMA ReportInvariant == ScanSpec => [](TypeInv /\ ReportInv)
<1>1. Init => ReportInv BY DEF Init, ReportInv, Scanning
<1> QED BY <1>1, ReportStep, TypeInvariant, PTL DEF ScanSpec

Succeeded == {i \in DOMAIN items : pool.out[i] = "ok"}

\* The result of a scan that is answered lists the items that succeeded.
LEMMA ResultIs ==
  ASSUME TypeInv, ReportInv, Reporting(Listing)
  PROVE  \E n \in Nat :
           /\ result \in [1..n -> Succeeded] /\ DOMAIN result = 1..n
           /\ \A i \in Succeeded : \E j \in 1..n : result[j] = i
           /\ \A i \in DOMAIN items : Made(i) /\ pool.out[i] \in {"ok", "failed"}
<1>1. Scanning /\ stage = "done" BY DEF Reporting, Scanning
<1>2. Collected /\ \A i \in DOMAIN items : Made(i) BY <1>1 DEF ReportInv
<1>3. /\ Size(pool) \in Nat /\ DOMAIN items = 1..Size(pool)
      /\ \A i \in DOMAIN items : pool.out[i] \in {"todo", "ok", "failed"}
  <2>1. Consistent(pool) /\ DOMAIN items = 1..Size(pool) /\ Size(pool) = Len(items)
        /\ Len(items) \in Nat
    BY Items
  <2> QED BY <2>1 DEF Consistent, Size
<1>4. result = Map!Ascending(Succeeded) /\ Succeeded \in SUBSET (1..Size(pool))
  BY <1>2, <1>3 DEF Collected, Succeeded
<1>5. PICK I : I = Succeeded OBVIOUS
<1>11. PICK m \in Nat : m = Size(pool) BY <1>3
<1>12. I \in SUBSET (1..m) BY <1>4, <1>5, <1>11
<1> DEFINE n == Cardinality(I)
<1>6. /\ Map!Ascending(I) \in [1..n -> I] /\ n \in Nat
      /\ \A x \in I : \E j \in 1..n : Map!Ascending(I)[j] = x
  BY <1>12, AscendingIs
<1>7. result = Map!Ascending(I) BY <1>4, <1>5
<1>8. /\ result \in [1..n -> Succeeded] /\ n \in Nat
      /\ \A i \in Succeeded : \E j \in 1..n : result[j] = i
  <2> HIDE DEF n
  <2> QED BY <1>5, <1>6, <1>7
<1>9. DOMAIN result = 1..n
  <2> HIDE DEF n
  <2> QED BY <1>8
<1>10. \A i \in DOMAIN items : pool.out[i] \in {"ok", "failed"}
  BY <1>2, <1>3 DEF Collected
<1> QED BY <1>2, <1>8, <1>9, <1>10

\* The verdicts a report rolls up.
LEMMA VerdictsAre ==
  ASSUME TypeInv, ReportInv, Reporting({"self", "account"})
  PROVE  \E n \in Nat : \E reports \in [1..n -> RepoVerdict] :
           /\ DOMAIN result = 1..n
           /\ \A j \in 1..n : reports[j] = work[result[j]]
           /\ AccountReported = evaluateAccount(account, reports)
<1>1. Reporting(Listing) /\ kind # "clones" BY DEF Reporting, Listing
<1>2. PICK n \in Nat :
        /\ result \in [1..n -> Succeeded] /\ DOMAIN result = 1..n
        /\ \A i \in DOMAIN items : Made(i)
  BY <1>1, ResultIs
<1>3. \A i \in Succeeded : work[i] \in RepoVerdict
  <2>1. Verdicts \subseteq RepoVerdict BY ScanAssumption
  <2> QED BY <1>1, <1>2, <2>1 DEF Made, Succeeded
<1> DEFINE reports == [j \in 1..n |-> work[result[j]]]
<1>4. reports \in [1..n -> RepoVerdict] BY <1>2, <1>3
<1>5. AccountReported = evaluateAccount(account, reports)
  BY <1>2 DEF AccountReported
<1>6. \A j \in 1..n : reports[j] = work[result[j]] OBVIOUS
<1> HIDE DEF reports
<1> QED BY <1>2, <1>4, <1>5, <1>6

\* "An account hosting one clearly-malicious repo can't read as safe overall"
\* (evaluate.ts:106): whatever else the account is found to be, and however many
\* repositories are fine, one critical repository flags it.
THEOREM WorstRepoFlags == ScanSpec => []WorstRepoFlagsTheAccount
<1>1. TypeInv /\ ReportInv => WorstRepoFlagsTheAccount
  <2> SUFFICES ASSUME TypeInv, ReportInv, Reporting({"self", "account"}),
                      NEW j \in DOMAIN result,
                      bandForScore(work[result[j]].score) = "critical"
               PROVE  isFlagged(AccountReported.band)
    BY DEF WorstRepoFlagsTheAccount
  <2>1. PICK n \in Nat : \E reports \in [1..n -> RepoVerdict] :
          /\ DOMAIN result = 1..n
          /\ \A k \in 1..n : reports[k] = work[result[k]]
          /\ AccountReported = evaluateAccount(account, reports)
    BY VerdictsAre
  <2>2. PICK reports \in [1..n -> RepoVerdict] :
          /\ DOMAIN result = 1..n
          /\ \A k \in 1..n : reports[k] = work[result[k]]
          /\ AccountReported = evaluateAccount(account, reports)
    BY <2>1
  <2>3. j \in 1..n /\ bandForScore(reports[j].score) = "critical" BY <2>2
  <2>4. isFlagged(evaluateAccount(account, reports).band) BY <2>3, WorstFlags
  <2> QED BY <2>2, <2>4
<1> QED BY <1>1, ReportInvariant, PTL

\* A burst of creations is reported exactly if some seven days saw enough of the
\* repositories, in whatever order the workers were through with them: the loop over
\* the sorted days (account-rules.ts:52-66) misses no window.
THEOREM EveryBurstIsFound == ScanSpec => []BurstsAreFound
<1>1. TypeInv /\ ReportInv => BurstsAreFound
  <2> SUFFICES ASSUME TypeInv, ReportInv, Reporting({"self", "account"})
               PROVE  BurstsAreFound
    BY DEF BurstsAreFound
  <2>1. PICK n \in Nat : \E reports \in [1..n -> RepoVerdict] :
          /\ DOMAIN result = 1..n
          /\ \A k \in 1..n : reports[k] = work[result[k]]
          /\ AccountReported = evaluateAccount(account, reports)
    BY VerdictsAre
  <2>2. PICK reports \in [1..n -> RepoVerdict] :
          /\ DOMAIN result = 1..n
          /\ \A k \in 1..n : reports[k] = work[result[k]]
          /\ AccountReported = evaluateAccount(account, reports)
    BY <2>1
  <2> DEFINE days == [k \in 1..n |-> reports[k].created]
             In(d) == {k \in DOMAIN result : work[result[k]].created \in d..(d + WindowDays)}
  <2>3. (\E f \in AccountReported.findings : f.id = "account-clustered-activity")
          <=> \E k \in 1..n : Cardinality(Seen(days, n, reports[k].created))
                                >= clusteredActivityMinRepos
    BY <2>2, ClusterIsFound
  <2>4. \A k \in 1..n : Seen(days, n, reports[k].created) = In(work[result[k]].created)
    BY <2>2 DEF Seen
  <2>5. (\E f \in AccountReported.findings : f.id = "account-clustered-activity")
          <=> \E k \in DOMAIN result : Cardinality(In(work[result[k]].created))
                                         >= clusteredActivityMinRepos
    <3> HIDE DEF days, In
    <3> QED BY <2>2, <2>3, <2>4
  <2> QED BY <2>5 DEF BurstsAreFound
<1> QED BY <1>1, ReportInvariant, PTL

\* "Keep the highest-confidence match per suspect so the report has no duplicate
\* rows" (clone-detection.ts:88-90): whatever the inspections yield and whichever
\* of them fail, the rows are the best match of each suspect above the threshold.
THEOREM RowsAreTheBestMatches == ScanSpec => []BestMatchPerSuspect
<1>1. TypeInv /\ ReportInv => BestMatchPerSuspect
  <2> SUFFICES ASSUME TypeInv, ReportInv, Reporting({"clones"})
               PROVE  BestMatchPerSuspect
    BY DEF BestMatchPerSuspect
  <2>1. Reporting(Listing) /\ kind = "clones" BY DEF Reporting, Listing
  <2>2. PICK n \in Nat :
          /\ result \in [1..n -> Succeeded] /\ DOMAIN result = 1..n
          /\ \A i \in Succeeded : \E j \in 1..n : result[j] = i
          /\ \A i \in DOMAIN items : Made(i) /\ pool.out[i] \in {"ok", "failed"}
    BY <2>1, ResultIs
  <2>3. Succeeded = {i \in DOMAIN items : work[i].searched}
    <3>1. \A i \in DOMAIN items : work[i] = NoWork \/ Searched(work[i])
      BY <2>1, <2>2 DEF Made
    <3>2. ~NoWork.searched BY DEF NoWork
    <3>3. \A i \in DOMAIN items : Searched(work[i]) => work[i].searched BY DEF Searched
    <3>4. \A i \in DOMAIN items : work[i] # NoWork <=> work[i].searched
      BY <3>1, <3>2, <3>3
    <3>5. \A i \in DOMAIN items : work[i] # NoWork <=> pool.out[i] = "ok"
      BY <2>1, <2>2 DEF Made
    <3> QED BY <3>4, <3>5 DEF Succeeded
  <2>4. \A i \in Succeeded : items[i] \in Repos /\ HasMatches(work[i])
    <3>1. \A i \in DOMAIN items : items[i] \in Repos BY Items, LenProperties
    <3>2. \A i \in Succeeded : Searched(work[i])
      BY <2>1, <2>2 DEF Made, Succeeded
    <3> QED BY <3>1, <3>2 DEF Searched, Succeeded
  <2>5. bySuspect = Best(Yields(result, work, items, n))
    BY <2>2, <2>4, OuterIs, LoopsAre
  <2> DEFINE Match(i, k) == [suspect |-> <<work[i].suspects[k], items[i]>>,
                             confidence |-> work[i].confidences[k]]
             Found == UNION {{Match(i, k) : k \in DOMAIN work[i].suspects} :
                               i \in {j \in DOMAIN items : work[j].searched}}
             Over == {m \in Found : m.confidence >= minConfidence}
  <2>6. Yields(result, work, items, n) = Over
    <3>1. \A i \in Succeeded : DOMAIN work[i].suspects = 1..Len(work[i].suspects)
      BY <2>4, LenProperties DEF HasMatches
    <3>2. \A m : m \in Over <=>
                   /\ \E i \in Succeeded : \E k \in 1..Len(work[i].suspects) : m = Match(i, k)
                   /\ m.confidence >= minConfidence
      <4>1. \A m : m \in Found <=>
                     \E i \in Succeeded : \E k \in DOMAIN work[i].suspects : m = Match(i, k)
        <5> DEFINE Of(i) == {Match(i, k) : k \in DOMAIN work[i].suspects}
                   J == {j \in DOMAIN items : work[j].searched}
        <5>1. \A m, i : m \in Of(i) <=> \E k \in DOMAIN work[i].suspects : m = Match(i, k)
          OBVIOUS
        <5>2. Found = UNION {Of(i) : i \in J} OBVIOUS
        <5>3. J = Succeeded BY <2>3
        <5> HIDE DEF Of, J, Found, Match
        <5>4. \A m : m \in Found <=> \E i \in J : m \in Of(i) BY <5>2
        <5> QED BY <5>1, <5>3, <5>4
      <4> HIDE DEF Found, Match
      <4> QED BY <3>1, <4>1
    <3>3. \A m : m \in Yields(result, work, items, n) <=>
                   \E j \in 1..n : m \in Yield(work[result[j]], items[result[j]])
      BY Zenon DEF Yields
    <3>4. \A m, i : m \in Yield(work[i], items[i]) <=>
                      /\ \E k \in 1..Len(work[i].suspects) : m = Match(i, k)
                      /\ m.confidence >= minConfidence
      BY Zenon DEF Yield, Above, MatchOf
    <3> HIDE DEF Over, Match
    <3>5. \A j \in 1..n : result[j] \in Succeeded BY <2>2
    <3>6. \A m : m \in Yields(result, work, items, n) <=>
                   \E i \in Succeeded : m \in Yield(work[i], items[i])
      BY <2>2, <3>3, <3>5, Zenon
    <3>7. \A m : m \in Yields(result, work, items, n) <=> m \in Over
      BY <3>2, <3>4, <3>6, Zenon
    <3> QED BY <3>7
  <2>7. bySuspect = Best(Over) BY <2>5, <2>6
  <2> QED BY <2>7 DEF BestMatchPerSuspect, Best
<1> QED BY <1>1, ReportInvariant, PTL
=============================================================================
