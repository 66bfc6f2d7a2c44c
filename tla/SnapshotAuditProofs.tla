------------------------- MODULE SnapshotAuditProofs -------------------------
(***************************************************************************)
(* Proofs about SnapshotAudit, for any links, days, number of commits and  *)
(* of edits.                                                               *)
(*                                                                         *)
(*   1. the score: what accumulating a finite set of findings comes to     *)
(*   2. what the rules find, and what the gate makes of it                 *)
(*   3. the scores of what is found                                        *)
(*   4. what a scan has when it evaluates: AuditInv is inductive           *)
(*   5. the verdict                                                        *)
(*   6. failed fetches                                                     *)
(*   7. more evidence                                                      *)
(*                                                                         *)
(* A fold over a finite set is unfolded by the smallest counterexample     *)
(* (MinimalSet), which stands in for induction.                            *)
(***************************************************************************)
EXTENDS SnapshotAudit, FiniteSetTheorems, TLAPS

-----------------------------------------------------------------------------
(* 1. The score *)

\* Induction over the subsets of a finite set: among those that are no
\* exception there is a smallest one.
LEMMA MinimalSet ==
  ASSUME NEW S, IsFiniteSet(S), NEW F \in SUBSET SUBSET S, F # {}
  PROVE  \E T \in F : \A U \in F : U \subseteq T => U = T
<1>1. IsWellFoundedOn(StrictSubsetOrdering(S), FiniteSubsetsOf(S))
  BY FS_StrictSubsetOrderingWellFounded
<1>2. FiniteSubsetsOf(S) = SUBSET S BY FS_FiniteSubsetsOfFinite
<1>3. PICK T \in F : \A U \in F : <<U, T>> \notin StrictSubsetOrdering(S)
  BY <1>1, <1>2, WFMin
<1>4. ASSUME NEW U \in F, U \subseteq T PROVE U = T
  BY <1>3, <1>4 DEF StrictSubsetOrdering
<1> QED BY <1>4

\* The recursion of Remaining, over the subsets of S.
Some(s) == CHOOSE x \in s : TRUE
Less(left, f) == (left * (100 - f.weight)) \div 100
Accumulates(h, S) ==
  h = [s \in SUBSET S |-> IF s = {} THEN Whole ELSE Less(h[s \ {Some(s)}], Some(s))]

LEMMA RemainingIs == ASSUME NEW S PROVE Remaining(S) = (CHOOSE h : Accumulates(h, S))[S]
BY DEF Remaining, FoldSet, MapThenFoldSet, Accumulates, Some, Less

LEMMA SomeIsIn == ASSUME NEW s, s # {} PROVE Some(s) \in s
BY DEF Some

\* There is one such function at most.
LEMMA AccumulateAlike ==
  ASSUME NEW S, IsFiniteSet(S), NEW T \in SUBSET S, NEW g, NEW h,
         Accumulates(g, S), Accumulates(h, T)
  PROVE  \A s \in SUBSET T : g[s] = h[s]
<1> DEFINE F == {s \in SUBSET T : g[s] # h[s]}
<1> SUFFICES ASSUME F # {} PROVE FALSE
  OBVIOUS
<1>1. F \in SUBSET SUBSET S OBVIOUS
<1>2. PICK s \in F : \A u \in F : u \subseteq s => u = s
  <2> HIDE DEF F
  <2> QED BY <1>1, MinimalSet
<1>3. s \in SUBSET T /\ s \in SUBSET S OBVIOUS
<1>4. g[s] = (IF s = {} THEN Whole ELSE Less(g[s \ {Some(s)}], Some(s)))
  BY <1>3 DEF Accumulates
<1>5. h[s] = (IF s = {} THEN Whole ELSE Less(h[s \ {Some(s)}], Some(s)))
  BY <1>3 DEF Accumulates
<1>6. CASE s = {} BY <1>4, <1>5, <1>6
<1>7. CASE s # {}
  <2>1. s \ {Some(s)} \in SUBSET T /\ s \ {Some(s)} # s BY <1>7, SomeIsIn
  <2>2. g[s \ {Some(s)}] = h[s \ {Some(s)}] BY <2>1, <1>2
  <2> QED BY <1>4, <1>5, <2>2
<1> QED BY <1>6, <1>7

\* And there is one.
LEMMA Accumulated ==
  ASSUME NEW S, IsFiniteSet(S)
  PROVE  \E h : Accumulates(h, S)
<1> DEFINE F == {T \in SUBSET S : ~ \E h : Accumulates(h, T)}
<1> SUFFICES ASSUME F # {} PROVE FALSE
  OBVIOUS
<1>1. PICK T \in F : \A U \in F : U \subseteq T => U = T
  <2>1. F \in SUBSET SUBSET S OBVIOUS
  <2> HIDE DEF F
  <2> QED BY <2>1, MinimalSet
<1>2. \A U \in SUBSET T : U # T => \E h : Accumulates(h, U) BY <1>1
<1> DEFINE of(U) == CHOOSE h : Accumulates(h, U)
           below(s) == of(s \ {Some(s)})[s \ {Some(s)}]
           g == [s \in SUBSET T |-> IF s = {} THEN Whole ELSE Less(below(s), Some(s))]
<1>3. ASSUME NEW s \in SUBSET T, s # {} PROVE g[s \ {Some(s)}] = below(s)
  <2> DEFINE u == s \ {Some(s)}
  <2>1. u \in SUBSET T /\ u # T BY <1>3, SomeIsIn
  <2>2. Accumulates(of(u), u) BY <2>1, <1>2
  <2>3. of(u)[u] = IF u = {} THEN Whole ELSE Less(of(u)[u \ {Some(u)}], Some(u))
    <3> HIDE DEF of, u
    <3> QED BY <2>2 DEF Accumulates
  <2>4. ASSUME u # {} PROVE of(u)[u \ {Some(u)}] = of(u \ {Some(u)})[u \ {Some(u)}]
    <3> DEFINE v == u \ {Some(u)}
    <3>1. v \in SUBSET T /\ v # T /\ v \in SUBSET u BY <2>1, <2>4, SomeIsIn
    <3>2. Accumulates(of(v), v) BY <3>1, <1>2
    <3>3. IsFiniteSet(u) BY <2>1, <1>1, FS_Subset
    <3> HIDE DEF of, u, v
    <3>4. \A s_1 \in SUBSET v : of(u)[s_1] = of(v)[s_1]
      BY <2>2, <3>1, <3>2, <3>3, AccumulateAlike
    <3>5. of(u)[v] = of(v)[v] BY <3>4
    <3> QED BY <3>5 DEF v
  <2>5. g[u] = IF u = {} THEN Whole ELSE Less(below(u), Some(u)) BY <2>1
  <2> QED BY <2>3, <2>4, <2>5
<1>4. g = [s \in SUBSET T |-> IF s = {} THEN Whole ELSE Less(g[s \ {Some(s)}], Some(s))]
  <2>1. ASSUME NEW s \in SUBSET T
        PROVE  (IF s = {} THEN Whole ELSE Less(below(s), Some(s)))
                 = (IF s = {} THEN Whole ELSE Less(g[s \ {Some(s)}], Some(s)))
    <3>1. CASE s = {} BY <3>1
    <3>2. CASE s # {}
      <4>1. g[s \ {Some(s)}] = below(s) BY <1>3, <3>2
      <4> HIDE DEF g, below
      <4> QED BY <4>1
    <3> QED BY <3>1, <3>2
  <2> HIDE DEF below
  <2> QED BY <2>1
<1>5. Accumulates(g, T)
  <2> HIDE DEF g
  <2> QED BY <1>4 DEF Accumulates
<1> QED BY <1>5

\* What is left after the findings of S is what one of them takes from what
\* the others leave.
LEMMA RemainingStep ==
  ASSUME NEW S, IsFiniteSet(S)
  PROVE  /\ Remaining({}) = Whole
         /\ S # {} => \E f \in S : Remaining(S) = Less(Remaining(S \ {f}), f)
<1> DEFINE of(U) == CHOOSE h : Accumulates(h, U)
<1>1. \A T \in SUBSET S : IsFiniteSet(T) /\ Accumulates(of(T), T)
  BY FS_Subset, Accumulated
<1> HIDE DEF of
<1>2. \A T : Remaining(T) = of(T)[T] BY RemainingIs DEF of
<1>3. \A T \in SUBSET S : 
        of(T)[T] = IF T = {} THEN Whole ELSE Less(of(T)[T \ {Some(T)}], Some(T))
  BY <1>1 DEF Accumulates
<1>4. Remaining({}) = Whole BY <1>2, <1>3
<1>5. ASSUME S # {} PROVE \E f \in S : Remaining(S) = Less(Remaining(S \ {f}), f)
  <2> DEFINE T == S \ {Some(S)}
  <2>1. Some(S) \in S BY <1>5, SomeIsIn
  <2>2. T \in SUBSET S OBVIOUS
  <2> HIDE DEF T
  <2>3. \A s \in SUBSET T : of(S)[s] = of(T)[s] BY <1>1, <2>2, AccumulateAlike
  <2>4. of(S)[T] = of(T)[T] BY <2>3
  <2>5. Remaining(S) = Less(Remaining(T), Some(S)) BY <1>2, <1>3, <1>5, <2>4 DEF T
  <2> QED BY <2>1, <2>5 DEF T
<1> QED BY <1>4, <1>5

\* A finding, as far as the score looks at it.
RepoIds == PAYLOAD_FINDING_IDS \cup TAMPERING_FINDING_IDS \cup {"not-fork-but-duplicate"}
Graded == [id : RepoIds, severity : Severities, weight : 0..100]

LEMMA WholeIs == Whole \in Nat
BY SMT DEF Whole, Point

LEMMA LessIs ==
  ASSUME NEW n \in Nat, NEW f \in Graded
  PROVE  /\ Less(n, f) \in Nat /\ Less(n, f) <= n
         /\ n * (100 - f.weight) \in Nat
         /\ 100 * Less(n, f) <= n * (100 - f.weight)
         /\ n * (100 - f.weight) <= 100 * Less(n, f) + 99
<1>1. PICK k \in 0..100 : k = 100 - f.weight BY DEF Graded
<1>2. n * k \in Nat /\ n * k <= n * 100 BY <1>1
<1>3. \A m \in Nat : m \div 100 \in Nat /\ 100 * (m \div 100) <= m /\ m <= 100 * (m \div 100) + 99
  OBVIOUS
<1>4. Less(n, f) = (n * k) \div 100 BY <1>1 DEF Less
<1> QED BY <1>1, <1>2, <1>3, <1>4

LEMMA RemainingBounds ==
  ASSUME NEW S \in SUBSET Graded, IsFiniteSet(S)
  PROVE  Remaining(S) \in 0..Whole
<1> DEFINE F == {T \in SUBSET S : Remaining(T) \notin 0..Whole}
<1> SUFFICES ASSUME F # {} PROVE FALSE
  OBVIOUS
<1>1. PICK T \in F : \A U \in F : U \subseteq T => U = T
  <2>1. F \in SUBSET SUBSET S OBVIOUS
  <2> HIDE DEF F
  <2> QED BY <2>1, MinimalSet
<1>2. IsFiniteSet(T) BY FS_Subset
<1>3. Whole \in Nat BY WholeIs
<1>4. CASE T = {} BY <1>2, <1>3, <1>4, RemainingStep
<1>5. CASE T # {}
  <2>1. PICK f \in T : Remaining(T) = Less(Remaining(T \ {f}), f)
    BY <1>2, <1>5, RemainingStep
  <2>2. Remaining(T \ {f}) \in 0..Whole
    <3>1. T \ {f} \notin F BY <1>1
    <3> QED BY <3>1
  <2> QED BY <1>3, <2>1, <2>2, LessIs
<1> QED BY <1>4, <1>5

\* Each finding takes its share, whatever the order.
LEMMA ShareIsTaken ==
  ASSUME NEW S \in SUBSET Graded, IsFiniteSet(S), NEW g \in S
  PROVE  100 * Remaining(S) <= Whole * (100 - g.weight)
<1> DEFINE F == {T \in SUBSET S : g \in T /\ ~(100 * Remaining(T) <= Whole * (100 - g.weight))}
<1> SUFFICES ASSUME F # {} PROVE FALSE
  OBVIOUS
<1>1. PICK T \in F : \A U \in F : U \subseteq T => U = T
  <2>1. F \in SUBSET SUBSET S OBVIOUS
  <2> HIDE DEF F
  <2> QED BY <2>1, MinimalSet
<1>2. IsFiniteSet(T) /\ T # {} BY FS_Subset
<1>3. PICK f \in T : Remaining(T) = Less(Remaining(T \ {f}), f)
  BY <1>2, RemainingStep
<1>4. Remaining(T \ {f}) \in 0..Whole BY <1>2, FS_Subset, RemainingBounds
<1>5. Whole \in Nat BY WholeIs
<1>6. CASE f = g
  <2>1. PICK k \in 0..100 : k = 100 - g.weight BY DEF Graded
  <2>2. \A n \in 0..Whole : n * k <= Whole * k BY <1>5, <2>1
  <2>3. 100 * Remaining(T) <= Remaining(T \ {f}) * k BY <1>3, <1>4, <1>5, <1>6, <2>1, LessIs
  <2> QED BY <1>4, <1>5, <1>6, <2>1, <2>2, <2>3, LessIs, <1>3
<1>7. CASE f # g
  <2>1. T \ {f} \notin F BY <1>1
  <2>2. 100 * Remaining(T \ {f}) <= Whole * (100 - g.weight) BY <1>7, <2>1
  <2>3. Remaining(T) \in Nat /\ Remaining(T) <= Remaining(T \ {f}) BY <1>3, <1>4, <1>5, LessIs
  <2>4. Whole * (100 - g.weight) \in Int BY <1>5 DEF Graded
  <2> QED BY <1>4, <1>5, <2>2, <2>3, <2>4
<1> QED BY <1>6, <1>7

\* The largest of finitely many numbers.
LEMMA LargestIs ==
  ASSUME NEW S, IsFiniteSet(S), \A x \in S : x \in Int, S # {}
  PROVE  LargestOf(S) \in S /\ \A x \in S : x <= LargestOf(S)
<1> DEFINE Has(T) == \E m \in T : \A x \in T : x <= m
           F == {T \in SUBSET S : T # {} /\ ~Has(T)}
<1>1. Has(S)
  <2> SUFFICES ASSUME F # {} PROVE FALSE
    OBVIOUS
  <2>1. PICK T \in F : \A U \in F : U \subseteq T => U = T
    <3>1. F \in SUBSET SUBSET S OBVIOUS
    <3> HIDE DEF F
    <3> QED BY <3>1, MinimalSet
  <2>2. PICK x \in T : TRUE OBVIOUS
  <2>3. CASE T \ {x} = {}
    <3>1. T = {x} BY <2>3
    <3> QED BY <2>1, <3>1
  <2>4. CASE T \ {x} # {}
    <3>1. T \ {x} \notin F BY <2>1, <2>2
    <3>2. PICK m \in T \ {x} : \A y \in T \ {x} : y <= m BY <2>4, <3>1
    <3>3. CASE m <= x
      <4>1. \A y \in T : y <= x BY <3>2, <3>3
      <4> QED BY <2>1, <2>2, <4>1
    <3>4. CASE ~(m <= x)
      <4>1. \A y \in T : y <= m BY <3>2, <3>4
      <4> QED BY <2>1, <4>1
    <3> QED BY <3>3, <3>4
  <2> QED BY <2>3, <2>4
<1> QED BY <1>1 DEF LargestOf

LEMMA RoundingIs ==
  ASSUME NEW r \in Int, 0 <= r, r <= Whole
  PROVE  RoundedDiv(Whole - r, Point) \in 0..100
<1>1. Whole = 10000000 /\ Point = 100000 BY SMT DEF Whole, Point
<1> DEFINE n == 10000000 - r
           q == (2 * n + 100000) \div 200000
<1>2. n \in Int /\ 0 <= n /\ n <= 10000000 BY <1>1, SMT
<1>3. RoundedDiv(Whole - r, Point) = q BY <1>1, SMT DEF RoundedDiv
<1> HIDE DEF n
<1>4. q \in Int /\ 0 <= q /\ q <= 100 BY <1>2, SMT
<1> HIDE DEF q
<1> QED BY <1>3, <1>4

LEMMA PercentIsFinite == IsFiniteSet(0..100)
<1>1. 0 \in Int /\ 100 \in Int OBVIOUS
<1> QED BY <1>1, FS_Interval

\* A score is the accumulation or the floor of a finding, whichever is larger.
LEMMA ScoreIs ==
  ASSUME NEW S \in SUBSET Graded, IsFiniteSet(S)
  PROVE  LET accumulated == RoundedDiv(Whole - Remaining(S), Point) IN
         /\ accumulated \in 0..100
         /\ scoreFromFindings(S) \in 0..100
         /\ accumulated <= scoreFromFindings(S)
         /\ \A f \in S : SEVERITY_FLOOR[f.severity] <= scoreFromFindings(S)
         /\ \/ scoreFromFindings(S) \in {0, accumulated}
            \/ \E f \in S : scoreFromFindings(S) = SEVERITY_FLOOR[f.severity]
<1> DEFINE acc == RoundedDiv(Whole - Remaining(S), Point)
           floors == {0} \cup {SEVERITY_FLOOR[f.severity] : f \in S}
           floor == LargestOf(floors)
<1>1. acc \in 0..100
  <2>1. Remaining(S) \in Int /\ 0 <= Remaining(S) /\ Remaining(S) <= Whole
    BY RemainingBounds, WholeIs
  <2> QED BY <2>1, RoundingIs
<1>2. floors \subseteq 0..100 /\ floors # {}
  BY SMT DEF Graded, Severities, SEVERITY_FLOOR
<1>3. IsFiniteSet(floors)
  <2> HIDE DEF floors
  <2> QED BY <1>2, PercentIsFinite, FS_Subset
<1>4. floor \in floors /\ \A x \in floors : x <= floor
  <2> HIDE DEF floors
  <2>1. \A x \in floors : x \in Int BY <1>2
  <2> QED BY <1>2, <1>3, <2>1, LargestIs
<1>5. scoreFromFindings(S) = LargestOf({floor, acc}) BY DEF scoreFromFindings
<1>6. /\ LargestOf({floor, acc}) \in {floor, acc}
      /\ \A x \in {floor, acc} : x <= LargestOf({floor, acc})
  <2> HIDE DEF acc, floor
  <2>1. \A x \in {floor, acc} : x \in Int BY <1>1, <1>2, <1>4
  <2>2. IsFiniteSet({floor, acc})
    <3>1. IsFiniteSet({floor}) BY FS_Singleton
    <3>2. IsFiniteSet({floor} \cup {acc}) BY <3>1, FS_AddElement
    <3>3. {floor} \cup {acc} = {floor, acc} OBVIOUS
    <3> QED BY <3>2, <3>3
  <2> QED BY <2>1, <2>2, LargestIs
<1>7. floor \in 0..100 /\ floor <= LargestOf({floor, acc}) /\ acc <= LargestOf({floor, acc})
  BY <1>2, <1>4, <1>6
<1>8. \A f \in S : SEVERITY_FLOOR[f.severity] \in floors OBVIOUS
<1>9. \A f \in S : SEVERITY_FLOOR[f.severity] <= floor /\ SEVERITY_FLOOR[f.severity] \in 0..100
  <2> HIDE DEF floors, floor
  <2> QED BY <1>2, <1>4, <1>8
<1>10. scoreFromFindings(S) \in 0..100
  BY <1>1, <1>5, <1>6, <1>7
<1>11. floor = 0 \/ \E f \in S : floor = SEVERITY_FLOOR[f.severity]
  <2> HIDE DEF floor
  <2> QED BY <1>4
<1>12. scoreFromFindings(S) = floor \/ scoreFromFindings(S) = acc BY <1>5, <1>6
<1> HIDE DEF acc, floor, floors
<1>13. \A f \in S : SEVERITY_FLOOR[f.severity] <= scoreFromFindings(S)
  BY <1>5, <1>7, <1>9, <1>10
<1> QED BY <1>1, <1>5, <1>7, <1>10, <1>11, <1>12, <1>13 DEF acc

LEMMA NoScore == scoreFromFindings({}) = 0
<1>1. IsFiniteSet({}) BY FS_EmptySet
<1>2. Remaining({}) = Whole BY <1>1, RemainingStep
<1>3. RoundedDiv(Whole - Remaining({}), Point) = 0 BY <1>2, SMT DEF RoundedDiv, Whole, Point
<1> QED BY <1>1, <1>3, ScoreIs

-----------------------------------------------------------------------------
(* 2. The findings *)

\* What the rules may find, with the numbers of constants.ts.
Payload ==
  Finding("readme-references-archive", "medium", 18)
  \cup Finding("readme-download-badge", "high", 22)
  \cup Finding("readme-password-archive", "critical", 28)
  \cup Finding("readme-url-shortener", "high", 16)
  \cup Finding("readme-download-lure", "high", 14)
  \cup Finding("suspicious-release-asset", "critical", 34)
  \cup Finding("suspicious-release-asset", "medium", 12)
  \cup Finding("suspicious-tree-payload", "critical", 30)
  \cup Finding("archive-buried-deep", "medium", 18)

Tampering ==
  Finding("latest-commit-only-readme", "high", 26)
  \cup Finding("trivial-readme-commit-message", "medium", 16)
  \cup Finding("stale-code-fresh-readme", "high", 20)
  \cup Finding("cloned-history-single-pusher", "medium", 18)

Mention == Finding("readme-references-archive", "low", 4)
Copy == Finding("not-fork-but-duplicate", "medium", 12)

\* Tampering as the gate leaves it.
Lowered ==
  Finding("latest-commit-only-readme", "low", 7)
  \cup Finding("trivial-readme-commit-message", "low", 4)
  \cup Finding("stale-code-fresh-readme", "low", 5)
  \cup Finding("cloned-history-single-pusher", "low", 5)

Raw == Payload \cup Tampering \cup Mention \cup Copy
Table == Raw \cup Lowered

LEMMA TableIsGraded == Table \in SUBSET Graded
<1>1. \A id \in RepoIds, s \in Severities, w \in 0..100 : Finding(id, s, w) \subseteq Graded
  BY DEF Finding, Graded
<1>2. {"critical", "high", "medium", "low"} \subseteq Severities BY DEF Severities
<1>3. {4, 5, 7, 12, 14, 16, 18, 20, 22, 26, 28, 30, 34} \subseteq 0..100 OBVIOUS
<1>4. Payload \cup Mention \subseteq Graded
  <2>1. PAYLOAD_FINDING_IDS \subseteq RepoIds BY DEF RepoIds
  <2> QED BY <1>1, <1>2, <1>3, <2>1 DEF Payload, Mention, PAYLOAD_FINDING_IDS
<1>5. Tampering \cup Lowered \subseteq Graded
  <2>1. TAMPERING_FINDING_IDS \subseteq RepoIds BY DEF RepoIds
  <2> QED BY <1>1, <1>2, <1>3, <2>1 DEF Tampering, Lowered, TAMPERING_FINDING_IDS
<1>6. Copy \subseteq Graded
  <2>1. "not-fork-but-duplicate" \in RepoIds BY DEF RepoIds
  <2> QED BY <1>1, <1>2, <1>3, <2>1 DEF Copy
<1> QED BY <1>4, <1>5, <1>6 DEF Table, Raw

LEMMA TableIsFinite == IsFiniteSet(Table)
<1>1. \A id, severity, weight : IsFiniteSet(Finding(id, severity, weight))
  BY FS_Singleton DEF Finding
<1>2. \A S, T : IsFiniteSet(S) /\ IsFiniteSet(T) => IsFiniteSet(S \cup T) BY FS_Union
<1>3. IsFiniteSet(Payload) BY <1>1, <1>2 DEF Payload
<1>4. IsFiniteSet(Tampering) BY <1>1, <1>2 DEF Tampering
<1>5. IsFiniteSet(Lowered) BY <1>1, <1>2 DEF Lowered
<1>6. IsFiniteSet(Mention) /\ IsFiniteSet(Copy) BY <1>1 DEF Mention, Copy
<1> QED BY <1>2, <1>3, <1>4, <1>5, <1>6 DEF Table, Raw

LEMMA RulesFind ==
  ASSUME NEW R, NEW d
  PROVE  /\ REPO_RULES(R, d) \subseteq Raw
         /\ ~d => REPO_RULES(R, d) \cap Copy = {}
<1> DEFINE Own == Payload \cup Tampering \cup Mention
<1>1. readmeReferencesArchive(R) \subseteq Own
  BY DEF readmeReferencesArchive, WEIGHTS, NoFinding, Payload, Mention
<1>2. readmeDownloadBadgeToArchive(R) \subseteq Own
  BY DEF readmeDownloadBadgeToArchive, WEIGHTS, NoFinding, Payload
<1>3. readmePasswordProtectedArchive(R) \subseteq Own
  BY DEF readmePasswordProtectedArchive, WEIGHTS, NoFinding, Payload
<1>4. readmeUrlShortener(R) \subseteq Own
  BY DEF readmeUrlShortener, WEIGHTS, NoFinding, Payload
<1>5. readmeDownloadLure(R) \subseteq Own
  BY DEF readmeDownloadLure, WEIGHTS, NoFinding, Payload
<1>6. latestCommitOnlyReadme(R) \subseteq Own
  BY DEF latestCommitOnlyReadme, WEIGHTS, NoFinding, Tampering
<1>7. trivialReadmeCommitMessage(R) \subseteq Own
  BY DEF trivialReadmeCommitMessage, WEIGHTS, NoFinding, Tampering
<1>8. staleCodeFreshReadme(R) \subseteq Own
  BY DEF staleCodeFreshReadme, WEIGHTS, NoFinding, Tampering
<1>9. clonedHistorySinglePusher(R) \subseteq Own
  BY DEF clonedHistorySinglePusher, WEIGHTS, NoFinding, Tampering
<1>10. suspiciousReleaseAsset(R) \subseteq Own
  BY DEF suspiciousReleaseAsset, WEIGHTS, NoFinding, Payload
<1>11. suspiciousTreePayload(R) \subseteq Own
  BY DEF suspiciousTreePayload, WEIGHTS, NoFinding, Payload
<1>12. archiveBuriedDeep(R) \subseteq Own
  BY DEF archiveBuriedDeep, WEIGHTS, NoFinding, Payload
<1>13. notForkButDuplicateName(R, d) \subseteq Copy
  BY DEF notForkButDuplicateName, WEIGHTS, NoFinding, Copy
<1>14. ~d => notForkButDuplicateName(R, d) = {}
  BY DEF notForkButDuplicateName, NoFinding
<1>15. Own \cap Copy = {}
  BY DEF Payload, Tampering, Mention, Copy, Finding
<1>16. REPO_RULES(R, d) \subseteq Own \cup notForkButDuplicateName(R, d)
  <2> HIDE DEF Own
  <2> QED
    BY <1>1, <1>2, <1>3, <1>4, <1>5, <1>6, <1>7, <1>8, <1>9, <1>10, <1>11, <1>12
    DEF REPO_RULES
<1> QED BY <1>13, <1>14, <1>15, <1>16 DEF Raw

\* The gate: tampering counts in full exactly with a payload.
IsPayload(f) == f.id \in PAYLOAD_FINDING_IDS /\ f.severity \notin {"low", "info"}

LEMMA RawIs ==
  \A f \in Raw : /\ f \in Payload \/ f \in Tampering \/ f \in Mention \/ f \in Copy
                 /\ f \in Payload <=> IsPayload(f)
                 /\ f.id \in TAMPERING_FINDING_IDS <=> f \in Tampering
                 /\ (f.id \in PAYLOAD_FINDING_IDS /\ SEVERITY_RANK[f.severity] <= SEVERITY_RANK.medium)
                      <=> f \in Payload
<1>1. \A f \in Payload :
        /\ IsPayload(f) /\ f.id \notin TAMPERING_FINDING_IDS
        /\ f.id \in PAYLOAD_FINDING_IDS /\ SEVERITY_RANK[f.severity] <= SEVERITY_RANK.medium
  BY DEF Payload, Finding, IsPayload, PAYLOAD_FINDING_IDS, TAMPERING_FINDING_IDS, SEVERITY_RANK
<1>2. \A f \in Tampering :
        f.id \in TAMPERING_FINDING_IDS /\ f.id \notin PAYLOAD_FINDING_IDS
  BY DEF Tampering, Finding, PAYLOAD_FINDING_IDS, TAMPERING_FINDING_IDS
<1>3. \A f \in Mention :
        /\ f.id \notin TAMPERING_FINDING_IDS /\ f.severity = "low"
        /\ ~(SEVERITY_RANK[f.severity] <= SEVERITY_RANK.medium)
  BY DEF Mention, Finding, TAMPERING_FINDING_IDS, SEVERITY_RANK
<1>4. \A f \in Copy : f.id \notin TAMPERING_FINDING_IDS /\ f.id \notin PAYLOAD_FINDING_IDS
  BY DEF Copy, Finding, PAYLOAD_FINDING_IDS, TAMPERING_FINDING_IDS
<1> QED BY <1>1, <1>2, <1>3, <1>4 DEF Raw, IsPayload

LEMMA DemotedIs ==
  \A f \in Tampering : /\ demoteTampering(f) \in Lowered
                       /\ demoteTampering(f).id = f.id
                       /\ demoteTampering(f).weight <= f.weight
<1>1. /\ RoundedDiv(26, 4) = 7 /\ RoundedDiv(16, 4) = 4
      /\ RoundedDiv(20, 4) = 5 /\ RoundedDiv(18, 4) = 5
  BY DEF RoundedDiv
<1>2. ASSUME NEW id, NEW s, NEW w, NEW f \in Finding(id, s, w)
      PROVE  /\ demoteTampering(f) = [id |-> id, severity |-> "low", weight |-> RoundedDiv(w, 4)]
             /\ f.id = id /\ f.weight = w
  <2>1. f = [id |-> id, severity |-> s, weight |-> w] BY DEF Finding
  <2> DEFINE g == [f EXCEPT !.severity = "low"]
  <2>2. demoteTampering(f) = [g EXCEPT !.weight = RoundedDiv(f.weight, 4)]
    BY DEF demoteTampering
  <2>3. g = [id |-> id, severity |-> "low", weight |-> w] BY <2>1
  <2> HIDE DEF g
  <2>4. [g EXCEPT !.weight = RoundedDiv(w, 4)]
          = [id |-> id, severity |-> "low", weight |-> RoundedDiv(w, 4)]
    BY <2>3
  <2> QED BY <2>1, <2>2, <2>4
<1>3. ASSUME NEW id, NEW s, NEW w, NEW v, RoundedDiv(w, 4) = v, v <= w,
             NEW f \in Finding(id, s, w)
      PROVE  /\ demoteTampering(f) \in Finding(id, "low", v)
             /\ demoteTampering(f).id = f.id
             /\ demoteTampering(f).weight <= f.weight
  <2>1. demoteTampering(f) = [id |-> id, severity |-> "low", weight |-> v] BY <1>2, <1>3
  <2>2. demoteTampering(f).id = id /\ demoteTampering(f).weight = v BY <2>1
  <2> QED BY <1>2, <1>3, <2>1, <2>2 DEF Finding
<1> DEFINE Sinks(f) == /\ demoteTampering(f) \in Lowered
                       /\ demoteTampering(f).id = f.id
                       /\ demoteTampering(f).weight <= f.weight
<1>4. \A f \in Finding("latest-commit-only-readme", "high", 26) : Sinks(f)
  BY <1>1, <1>3 DEF Lowered
<1>5. \A f \in Finding("trivial-readme-commit-message", "medium", 16) : Sinks(f)
  BY <1>1, <1>3 DEF Lowered
<1>6. \A f \in Finding("stale-code-fresh-readme", "high", 20) : Sinks(f)
  BY <1>1, <1>3 DEF Lowered
<1>7. \A f \in Finding("cloned-history-single-pusher", "medium", 18) : Sinks(f)
  BY <1>1, <1>3 DEF Lowered
<1> QED BY <1>4, <1>5, <1>6, <1>7 DEF Tampering

LEMMA GateIs ==
  ASSUME NEW R, NEW d
  PROVE  LET raw == REPO_RULES(R, d) IN
         /\ raw \cap Payload # {} => FindingsOf(R, d) = raw
         /\ raw \cap Payload = {} =>
              FindingsOf(R, d) = (raw \ Tampering) \cup {demoteTampering(f) : f \in raw \cap Tampering}
<1> DEFINE raw == REPO_RULES(R, d)
<1>1. raw \subseteq Raw BY RulesFind
<1> HIDE DEF raw
<1>2. hasPayloadSignal(raw) <=> raw \cap Payload # {}
  BY <1>1, RawIs DEF hasPayloadSignal
<1>3. \A f \in raw : f.id \in TAMPERING_FINDING_IDS <=> f \in Tampering BY <1>1, RawIs
<1>4. raw \cap Payload = {} =>
        Gated(raw) = (raw \ Tampering) \cup {demoteTampering(f) : f \in raw \cap Tampering}
  BY <1>2, <1>3 DEF Gated
<1>5. raw \cap Payload # {} => Gated(raw) = raw BY <1>2 DEF Gated
<1> QED BY <1>4, <1>5 DEF FindingsOf, raw

LEMMA LoweredIs ==
  /\ \A f \in Lowered : f.severity = "low"
  /\ \A f \in Mention : f.severity = "low"
  /\ \A f \in Table : f \in Payload <=> IsPayload(f)
  /\ \A f \in Copy : f.id = "not-fork-but-duplicate"
<1>1. \A f \in Lowered : f.severity = "low" BY DEF Lowered, Finding
<1>2. \A f \in Mention : f.severity = "low" BY DEF Mention, Finding
<1>3. \A f \in Payload : f.severity # "low" BY DEF Payload, Finding
<1>4. \A f \in Lowered : ~IsPayload(f) BY <1>1 DEF IsPayload
<1>5. \A f \in Copy : f.id = "not-fork-but-duplicate" BY DEF Copy, Finding
<1> QED BY <1>1, <1>2, <1>3, <1>4, <1>5, RawIs DEF Table

\* Without a payload the repository's own findings are low.
LEMMA FindingsAre ==
  ASSUME NEW R, NEW d
  PROVE  LET S == FindingsOf(R, d) IN
         /\ S \in SUBSET Table /\ S \in SUBSET Graded /\ IsFiniteSet(S)
         /\ S \cap Payload = REPO_RULES(R, d) \cap Payload
         /\ S \cap Payload # {} => S = REPO_RULES(R, d) /\ S \subseteq Raw
         /\ S \cap Payload = {} => S \subseteq Lowered \cup Mention \cup Copy
         /\ ~d => S \cap Copy = {}
<1> DEFINE raw == REPO_RULES(R, d)
           S == FindingsOf(R, d)
<1>1. raw \subseteq Raw /\ (~d => raw \cap Copy = {}) BY RulesFind
<1>2. /\ raw \cap Payload # {} => S = raw
      /\ raw \cap Payload = {} =>
           S = (raw \ Tampering) \cup {demoteTampering(f) : f \in raw \cap Tampering}
  BY GateIs
<1>3. Lowered \cap Payload = {} /\ Lowered \cap Copy = {}
  <2>1. \A f \in Payload \cup Copy : f.severity # "low" BY DEF Payload, Copy, Finding
  <2> QED BY <2>1, LoweredIs
<1>4. {demoteTampering(f) : f \in raw \cap Tampering} \subseteq Lowered BY DemotedIs
<1> HIDE DEF raw, S
<1>5. CASE raw \cap Payload # {}
  <2>1. S = raw /\ S \subseteq Raw /\ S \subseteq Table BY <1>1, <1>2, <1>5 DEF Table
  <2> QED BY <1>1, <1>5, <2>1, TableIsGraded, TableIsFinite, FS_Subset DEF raw, S
<1>6. CASE raw \cap Payload = {}
  <2>1. S \subseteq Lowered \cup Mention \cup Copy /\ S \cap Payload = {}
    BY <1>1, <1>2, <1>3, <1>4, <1>6 DEF Raw
  <2>2. ~d => S \cap Copy = {} BY <1>1, <1>2, <1>3, <1>4, <1>6
  <2>3. S \subseteq Table BY <2>1 DEF Table, Raw
  <2> QED BY <1>6, <2>1, <2>2, <2>3, TableIsGraded, TableIsFinite, FS_Subset DEF raw, S
<1> QED BY <1>5, <1>6

-----------------------------------------------------------------------------
(* 3. The scores of what is found *)

LEMMA HalfIs == \A m \in 0..100 : RoundedDiv(m, 2) \in 0..50 /\ RoundedDiv(0, 2) = 0
BY DEF RoundedDiv

LEMMA MalwareIs ==
  ASSUME NEW r, NEW S \in SUBSET Graded, IsFiniteSet(S), r.findings = S
  PROVE  LET M == {f \in S : f.id # "not-fork-but-duplicate" /\ f.severity # "low"} IN
         malwareScore(r) = scoreFromFindings(M) /\ M \in SUBSET Graded /\ IsFiniteSet(M)
BY FS_Subset DEF malwareScore

LEMMA ConfidenceIs ==
  ASSUME NEW r, NEW s \in CloneSignals, malwareScore(r) \in 0..100
  PROVE  /\ cloneConfidence(r, s) \in 0..100
         /\ malwareScore(r) = 0 /\ ~s.sameDescription => cloneConfidence(r, s) < minConfidence
         /\ malwareScore(r) > 0 /\ ~s.suspectIsFork => cloneConfidence(r, s) >= minConfidence
<1> DEFINE m == malwareScore(r)
           sum == 25 + Points(s.sameDescription, 20) + Points(~s.suspectIsFork, 15)
                     + RoundedDiv(m, 2) + Points(s.fewerStars, 5)
<1>1. /\ Points(s.sameDescription, 20) \in {0, 20} /\ Points(s.fewerStars, 5) \in {0, 5}
      /\ Points(~s.suspectIsFork, 15) \in {0, 15}
      /\ ~s.suspectIsFork => Points(~s.suspectIsFork, 15) = 15
  BY DEF Points
<1>2. RoundedDiv(m, 2) \in 0..50 BY HalfIs
<1>3. sum \in 25..200 /\ (~s.suspectIsFork => sum >= 40) BY <1>1, <1>2
<1>4. cloneConfidence(r, s) =
        IF m = 0 /\ ~s.sameDescription /\ sum > 20 THEN 20 ELSE IF sum > 100 THEN 100 ELSE sum
  BY DEF cloneConfidence
<1> HIDE DEF m, sum
<1>5. minConfidence = 35 BY DEF minConfidence
<1> QED BY <1>3, <1>4, <1>5, SMT DEF m

LEMMA BandIs ==
  ASSUME NEW x \in 0..100
  PROVE  /\ x >= 45 => isFlagged(bandForScore(x))
         /\ x < 25 => bandForScore(x) \in {"safe", "low"}
<1> DEFINE B == {i \in DOMAIN BandMin : x >= BandMin[i]}
<1>1. /\ DOMAIN BandMin = 1..5
      /\ BandMin[1] = 0 /\ BandMin[2] = 10 /\ BandMin[3] = 25 /\ BandMin[4] = 45 /\ BandMin[5] = 70
  BY DEF BandMin
<1>2. B \subseteq 1..5 /\ 1 \in B BY <1>1
<1>3. bandRank(x) \in B /\ \A i \in B : i <= bandRank(x)
  <2>1. IsFiniteSet(1..5)
    <3>1. 1 \in Int /\ 5 \in Int OBVIOUS
    <3> QED BY <3>1, FS_Interval
  <2>2. bandRank(x) = LargestOf(B) BY DEF bandRank
  <2> HIDE DEF B
  <2>3. IsFiniteSet(B)
    <3>1. B \in SUBSET (1..5) BY <1>2
    <3> QED BY <2>1, <3>1, FS_Subset, Zenon
  <2>4. B # {} /\ \A i \in B : i \in Int BY <1>2
  <2> QED BY <2>2, <2>3, <2>4, LargestIs
<1> DEFINE k == bandRank(x)
<1>4. x >= 45 => bandRank(x) \in {4, 5}
  <2>1. x >= 45 => 4 \in B BY <1>1
  <2>2. k \in 1..5 /\ (4 \in B => 4 <= k)
    <3> HIDE DEF B, k
    <3> QED BY <1>2, <1>3 DEF k
  <2> HIDE DEF B, k
  <2> QED BY <2>1, <2>2 DEF k
<1>5. x < 25 => bandRank(x) \in {1, 2}
  <2>1. x < 25 => 3 \notin B /\ 4 \notin B /\ 5 \notin B BY <1>1
  <2>2. k \in 1..5 /\ k \in B
    <3> HIDE DEF B, k
    <3> QED BY <1>2, <1>3 DEF k
  <2> HIDE DEF B, k
  <2> QED BY <2>1, <2>2 DEF k
<1> QED BY <1>4, <1>5 DEF bandForScore, BAND_ORDER, isFlagged

\* Points of the score from what is left.
LEMMA PointsFrom ==
  ASSUME NEW S \in SUBSET Graded, IsFiniteSet(S)
  PROVE  LET accumulated == RoundedDiv(Whole - Remaining(S), Point) IN
         /\ Remaining(S) <= 8800000 => accumulated >= 12
         /\ Remaining(S) <= 5470080 => accumulated >= 45
         /\ Remaining(S) >= 7735214 => accumulated <= 23
<1> DEFINE r == Remaining(S)
           n == 10000000 - r
           q == (2 * n + 100000) \div 200000
<1>1. r \in Int /\ 0 <= r /\ r <= Whole BY RemainingBounds, WholeIs
<1> HIDE DEF r
<1>2. Whole = 10000000 /\ Point = 100000 BY SMT DEF Whole, Point
<1>3. n \in Int /\ 0 <= n /\ RoundedDiv(Whole - r, Point) = q BY <1>1, <1>2, SMT DEF RoundedDiv
<1>4. /\ r <= 8800000 => n >= 1200000
      /\ r <= 5470080 => n >= 4529920
      /\ r >= 7735214 => n <= 2264786
  BY <1>1, SMT
<1> HIDE DEF n
<1>5. /\ n >= 1200000 => q >= 12
      /\ n >= 4529920 => q >= 45
      /\ n <= 2264786 => q <= 23
  BY <1>3, SMT
<1> HIDE DEF q
<1> QED BY <1>3, <1>4, <1>5, SMT DEF r

\* A payload is malware, whatever else there is.
LEMMA PayloadWeighs ==
  \A f \in Payload : /\ f.weight \in 12..34 /\ f.severity # "low"
                     /\ f.id # "not-fork-but-duplicate"
                     /\ f.id \notin {"latest-commit-only-readme", "trivial-readme-commit-message"}
BY DEF Payload, Finding

LEMMA PayloadScores ==
  ASSUME NEW S \in SUBSET Graded, IsFiniteSet(S), NEW p \in S, p \in Payload
  PROVE  scoreFromFindings(S) > 0
<1>1. p.weight \in 12..34 BY PayloadWeighs
<1>2. 100 * Remaining(S) <= Whole * (100 - p.weight) BY ShareIsTaken
<1>3. Remaining(S) <= 8800000
  <2>1. Remaining(S) \in Nat BY RemainingBounds, WholeIs
  <2>2. PICK k \in 0..88 : k = 100 - p.weight BY <1>1
  <2>3. 100 * Remaining(S) <= 10000000 * k BY <1>2, <2>2, SMT DEF Whole, Point
  <2> QED BY <2>1, <2>2, <2>3, SMT
<1>4. RoundedDiv(Whole - Remaining(S), Point) >= 12 BY <1>3, PointsFrom
<1> QED BY <1>4, ScoreIs

\* The combination of the campaign: a README-only commit with a generic message
\* over the weakest payload comes to 45 points.
LEMMA ComboScores ==
  ASSUME NEW S \in SUBSET Graded, IsFiniteSet(S),
         NEW p \in S, p.weight \in 12..34,
         NEW l \in S, l.weight = 26,
         NEW t \in S, t.weight = 16,
         p # l, p # t
  PROVE  scoreFromFindings(S) >= 45
<1> DEFINE A(T) == IF p \in T THEN 88 ELSE 100
           B(T) == IF l \in T THEN 74 ELSE 100
           C(T) == IF t \in T THEN 84 ELSE 100
           Bound(T) == Remaining(T) <= 10 * (A(T) * B(T) * C(T))
           F == {T \in SUBSET S : ~Bound(T)}
<1>1. \A T : A(T) \in {88, 100} /\ B(T) \in {74, 100} /\ C(T) \in {84, 100} OBVIOUS
<1>2. F = {}
  <2> SUFFICES ASSUME F # {} PROVE FALSE
    OBVIOUS
  <2>1. PICK T \in F : \A U \in F : U \subseteq T => U = T
    <3>1. F \in SUBSET SUBSET S OBVIOUS
    <3> HIDE DEF F
    <3> QED BY <3>1, MinimalSet
  <2>2. IsFiniteSet(T) /\ T \in SUBSET S /\ T \in SUBSET Graded BY FS_Subset
  <2>3. T # {}
    <3>1. A({}) = 100 /\ B({}) = 100 /\ C({}) = 100 OBVIOUS
    <3>2. Remaining({}) = 10000000 BY <2>2, RemainingStep, SMT DEF Whole, Point
    <3> HIDE DEF A, B, C
    <3>3. Bound({}) BY <3>1, <3>2, SMT
    <3> QED BY <3>3
  <2>4. PICK f \in T : Remaining(T) = Less(Remaining(T \ {f}), f)
    BY <2>2, <2>3, RemainingStep
  <2> DEFINE U == T \ {f}
             r == Remaining(U)
  <2>5. Bound(U) BY <2>1
  <2>6. r \in Nat
    <3>1. U \in SUBSET Graded /\ IsFiniteSet(U) BY <2>2, FS_Subset
    <3> QED BY <3>1, RemainingBounds, WholeIs
  <2>7. /\ Remaining(T) \in Nat /\ Remaining(T) <= r
        /\ 100 * Remaining(T) <= r * (100 - f.weight)
    BY <2>2, <2>4, <2>6, LessIs
  <2>8. /\ f # p => A(U) = A(T)
        /\ f = p => A(U) = 100 /\ A(T) = 88
        /\ f # l => B(U) = B(T)
        /\ f = l => B(U) = 100 /\ B(T) = 74
        /\ f # t => C(U) = C(T)
        /\ f = t => C(U) = 100 /\ C(T) = 84
    OBVIOUS
  <2> DEFINE R == Remaining(T)
  <2>9. r <= 10 * (A(U) * B(U) * C(U)) BY <2>5
  <2>10. R <= 10 * (A(T) * B(T) * C(T))
    <3>1. l # t OBVIOUS
    <3> HIDE DEF A, B, C, U, r, R
    <3>2. CASE f = p
      <4>1. PICK w \in 0..88 : w = 100 - f.weight BY <3>2
      <4>2. 100 * R <= r * 88
        <5>1. r * w <= r * 88 BY <2>6, <4>1
        <5> QED BY <2>6, <2>7, <4>1, <5>1 DEF R
      <4>3. PICK k \in Nat : k = B(T) * C(T) BY <1>1
      <4>4. A(T) * B(T) * C(T) = 88 * k /\ A(U) * B(U) * C(U) = 100 * k
        BY <1>1, <2>8, <3>2, <4>3
      <4> QED BY <2>6, <2>7, <2>9, <4>2, <4>4 DEF R
    <3>3. CASE f = l
      <4>1. 100 * R <= r * 74 BY <2>7, <3>3 DEF R
      <4>2. PICK k \in Nat : k = A(T) * C(T) BY <1>1
      <4>3. A(T) * B(T) * C(T) = 74 * k /\ A(U) * B(U) * C(U) = 100 * k
        BY <1>1, <2>8, <3>1, <3>3, <4>2
      <4> QED BY <2>6, <2>7, <2>9, <4>1, <4>3 DEF R
    <3>4. CASE f = t
      <4>1. 100 * R <= r * 84 BY <2>7, <3>4 DEF R
      <4>2. PICK k \in Nat : k = A(T) * B(T) BY <1>1
      <4>3. A(T) * B(T) * C(T) = 84 * k /\ A(U) * B(U) * C(U) = 100 * k
        BY <1>1, <2>8, <3>1, <3>4, <4>2
      <4> QED BY <2>6, <2>7, <2>9, <4>1, <4>3 DEF R
    <3>5. CASE f \notin {p, l, t}
      BY <1>1, <2>6, <2>7, <2>8, <2>9, <3>5 DEF R
    <3> QED BY <3>2, <3>3, <3>4, <3>5
  <2> QED BY <2>10
<1>3. Bound(S) BY <1>2
<1>4. A(S) = 88 /\ B(S) = 74 /\ C(S) = 84 OBVIOUS
<1>5. Remaining(S) <= 5470080
  <2> HIDE DEF A, B, C
  <2> QED BY <1>3, <1>4, SMT
<1>6. RoundedDiv(Whole - Remaining(S), Point) >= 45 BY <1>5, PointsFrom
<1> QED BY <1>6, ScoreIs

\* What a finding of weight 100 - k leaves, with its rounding.
LEMMA RoundingCosts ==
  ASSUME NEW r \in Nat, NEW R \in Nat, NEW n \in Nat, NEW q \in Nat, NEW k \in {93, 95, 96},
         r * k <= 100 * R + 99, 1000 * r + 1000 * n >= 100 * q
  PROVE  1000 * R + 1000 * (n + 1) >= k * q
<1>1. CASE k = 93 BY <1>1, SMT
<1>2. CASE k = 95 BY <1>2, SMT
<1>3. CASE k = 96 BY <1>3, SMT
<1> QED BY <1>1, <1>2, <1>3

\* Maintenance at its worst, with all signs of tampering and a link to a release,
\* comes to 23 points.
LEMMA MaintenanceScores ==
  ASSUME NEW S \in SUBSET (Lowered \cup Mention), IsFiniteSet(S)
  PROVE  scoreFromFindings(S) <= 23
<1> DEFINE low(id, w) == [id |-> id, severity |-> "low", weight |-> w]
           a == low("latest-commit-only-readme", 7)
           b == low("trivial-readme-commit-message", 4)
           c == low("stale-code-fresh-readme", 5)
           d == low("cloned-history-single-pusher", 5)
           e == low("readme-references-archive", 4)
           A(T) == IF a \in T THEN 93 ELSE 100
           B(T) == IF b \in T THEN 96 ELSE 100
           C(T) == IF c \in T THEN 95 ELSE 100
           D(T) == IF d \in T THEN 95 ELSE 100
           E(T) == IF e \in T THEN 96 ELSE 100
           N(T, f) == IF f \in T THEN 1 ELSE 0
           n(T) == N(T, a) + N(T, b) + N(T, c) + N(T, d) + N(T, e)
           Bound(T) == 1000 * Remaining(T) + 1000 * n(T) >= A(T) * B(T) * C(T) * D(T) * E(T)
           F == {T \in SUBSET S : ~Bound(T)}
<1>1. \A f \in Lowered \cup Mention : f \in {a, b, c, d, e}
  BY DEF Lowered, Mention, Finding
<1>2. /\ a.weight = 7 /\ b.weight = 4 /\ c.weight = 5 /\ d.weight = 5 /\ e.weight = 4
      /\ a # b /\ a # c /\ a # d /\ a # e /\ b # c /\ b # d /\ b # e /\ c # d /\ c # e /\ d # e
  OBVIOUS
<1> HIDE DEF a, b, c, d, e
<1>3. S \in SUBSET Graded
  BY TableIsGraded DEF Table, Raw
<1>4. \A T : /\ A(T) \in {93, 100} /\ B(T) \in {96, 100} /\ C(T) \in {95, 100}
             /\ D(T) \in {95, 100} /\ E(T) \in {96, 100}
             /\ n(T) \in 0..5
  OBVIOUS
<1>5. F = {}
  <2> SUFFICES ASSUME F # {} PROVE FALSE
    OBVIOUS
  <2>1. PICK T \in F : \A U \in F : U \subseteq T => U = T
    <3>1. F \in SUBSET SUBSET S OBVIOUS
    <3> HIDE DEF F
    <3> QED BY <3>1, MinimalSet
  <2>2. IsFiniteSet(T) /\ T \in SUBSET S /\ T \in SUBSET Graded BY <1>3, FS_Subset
  <2>3. T # {}
    <3>1. /\ A({}) = 100 /\ B({}) = 100 /\ C({}) = 100 /\ D({}) = 100 /\ E({}) = 100
          /\ n({}) = 0
      OBVIOUS
    <3>2. Remaining({}) = 10000000 BY <2>2, RemainingStep, SMT DEF Whole, Point
    <3> HIDE DEF A, B, C, D, E, n
    <3>3. Bound({}) BY <3>1, <3>2, SMT
    <3> QED BY <3>3
  <2>4. PICK f \in T : Remaining(T) = Less(Remaining(T \ {f}), f)
    BY <2>2, <2>3, RemainingStep
  <2> DEFINE U == T \ {f}
             r == Remaining(U)
             R == Remaining(T)
  <2>5. Bound(U) BY <2>1
  <2>6. r \in Nat
    <3>1. U \in SUBSET Graded /\ IsFiniteSet(U) BY <2>2, FS_Subset
    <3> QED BY <3>1, RemainingBounds, WholeIs
  <2>7. R \in Nat /\ r * (100 - f.weight) <= 100 * R + 99
    BY <2>2, <2>4, <2>6, LessIs
  <2>8. f \in {a, b, c, d, e} BY <1>1, <2>1
  <2>9. n(T) = n(U) + 1 BY <1>2, <2>8
  <2>10. /\ f # a => A(U) = A(T)
         /\ f = a => A(U) = 100 /\ A(T) = 93
         /\ f # b => B(U) = B(T)
         /\ f = b => B(U) = 100 /\ B(T) = 96
         /\ f # c => C(U) = C(T)
         /\ f = c => C(U) = 100 /\ C(T) = 95
         /\ f # d => D(U) = D(T)
         /\ f = d => D(U) = 100 /\ D(T) = 95
         /\ f # e => E(U) = E(T)
         /\ f = e => E(U) = 100 /\ E(T) = 96
    OBVIOUS
  <2>11. n(U) \in Nat BY <1>4
  <2>12. \A k \in {93, 95, 96}, q \in Nat :
           /\ 100 - f.weight = k
           /\ A(U) * B(U) * C(U) * D(U) * E(U) = 100 * q
           /\ A(T) * B(T) * C(T) * D(T) * E(T) = k * q
           => Bound(T)
    <3>1. 1000 * r + 1000 * n(U) >= A(U) * B(U) * C(U) * D(U) * E(U) BY <2>5
    <3> HIDE DEF A, B, C, D, E, n, U, r, R
    <3> QED BY <2>6, <2>7, <2>9, <2>11, <3>1, RoundingCosts DEF R
  <2>13. Bound(T)
    <3> HIDE DEF A, B, C, D, E, n, U, r, R, Bound
    <3>1. CASE f = a
      <4>1. PICK q \in Nat : q = B(T) * C(T) * D(T) * E(T) BY <1>4
      <4>2. A(T) * B(T) * C(T) * D(T) * E(T) = 93 * q /\ A(U) * B(U) * C(U) * D(U) * E(U) = 100 * q
        BY <1>2, <1>4, <2>10, <3>1, <4>1
      <4> QED BY <1>2, <2>12, <3>1, <4>2
    <3>2. CASE f = b
      <4>1. PICK q \in Nat : q = A(T) * C(T) * D(T) * E(T) BY <1>4
      <4>2. A(T) * B(T) * C(T) * D(T) * E(T) = 96 * q /\ A(U) * B(U) * C(U) * D(U) * E(U) = 100 * q
        BY <1>2, <1>4, <2>10, <3>2, <4>1
      <4> QED BY <1>2, <2>12, <3>2, <4>2
    <3>3. CASE f = c
      <4>1. PICK q \in Nat : q = A(T) * B(T) * D(T) * E(T) BY <1>4
      <4>2. A(T) * B(T) * C(T) * D(T) * E(T) = 95 * q /\ A(U) * B(U) * C(U) * D(U) * E(U) = 100 * q
        BY <1>2, <1>4, <2>10, <3>3, <4>1
      <4> QED BY <1>2, <2>12, <3>3, <4>2
    <3>4. CASE f = d
      <4>1. PICK q \in Nat : q = A(T) * B(T) * C(T) * E(T) BY <1>4
      <4>2. A(T) * B(T) * C(T) * D(T) * E(T) = 95 * q /\ A(U) * B(U) * C(U) * D(U) * E(U) = 100 * q
        BY <1>2, <1>4, <2>10, <3>4, <4>1
      <4> QED BY <1>2, <2>12, <3>4, <4>2
    <3>5. CASE f = e
      <4>1. PICK q \in Nat : q = A(T) * B(T) * C(T) * D(T) BY <1>4
      <4>2. A(T) * B(T) * C(T) * D(T) * E(T) = 96 * q /\ A(U) * B(U) * C(U) * D(U) * E(U) = 100 * q
        BY <1>2, <1>4, <2>10, <3>5, <4>1
      <4> QED BY <1>2, <2>12, <3>5, <4>2
    <3> QED BY <2>8, <3>1, <3>2, <3>3, <3>4, <3>5
  <2> QED BY <2>13
<1>6. Remaining(S) >= 7735214
  <2>1. Bound(S) /\ Remaining(S) \in Nat BY <1>3, <1>5, RemainingBounds, WholeIs
  <2> HIDE DEF A, B, C, D, E, n
  <2>2. PICK x \in Nat : x = A(S) * B(S) /\ x >= 8928 BY <1>4
  <2>3. PICK y \in Nat : y = x * C(S) /\ y >= 848160 BY <1>4, <2>2
  <2>4. PICK z \in Nat : z = y * D(S) /\ z >= 80575200 BY <1>4, <2>3, SMT
  <2>5. z * E(S) >= 7735219200 BY <1>4, <2>4, SMT
  <2>6. A(S) * B(S) * C(S) * D(S) * E(S) = z * E(S) BY <2>2, <2>3, <2>4
  <2> QED BY <1>4, <2>1, <2>5, <2>6, SMT
<1>7. RoundedDiv(Whole - Remaining(S), Point) <= 23 BY <1>3, <1>6, PointsFrom
<1>8. \A f \in S : SEVERITY_FLOOR[f.severity] = 0 BY LoweredIs DEF SEVERITY_FLOOR
<1> QED BY <1>3, <1>7, <1>8, ScoreIs

-----------------------------------------------------------------------------
(* 4. What a scan has when it evaluates *)

AuditInv ==
  /\ TypeOK
  /\ "tree" \in got => deep
  /\ pc = "edit" => got = {}
  /\ pc = "files" => "commits" \in got
  /\ "files" \in got => "commits" \in got
  /\ signals.suspectIsFork = repo.isFork
  /\ pc = "done" =>
       /\ report = evaluateRepo(Snapshot(got), duplicate)
       /\ duplicate => confidence = cloneConfidence(report, signals)

LEMMA ReportIs ==
  ASSUME NEW R, NEW d
  PROVE  LET r == evaluateRepo(R, d) IN
         /\ r.findings = FindingsOf(R, d)
         /\ r.score = scoreFromFindings(FindingsOf(R, d))
         /\ r.band = bandForScore(r.score)
         /\ r.score \in 0..100
         /\ malwareScore(r) \in 0..100
<1> DEFINE r == evaluateRepo(R, d)
           S == FindingsOf(R, d)
<1>1. S \in SUBSET Graded /\ IsFiniteSet(S) BY FindingsAre
<1>2. r.findings = S /\ r.score = scoreFromFindings(S) /\ r.band = bandForScore(r.score)
  BY DEF evaluateRepo
<1> HIDE DEF r, S
<1>3. scoreFromFindings(S) \in 0..100 BY <1>1, ScoreIs
<1>4. malwareScore(r) \in 0..100
  <2> DEFINE M == {f \in S : f.id # "not-fork-but-duplicate" /\ f.severity # "low"}
  <2>1. malwareScore(r) = scoreFromFindings(M) /\ M \in SUBSET Graded /\ IsFiniteSet(M)
    BY <1>1, <1>2, MalwareIs
  <2> HIDE DEF M
  <2> QED BY <2>1, ScoreIs
<1> QED BY <1>2, <1>3, <1>4 DEF r, S

\* What the author does to a repository leaves one, of the same kind.
LEMMA EditStep ==
  ASSUME AuditInv, Extend \/ Push
  PROVE  /\ pc = "edit" /\ repo' \in Repo /\ repo'.isFork = repo.isFork
         /\ edits' \in 0..MaxEdits
         /\ UNCHANGED <<pc, got, duplicate, deep, report, signals, confidence>>
<1>1. repo \in Repo /\ edits \in 0..MaxEdits /\ MaxEdits \in Nat
  BY AuditAssumption DEF AuditInv, TypeOK
<1>2. ASSUME NEW u \in Links
      PROVE  LET a == [repo EXCEPT !.readme.links = @ \cup {u}] IN
             a \in Repo /\ a.isFork = repo.isFork
  BY <1>1, AuditAssumption DEF Repo
<1>3. ASSUME NEW p \in Phrases
      PROVE  LET a == [repo EXCEPT !.readme.phrases = @ \cup {p}] IN
             a \in Repo /\ a.isFork = repo.isFork
  BY <1>1 DEF Repo
<1>4. ASSUME NEW x \in Assets
      PROVE  LET a == [repo EXCEPT !.assets = @ \cup {x}] IN
             a \in Repo /\ a.isFork = repo.isFork
  BY <1>1 DEF Repo
<1>5. ASSUME NEW f \in TreeFiles
      PROVE  LET a == [repo EXCEPT !.tree = @ \cup {f}] IN
             a \in Repo /\ a.isFork = repo.isFork
  BY <1>1 DEF Repo
<1>6. ASSUME NEW c \in Commit
      PROVE  LET a == [repo EXCEPT !.commits = <<c>> \o @] IN
             a \in Repo /\ a.isFork = repo.isFork
  <2>1. <<c>> \o repo.commits \in Seq(Commit) BY <1>1 DEF Repo
  <2> QED BY <1>1, <2>1 DEF Repo
<1>7. CASE Extend
  <2>1. CASE \E u \in Links \ repo.readme.links :
               Edit([repo EXCEPT !.readme.links = @ \cup {u}])
    BY <1>1, <1>2, <2>1 DEF Edit, answer
  <2>2. CASE \E p \in Phrases \ repo.readme.phrases :
               Edit([repo EXCEPT !.readme.phrases = @ \cup {p}])
    BY <1>1, <1>3, <2>2 DEF Edit, answer
  <2>3. CASE \E a \in Assets \ repo.assets : Edit([repo EXCEPT !.assets = @ \cup {a}])
    BY <1>1, <1>4, <2>3 DEF Edit, answer
  <2>4. CASE \E f \in TreeFiles \ repo.tree : Edit([repo EXCEPT !.tree = @ \cup {f}])
    BY <1>1, <1>5, <2>4 DEF Edit, answer
  <2> QED BY <1>7, <2>1, <2>2, <2>3, <2>4 DEF Extend
<1>8. CASE Push
  <2>1. PICK a \in Authors, t \in BOOLEAN, d \in Days,
             fs \in {{}, {"README.md"}, {"README.md", "docs/README.md"}, {"README.md", "code"}} :
          Edit([repo EXCEPT !.commits =
                 <<[author |-> a, trivial |-> t, known |-> TRUE, files |-> fs, at |-> d]>> \o @])
    BY <1>8 DEF Push
  <2>2. fs \in SUBSET Files /\ d \in Nat BY AuditAssumption DEF Files
  <2> DEFINE c == [author |-> a, trivial |-> t, known |-> TRUE, files |-> fs, at |-> d]
  <2>3. c \in Commit BY <2>2 DEF Commit
  <2>4. Edit([repo EXCEPT !.commits = <<c>> \o @]) BY <2>1
  <2> HIDE DEF c
  <2> QED BY <1>1, <1>6, <2>3, <2>4 DEF Edit, answer
<1> QED BY <1>7, <1>8

LEMMA AuditInit == Init => AuditInv
<1> SUFFICES ASSUME Init PROVE AuditInv
  OBVIOUS
<1>1. PICK fork \in BOOLEAN, n \in {1, clonedHistoryMinContributors}, t \in BOOLEAN :
        repo = [readme |-> NoReadme, contributors |-> n, isFork |-> fork,
                commits |-> <<[author |-> "ann", trivial |-> t, known |-> TRUE,
                               files |-> {"README.md", "code"}, at |-> 0]>>,
                assets |-> {}, tree |-> {"code"}]
  BY DEF Init
<1>2. n \in Nat BY DEF clonedHistoryMinContributors
<1>3. NoReadme \in [links : SUBSET Link, phrases : SUBSET Phrases] BY DEF NoReadme
<1> DEFINE c == [author |-> "ann", trivial |-> t, known |-> TRUE,
                 files |-> {"README.md", "code"}, at |-> 0]
<1>4. c \in Commit BY DEF Commit, Authors, Files
<1>5. <<c>> \in Seq(Commit) BY <1>4
<1>6. repo \in Repo BY <1>1, <1>2, <1>3, <1>5 DEF Repo, TreeFiles
<1>7. repo.isFork \in BOOLEAN BY <1>1
<1>8. signals \in CloneSignals /\ signals.suspectIsFork = repo.isFork
  BY <1>7 DEF Init, CloneSignals
<1>9. duplicate \in BOOLEAN /\ deep \in BOOLEAN /\ (duplicate => deep) BY DEF Init
<1>10. edits \in 0..MaxEdits BY AuditAssumption DEF Init
<1>11. report.score \in 0..100 /\ confidence \in 0..100 BY DEF Init, NoReport
<1> QED BY <1>6, <1>8, <1>9, <1>10, <1>11 DEF Init, AuditInv, TypeOK

LEMMA AuditStep == AuditInv /\ [Next]_vars => AuditInv'
<1> SUFFICES ASSUME AuditInv, [Next]_vars PROVE AuditInv'
  OBVIOUS
<1> USE DEF AuditInv, TypeOK
<1>1. CASE Extend \/ Push BY <1>1, EditStep
<1>2. CASE FetchParts BY <1>2 DEF FetchParts, FirstParts, Parts, answer
<1>3. CASE FetchFiles BY <1>3 DEF FetchFiles, Parts, answer
<1>4. CASE FetchTree BY <1>4 DEF FetchTree, Parts, answer
<1>5. CASE Evaluated
  <2>1. /\ report' = evaluateRepo(Snapshot(got), duplicate)
        /\ pc' = "done"
        /\ UNCHANGED <<repo, edits, got, duplicate, deep>>
    BY <1>5 DEF Evaluated
  <2>2. Snapshot(got)' = Snapshot(got) BY <2>1 DEF Snapshot, mapCommits
  <2>3. report'.score \in 0..100 /\ malwareScore(report') \in 0..100 BY <2>1, ReportIs
  <2>4. /\ signals' \in CloneSignals /\ signals'.suspectIsFork = repo.isFork
        /\ confidence' \in 0..100
        /\ duplicate => confidence' = cloneConfidence(report', signals')
    <3>1. CASE duplicate
      <4>1. /\ signals' \in CloneSignals /\ signals'.suspectIsFork = repo.isFork
            /\ confidence' = cloneConfidence(report', signals')
        BY <1>5, <3>1 DEF Evaluated
      <4> QED BY <2>3, <4>1, ConfidenceIs
    <3>2. CASE ~duplicate BY <1>5, <3>2 DEF Evaluated
    <3> QED BY <3>1, <3>2
  <2> QED BY <2>1, <2>2, <2>3, <2>4
<1>6. CASE UNCHANGED vars BY <1>6 DEF vars, answer, Snapshot, mapCommits
<1> QED BY <1>1, <1>2, <1>3, <1>4, <1>5, <1>6 DEF Next

LEMMA AuditInvariant == Spec => []AuditInv
BY AuditInit, AuditStep, PTL DEF Spec

\* Every variable of an audit stays within its values; in particular scores and
\* confidences are percentages (score.ts, evaluate.ts).
THEOREM AuditTypeCorrect == Spec => []TypeOK
<1>1. AuditInv => TypeOK BY DEF AuditInv
<1> QED BY <1>1, AuditInvariant, PTL

-----------------------------------------------------------------------------
(* 5. The verdict *)

LEMMA VerdictIs ==
  ASSUME AuditInv, pc = "done"
  PROVE  LET S == FindingsOf(Snapshot(got), duplicate) IN
         /\ report.findings = S /\ report.score = scoreFromFindings(S)
         /\ report.band = bandForScore(report.score)
         /\ CarriesPayload <=> S \cap Payload # {}
         /\ S \in SUBSET Table /\ S \in SUBSET Graded /\ IsFiniteSet(S)
         /\ S \cap Payload # {} => S \subseteq Raw
         /\ S \cap Payload = {} => S \subseteq Lowered \cup Mention \cup Copy
         /\ ~duplicate => S \cap Copy = {}
<1> DEFINE S == FindingsOf(Snapshot(got), duplicate)
<1>1. /\ S \in SUBSET Table /\ S \in SUBSET Graded /\ IsFiniteSet(S)
      /\ S \cap Payload # {} => S \subseteq Raw
      /\ S \cap Payload = {} => S \subseteq Lowered \cup Mention \cup Copy
      /\ ~duplicate => S \cap Copy = {}
  BY FindingsAre
<1>2. /\ report.findings = S /\ report.score = scoreFromFindings(S)
      /\ report.band = bandForScore(report.score)
  BY ReportIs DEF AuditInv
<1> HIDE DEF S
<1>3. CarriesPayload <=> S \cap Payload # {}
  BY <1>1, <1>2, LoweredIs DEF CarriesPayload, IsPayload
<1> QED BY <1>1, <1>2, <1>3 DEF S

\* Ordinary maintenance is never elevated, whatever it consists of
\* (constants.ts:252-257).
THEOREM MaintenanceIsLow == Spec => []MaintenanceStaysBelowElevated
<1>1. AuditInv => MaintenanceStaysBelowElevated
  <2> SUFFICES ASSUME AuditInv, pc = "done", ~duplicate, ~CarriesPayload
               PROVE  report.band \in {"safe", "low"}
    BY DEF MaintenanceStaysBelowElevated
  <2> DEFINE S == FindingsOf(Snapshot(got), duplicate)
  <2>1. /\ S \in SUBSET (Lowered \cup Mention) /\ IsFiniteSet(S) /\ S \in SUBSET Graded
        /\ report.band = bandForScore(scoreFromFindings(S))
    BY VerdictIs
  <2> HIDE DEF S
  <2>2. scoreFromFindings(S) \in 0..100 /\ scoreFromFindings(S) <= 23
    BY <2>1, ScoreIs, MaintenanceScores
  <2> QED BY <2>1, <2>2, BandIs
<1> QED BY <1>1, AuditInvariant, PTL

\* A payload under a README-only commit with a generic message is flagged, also
\* the weakest one (constants.ts:191-193).
THEOREM CombosAreFlagged == Spec => []CanonicalComboIsFlagged
<1>1. AuditInv => CanonicalComboIsFlagged
  <2> SUFFICES ASSUME AuditInv, pc = "done", CarriesPayload,
                      Reported("latest-commit-only-readme"),
                      Reported("trivial-readme-commit-message")
               PROVE  isFlagged(report.band)
    BY DEF CanonicalComboIsFlagged
  <2> DEFINE S == FindingsOf(Snapshot(got), duplicate)
  <2>1. /\ S \cap Payload # {} /\ S \subseteq Raw /\ IsFiniteSet(S) /\ S \in SUBSET Graded
        /\ report.findings = S /\ report.band = bandForScore(scoreFromFindings(S))
    BY VerdictIs
  <2> HIDE DEF S
  <2>2. PICK p \in S : p \in Payload BY <2>1
  <2>3. PICK l \in S : l.id = "latest-commit-only-readme" BY <2>1 DEF Reported
  <2>4. PICK t \in S : t.id = "trivial-readme-commit-message" BY <2>1 DEF Reported
  <2>5. /\ p.weight \in 12..34
        /\ p.id \notin {"latest-commit-only-readme", "trivial-readme-commit-message"}
    BY <2>2, PayloadWeighs
  <2>6. \A f \in Raw : /\ f.id = "latest-commit-only-readme" => f.weight = 26
                       /\ f.id = "trivial-readme-commit-message" => f.weight = 16
    BY PayloadWeighs DEF Raw, Tampering, Mention, Copy, Finding
  <2>7. l.weight = 26 /\ t.weight = 16 BY <2>1, <2>3, <2>4, <2>6
  <2>8. p # l /\ p # t BY <2>3, <2>4, <2>5
  <2>9. scoreFromFindings(S) >= 45
    BY <2>1, <2>5, <2>7, <2>8, ComboScores
  <2>10. scoreFromFindings(S) \in 0..100 BY <2>1, ScoreIs
  <2> QED BY <2>1, <2>9, <2>10, BandIs
<1> QED BY <1>1, AuditInvariant, PTL

\* A shared name alone is below the threshold of the clone search
\* (evaluate.ts:189-195).
THEOREM StructureIsNoAlert == Spec => []StructureAloneNeverAlerts
<1>1. AuditInv => StructureAloneNeverAlerts
  <2> SUFFICES ASSUME AuditInv, pc = "done", duplicate, ~signals.sameDescription, ~CarriesPayload
               PROVE  confidence < minConfidence
    BY DEF StructureAloneNeverAlerts
  <2> DEFINE S == FindingsOf(Snapshot(got), duplicate)
             M == {f \in S : f.id # "not-fork-but-duplicate" /\ f.severity # "low"}
  <2>1. /\ S \subseteq Lowered \cup Mention \cup Copy /\ IsFiniteSet(S) /\ S \in SUBSET Graded
        /\ report.findings = S
    BY VerdictIs
  <2> HIDE DEF S
  <2>2. M = {} BY <2>1, LoweredIs
  <2>3. malwareScore(report) = 0 BY <2>1, <2>2, MalwareIs, NoScore
  <2>4. confidence = cloneConfidence(report, signals) /\ signals \in CloneSignals
    BY DEF AuditInv, TypeOK
  <2> QED BY <2>3, <2>4, ConfidenceIs
<1> QED BY <1>1, AuditInvariant, PTL

\* A standalone copy with a payload reaches the threshold, however weak the
\* payload and whatever else it shares (evaluate.ts).
THEOREM ArmedCopiesAreReported == Spec => []CopyWithPayloadIsReported
<1>1. AuditInv => CopyWithPayloadIsReported
  <2> SUFFICES ASSUME AuditInv, pc = "done", duplicate, ~repo.isFork, CarriesPayload
               PROVE  confidence >= minConfidence
    BY DEF CopyWithPayloadIsReported
  <2> DEFINE S == FindingsOf(Snapshot(got), duplicate)
             M == {f \in S : f.id # "not-fork-but-duplicate" /\ f.severity # "low"}
  <2>1. /\ S \cap Payload # {} /\ IsFiniteSet(S) /\ S \in SUBSET Graded
        /\ report.findings = S
    BY VerdictIs
  <2> HIDE DEF S
  <2>2. PICK p \in S : p \in Payload BY <2>1
  <2>3. p \in M BY <2>2, PayloadWeighs
  <2>4. malwareScore(report) = scoreFromFindings(M) /\ M \in SUBSET Graded /\ IsFiniteSet(M)
    BY <2>1, MalwareIs
  <2> HIDE DEF M
  <2>5. malwareScore(report) > 0 /\ malwareScore(report) \in 0..100
    BY <2>2, <2>3, <2>4, PayloadScores, ScoreIs
  <2>6. /\ confidence = cloneConfidence(report, signals)
        /\ signals \in CloneSignals /\ ~signals.suspectIsFork
    BY DEF AuditInv, TypeOK
  <2> QED BY <2>5, <2>6, ConfidenceIs
<1> QED BY <1>1, AuditInvariant, PTL
-----------------------------------------------------------------------------
(* 6. Failed fetches *)

LEMMA PartsOf ==
  ASSUME NEW w \in Repo, NEW P, NEW mapped
  PROVE  LET r == [w EXCEPT
                     !.readme = IF "readme" \in P THEN @ ELSE NoReadme,
                     !.commits = mapped,
                     !.contributors = IF "contributors" \in P THEN @ ELSE 0,
                     !.assets = IF "releases" \in P THEN @ ELSE {},
                     !.tree = IF "tree" \in P THEN @ ELSE {}] IN
         /\ r.readme = IF "readme" \in P THEN w.readme ELSE NoReadme
         /\ r.commits = mapped
         /\ r.contributors = IF "contributors" \in P THEN w.contributors ELSE 0
         /\ r.isFork = w.isFork
         /\ r.assets = IF "releases" \in P THEN w.assets ELSE {}
         /\ r.tree = IF "tree" \in P THEN w.tree ELSE {}
<1> DEFINE r1 == [w EXCEPT !.readme = IF "readme" \in P THEN @ ELSE NoReadme]
           r2 == [r1 EXCEPT !.commits = mapped]
           r3 == [r2 EXCEPT !.contributors = IF "contributors" \in P THEN @ ELSE 0]
           r4 == [r3 EXCEPT !.assets = IF "releases" \in P THEN @ ELSE {}]
           r5 == [r4 EXCEPT !.tree = IF "tree" \in P THEN @ ELSE {}]
<1>1. w = [readme |-> w.readme, commits |-> w.commits,
              contributors |-> w.contributors, isFork |-> w.isFork,
              assets |-> w.assets, tree |-> w.tree]
  BY DEF Repo
<1>2. r1 = [readme |-> IF "readme" \in P THEN w.readme ELSE NoReadme,
            commits |-> w.commits, contributors |-> w.contributors,
            isFork |-> w.isFork, assets |-> w.assets, tree |-> w.tree]
  BY <1>1
<1> HIDE DEF r1
<1>3. r2 = [readme |-> r1.readme, commits |-> mapped, contributors |-> w.contributors,
            isFork |-> w.isFork, assets |-> w.assets, tree |-> w.tree]
  BY <1>2
<1> HIDE DEF r2
<1>4. r3 = [readme |-> r1.readme, commits |-> mapped,
            contributors |-> IF "contributors" \in P THEN w.contributors ELSE 0,
            isFork |-> w.isFork, assets |-> w.assets, tree |-> w.tree]
  BY <1>3
<1> HIDE DEF r3
<1>5. r4 = [readme |-> r1.readme, commits |-> mapped, contributors |-> r3.contributors,
            isFork |-> w.isFork,
            assets |-> IF "releases" \in P THEN w.assets ELSE {}, tree |-> w.tree]
  BY <1>4
<1> HIDE DEF r4
<1>6. r5 = [readme |-> r1.readme, commits |-> mapped, contributors |-> r3.contributors,
            isFork |-> w.isFork, assets |-> r4.assets,
            tree |-> IF "tree" \in P THEN w.tree ELSE {}]
  BY <1>5
<1> HIDE DEF r5
<1> QED BY <1>2, <1>4, <1>5, <1>6

LEMMA SnapshotIs ==
  ASSUME repo \in Repo, NEW P
  PROVE  LET r == Snapshot(P) IN
         /\ r.readme = IF "readme" \in P THEN repo.readme ELSE NoReadme
         /\ r.commits = mapCommits(P)
         /\ r.contributors = IF "contributors" \in P THEN repo.contributors ELSE 0
         /\ r.isFork = repo.isFork
         /\ r.assets = IF "releases" \in P THEN repo.assets ELSE {}
         /\ r.tree = IF "tree" \in P THEN repo.tree ELSE {}
BY PartsOf DEF Snapshot

\* A commit as it is mapped keeps what is not its files.
LEMMA MappedIs ==
  ASSUME repo \in Repo, NEW P
  PROVE  /\ "commits" \notin P => mapCommits(P) = <<>>
         /\ "commits" \in P =>
              /\ DOMAIN mapCommits(P) = DOMAIN repo.commits
              /\ Len(mapCommits(P)) = Len(repo.commits)
              /\ mapCommits(P) = <<>> <=> repo.commits = <<>>
              /\ \A i \in DOMAIN repo.commits :
                   LET c == mapCommits(P)[i] IN
                   /\ c.author = repo.commits[i].author
                   /\ c.trivial = repo.commits[i].trivial
                   /\ c.at = repo.commits[i].at
                   /\ c.files = IF i = 1 /\ "files" \in P THEN repo.commits[i].files ELSE {}
<1> DEFINE m == mapCommits(P)
<1>1. repo.commits \in Seq(Commit) BY DEF Repo
<1>2. CASE "commits" \notin P BY <1>2 DEF mapCommits
<1>3. CASE "commits" \in P
  <2> DEFINE c1(i) == [repo.commits[i] EXCEPT !.known = (i = 1)]
             c2(i) == [c1(i) EXCEPT !.files = IF i = 1 /\ "files" \in P THEN @ ELSE {}]
  <2>1. m = [i \in DOMAIN repo.commits |-> c2(i)] BY <1>3 DEF mapCommits
  <2>2. ASSUME NEW i \in DOMAIN repo.commits
        PROVE  /\ c2(i).author = repo.commits[i].author
               /\ c2(i).trivial = repo.commits[i].trivial
               /\ c2(i).at = repo.commits[i].at
               /\ c2(i).files = IF i = 1 /\ "files" \in P THEN repo.commits[i].files ELSE {}
    <3> DEFINE c == repo.commits[i]
    <3>1. c \in Commit BY <1>1
    <3> HIDE DEF c
    <3>2. c = [author |-> c.author, trivial |-> c.trivial, known |-> c.known,
               files |-> c.files, at |-> c.at]
      BY <3>1 DEF Commit
    <3> DEFINE d == [c EXCEPT !.known = (i = 1)]
    <3>3. d = [author |-> c.author, trivial |-> c.trivial, known |-> (i = 1),
               files |-> c.files, at |-> c.at]
      BY <3>2
    <3> HIDE DEF d
    <3> DEFINE e == [d EXCEPT !.files = IF i = 1 /\ "files" \in P THEN @ ELSE {}]
    <3>4. e.author = c.author /\ e.trivial = c.trivial /\ e.at = c.at
          /\ e.files = IF i = 1 /\ "files" \in P THEN c.files ELSE {}
      BY <3>3
    <3>5. c2(i) = e BY DEF c, d
    <3> HIDE DEF e, c2
    <3> QED BY <3>4, <3>5 DEF c
  <2> HIDE DEF c2
  <2>3. DOMAIN m = DOMAIN repo.commits /\ \A i \in DOMAIN repo.commits : m[i] = c2(i)
    BY <2>1
  <2>4. m = [i \in 1..Len(repo.commits) |-> c2(i)] BY <1>1, <2>1
  <2>5. Len(m) = Len(repo.commits) BY <1>1, <2>4
  <2>6. m = <<>> <=> repo.commits = <<>> BY <1>1, <2>4, <2>5
  <2> HIDE DEF m
  <2> QED BY <1>3, <2>2, <2>3, <2>5, <2>6 DEF m
<1> QED BY <1>2, <1>3
\* What the rules find of the parts that were fetched, they find of all of them,
\* except of the files of the latest commit when these are missing.
Misread == Finding("stale-code-fresh-readme", "high", 20)
           \cup Finding("cloned-history-single-pusher", "medium", 18)

LEMMA LessIsFound ==
  ASSUME repo \in Repo, NEW P, NEW Q, P \subseteq Q, "commits" \in Q, "files" \in Q,
         "files" \in P => "commits" \in P, NEW d
  PROVE  \A f \in REPO_RULES(Snapshot(P), d) :
           \/ f \in REPO_RULES(Snapshot(Q), d)
           \/ ("commits" \in P /\ "files" \notin P /\ f \in Misread)
<1> DEFINE r == Snapshot(P)
           a == Snapshot(Q)
<1>1. /\ r.readme \in {NoReadme, a.readme} /\ r.assets \in {{}, a.assets}
      /\ r.tree \in {{}, a.tree} /\ r.contributors \in {0, a.contributors}
      /\ r.isFork = a.isFork
  BY SnapshotIs
<1>2. r.commits = mapCommits(P) /\ a.commits = mapCommits(Q) BY SnapshotIs
<1>3. "commits" \in P /\ "files" \in P => r.commits = a.commits BY <1>2 DEF mapCommits
<1>4. r.commits # <<>> =>
        /\ "commits" \in P /\ a.commits # <<>> /\ 1 \in DOMAIN repo.commits
        /\ Latest(r).author = Latest(a).author /\ Latest(r).trivial = Latest(a).trivial
        /\ "files" \notin P => Latest(r).files = {}
  <2>1. repo.commits \in Seq(Commit) BY DEF Repo
  <2>2. repo.commits # <<>> => 1 \in DOMAIN repo.commits BY <2>1
  <2> HIDE DEF r, a
  <2> QED BY <1>2, <2>2, MappedIs DEF Latest
<1> DEFINE Misses == "commits" \in P /\ "files" \notin P
<1> HIDE DEF r, a
<1>5. /\ readmeReferencesArchive(r) \subseteq readmeReferencesArchive(a)
      /\ readmeDownloadBadgeToArchive(r) \subseteq readmeDownloadBadgeToArchive(a)
      /\ readmePasswordProtectedArchive(r) \subseteq readmePasswordProtectedArchive(a)
      /\ readmeUrlShortener(r) \subseteq readmeUrlShortener(a)
      /\ readmeDownloadLure(r) \subseteq readmeDownloadLure(a)
  <2>1. CASE r.readme = NoReadme
    <3>1. r.readme.links = {} /\ r.readme.phrases = {} BY <2>1 DEF NoReadme
    <3>2. BinaryUrls(r) = {} /\ ~BinaryFileTokens(r)
      BY <3>1 DEF BinaryUrls, BinaryFileTokens
    <3> QED
      BY <3>1, <3>2
      DEF readmeReferencesArchive, readmeDownloadBadgeToArchive,
          readmePasswordProtectedArchive, readmeUrlShortener, readmeDownloadLure, NoFinding
  <2>2. CASE r.readme = a.readme
    <3>1. BinaryUrls(r) = BinaryUrls(a) /\ (BinaryFileTokens(r) <=> BinaryFileTokens(a))
      BY <2>2 DEF BinaryUrls, BinaryFileTokens
    <3>2. r.assets \ {"notes"} # {} => a.assets \ {"notes"} # {} BY <1>1
    <3>3. readmePasswordProtectedArchive(r) \subseteq readmePasswordProtectedArchive(a)
      BY <2>2, <3>1, <3>2 DEF readmePasswordProtectedArchive, NoFinding
    <3>4. /\ readmeReferencesArchive(r) = readmeReferencesArchive(a)
          /\ readmeDownloadBadgeToArchive(r) = readmeDownloadBadgeToArchive(a)
      BY <2>2, <3>1 DEF readmeReferencesArchive, readmeDownloadBadgeToArchive
    <3>5. /\ readmeUrlShortener(r) = readmeUrlShortener(a)
          /\ readmeDownloadLure(r) = readmeDownloadLure(a)
      BY <2>2, <3>1 DEF readmeUrlShortener, readmeDownloadLure
    <3> QED BY <3>3, <3>4, <3>5
  <2> QED BY <1>1, <2>1, <2>2
<1>10. suspiciousReleaseAsset(r) \subseteq suspiciousReleaseAsset(a)
  BY <1>1 DEF suspiciousReleaseAsset, NoFinding
<1>11. suspiciousTreePayload(r) \subseteq suspiciousTreePayload(a)
  BY <1>1 DEF suspiciousTreePayload, NoFinding
<1>12. archiveBuriedDeep(r) \subseteq archiveBuriedDeep(a)
  BY <1>1 DEF archiveBuriedDeep, NoFinding
<1>13. notForkButDuplicateName(r, d) \subseteq notForkButDuplicateName(a, d)
  BY <1>1 DEF notForkButDuplicateName, NoFinding
<1>14. trivialReadmeCommitMessage(r) \subseteq trivialReadmeCommitMessage(a)
  BY <1>4 DEF trivialReadmeCommitMessage, NoFinding
<1>15. latestCommitOnlyReadme(r) \subseteq latestCommitOnlyReadme(a)
  <2>1. CASE r.commits = <<>> BY <2>1 DEF latestCommitOnlyReadme, NoFinding
  <2>2. CASE r.commits # <<>> /\ "files" \in P BY <1>3, <1>4, <2>2 DEF latestCommitOnlyReadme, Latest
  <2>3. CASE r.commits # <<>> /\ "files" \notin P
    <3>1. \A f : Latest(r).files # {f} BY <1>4, <2>3
    <3> QED BY <3>1 DEF latestCommitOnlyReadme, NoFinding
  <2> QED BY <2>1, <2>2, <2>3
<1>16. \A f \in staleCodeFreshReadme(r) :
         f \in staleCodeFreshReadme(a) \/ (Misses /\ f \in Misread)
  <2>1. CASE "commits" \in P /\ "files" \in P
    <3>1. Latest(r) = Latest(a) /\ r.commits = a.commits BY <1>3, <2>1 DEF Latest
    <3>2. staleCodeFreshReadme(r) = staleCodeFreshReadme(a) BY <3>1 DEF staleCodeFreshReadme
    <3> QED BY <3>2
  <2>2. CASE "commits" \notin P
    <3>1. Len(r.commits) = 0 BY <1>2, <2>2, MappedIs
    <3> QED BY <3>1 DEF staleCodeFreshReadme, NoFinding
  <2>3. CASE Misses BY <2>3 DEF staleCodeFreshReadme, NoFinding, Misread, WEIGHTS
  <2> QED BY <2>1, <2>2, <2>3
<1>17. \A f \in clonedHistorySinglePusher(r) :
         f \in clonedHistorySinglePusher(a) \/ (Misses /\ f \in Misread)
  <2>1. CASE "commits" \in P /\ "files" \in P
    <3>1. HumanCommits(r) = HumanCommits(a) BY <1>3, <2>1 DEF HumanCommits
    <3>2. CASE r.contributors = 0
      BY <3>2 DEF clonedHistorySinglePusher, clonedHistoryMinContributors, NoFinding
    <3>3. CASE r.contributors = a.contributors
      <4>1. clonedHistorySinglePusher(r) = clonedHistorySinglePusher(a)
        BY <1>1, <1>3, <2>1, <3>1, <3>3 DEF clonedHistorySinglePusher
      <4> QED BY <4>1
    <3> QED BY <1>1, <3>2, <3>3
  <2>2. CASE "commits" \notin P
    <3>1. HumanCommits(r) = {} BY <1>2, <2>2, MappedIs DEF HumanCommits
    <3>2. {r.commits[i].author : i \in HumanCommits(r)} = {} BY <3>1
    <3>3. Cardinality({r.commits[i].author : i \in HumanCommits(r)}) # 1
      <4>1. Cardinality({}) = 0 BY FS_EmptySet
      <4>2. Cardinality({}) # 1 BY <4>1
      <4> HIDE DEF r, a
      <4> QED BY <3>2, <4>2, ZenonT(30)
    <3> QED BY <3>3 DEF clonedHistorySinglePusher, NoFinding
  <2>3. CASE Misses BY <2>3 DEF clonedHistorySinglePusher, NoFinding, Misread, WEIGHTS
  <2> QED BY <2>1, <2>2, <2>3
<1> HIDE DEF Misses
<1>18. \A f \in REPO_RULES(r, d) : f \in REPO_RULES(a, d) \/ (Misses /\ f \in Misread)
  BY <1>5, <1>10, <1>11, <1>12, <1>13, <1>14, <1>15, <1>16, <1>17 DEF REPO_RULES
<1> QED BY <1>18 DEF r, a, Misses

LEMMA MisreadIs ==
  /\ Misread \subseteq Tampering
  /\ \A f \in Misread : f.id \in {"stale-code-fresh-readme", "cloned-history-single-pusher"}
BY DEF Misread, Tampering, Finding

\* The gate preserves it: with less it is closed rather than open, and lowers
\* what an open one leaves.
THEOREM FailedFetchesOnlyWeaken == Spec => []FailuresOnlyWeaken
<1>1. AuditInv => FailuresOnlyWeaken
  <2> SUFFICES ASSUME AuditInv, pc = "done", NEW f \in report.findings
               PROVE  \/ \E g \in AllFindings : g.id = f.id /\ f.weight <= g.weight
                      \/ /\ "commits" \in got
                         /\ "files" \notin got
                         /\ f.id \in {"stale-code-fresh-readme", "cloned-history-single-pusher"}
    BY DEF FailuresOnlyWeaken
  <2> DEFINE Q == IF deep THEN Parts ELSE Parts \ {"tree"}
             R == REPO_RULES(Snapshot(got), duplicate)
             A == REPO_RULES(Snapshot(Q), duplicate)
             S == FindingsOf(Snapshot(got), duplicate)
             Misses == "commits" \in got /\ "files" \notin got
  <2>1. /\ repo \in Repo /\ got \subseteq Q /\ "commits" \in Q /\ "files" \in Q
        /\ "files" \in got => "commits" \in got
    BY DEF AuditInv, TypeOK, Parts, FirstParts
  <2>2. \A h \in R : h \in A \/ (Misses /\ h \in Misread) BY <2>1, LessIsFound
  <2>3. f \in S BY ReportIs DEF AuditInv
  <2>4. /\ R \cap Payload # {} => S = R
        /\ R \cap Payload = {} =>
             S = (R \ Tampering) \cup {demoteTampering(h) : h \in R \cap Tampering}
    BY GateIs
  <2>5. /\ A \cap Payload # {} => AllFindings = A
        /\ A \cap Payload = {} =>
             AllFindings = (A \ Tampering) \cup {demoteTampering(h) : h \in A \cap Tampering}
    BY GateIs DEF AllFindings
  <2>6. R \subseteq Raw /\ A \subseteq Raw BY RulesFind
  <2> HIDE DEF Q, R, A, S, Misses
  <2>7. \A h \in Raw : h.weight \in Int
    BY TableIsGraded DEF Table, Graded
  <2>8. Tampering \cap Payload = {} BY RawIs DEF Raw, IsPayload, Payload, Tampering, Finding
  <2>9. R \cap Payload # {} => A \cap Payload # {} BY <2>2, <2>8, MisreadIs
  <2>10. CASE A \cap Payload = {}
    <3>1. CASE f \in R \ Tampering
      <4>1. f \in AllFindings BY <2>2, <2>5, <2>10, <3>1, MisreadIs
      <4> QED BY <2>6, <2>7, <3>1, <4>1
    <3>2. CASE f \notin R \ Tampering
      <4>1. PICK h \in R \cap Tampering : f = demoteTampering(h)
        BY <2>3, <2>4, <2>9, <2>10, <3>2
      <4>2. f.id = h.id BY <4>1, DemotedIs
      <4>3. CASE h \in A
        <5>1. f \in AllFindings BY <2>5, <2>10, <4>1, <4>3
        <5>2. f.weight \in Int BY <4>1, DemotedIs, TableIsGraded DEF Table, Graded
        <5> QED BY <5>1, <5>2
      <4>4. CASE h \notin A BY <2>2, <4>1, <4>2, <4>4, MisreadIs DEF Misses
      <4> QED BY <4>3, <4>4
    <3> QED BY <3>1, <3>2
  <2>11. CASE A \cap Payload # {}
    <3>1. PICK h \in R : f.id = h.id /\ f.weight <= h.weight
      <4>1. CASE f \in R BY <2>6, <2>7, <4>1
      <4>2. CASE f \notin R
        <5>1. PICK h \in R \cap Tampering : f = demoteTampering(h) BY <2>3, <2>4, <4>2
        <5> QED BY <5>1, DemotedIs
      <4> QED BY <4>1, <4>2
    <3>2. CASE h \in A BY <2>5, <2>11, <3>1, <3>2
    <3>3. CASE h \notin A BY <2>2, <3>1, <3>3, MisreadIs DEF Misses
    <3> QED BY <3>2, <3>3
  <2> QED BY <2>10, <2>11
<1> QED BY <1>1, AuditInvariant, PTL

-----------------------------------------------------------------------------
(***************************************************************************)
(* 7. More evidence                                                        *)
(*                                                                         *)
(* Remaining rounds at every finding and takes them in an order of its     *)
(* own, so two sets cannot be compared fold by fold.  Exact has neither    *)
(* rounding nor order: Remaining is within 25 units of it, and one finding *)
(* more, or one that counts for more, lowers it by a twenty-fifth of the   *)
(* 625 units or more that are left.                                        *)
(***************************************************************************)

LEMMA Smallest ==
  ASSUME NEW F \in SUBSET Nat, F # {}
  PROVE  \E m \in F : \A n \in F : m <= n
<1>1. PICK m \in F : \A n \in F : ~ (<<n, m>> \in OpToRel(<, Nat))
  BY NatLessThanWellFounded, WFMin
<1>2. \A n \in F : ~(n < m) BY <1>1 DEF OpToRel
<1> QED BY <1>2

LEMMA WeightsAre == \A f \in Table : f.weight \in 4..34
<1>1. \A f \in Payload : f.weight \in 4..34 BY DEF Payload, Finding
<1>2. \A f \in Tampering : f.weight \in 4..34 BY DEF Tampering, Finding
<1>3. \A f \in Lowered : f.weight \in 4..34 BY DEF Lowered, Finding
<1>4. \A f \in Mention \cup Copy : f.weight \in 4..34 BY DEF Mention, Copy, Finding
<1> QED BY <1>1, <1>2, <1>3, <1>4 DEF Table, Raw

\* A set that has one finding of an id at most, and what the one of an id leaves.
OneEach(S) == \A f, g \in S : f.id = g.id => f = g

Left(S, id) ==
  IF \E f \in S : f.id = id THEN 100 - (CHOOSE f \in S : f.id = id).weight ELSE 100

LEMMA LeftIs ==
  ASSUME NEW S \in SUBSET Table, OneEach(S)
  PROVE  /\ \A f \in S : Left(S, f.id) = 100 - f.weight
         /\ \A id : (\A f \in S : f.id # id) => Left(S, id) = 100
         /\ \A id : Left(S, id) \in 66..100
<1>1. ASSUME NEW f \in S PROVE Left(S, f.id) = 100 - f.weight
  <2>1. (CHOOSE g \in S : g.id = f.id) = f BY DEF OneEach
  <2> QED BY <2>1 DEF Left
<1>2. \A id : (\A f \in S : f.id # id) => Left(S, id) = 100 BY DEF Left
<1>3. \A f \in Table : f.weight \in 4..34 BY WeightsAre
<1>4. ASSUME NEW id PROVE Left(S, id) \in 66..100
  <2>1. CASE \E f \in S : f.id = id BY <1>1, <1>3, <2>1
  <2>2. CASE ~ \E f \in S : f.id = id BY <1>2, <2>2
  <2> QED BY <2>1, <2>2
<1> QED BY <1>1, <1>2, <1>4

\* What is left without any rounding, whatever the order: the product of what
\* is left of each id.
Ids ==
  <<"readme-references-archive", "readme-download-badge", "readme-password-archive",
    "readme-url-shortener", "readme-download-lure", "suspicious-release-asset",
    "suspicious-tree-payload", "archive-buried-deep", "latest-commit-only-readme",
    "trivial-readme-commit-message", "stale-code-fresh-readme",
    "cloned-history-single-pusher", "not-fork-but-duplicate">>

Multiplies(x, S, n) ==
  /\ x \in [0..n -> Nat]
  /\ x[0] = Whole
  /\ \A i \in 1..n : x[i] = x[i - 1] * Left(S, Ids[i])

Product(S) == CHOOSE x : Multiplies(x, S, 13)
Exact(S) == Product(S)[13]
Scale == Exact({}) \div Whole

LEMMA IdsAre ==
  /\ DOMAIN Ids = 1..13
  /\ \A i, j \in 1..13 : Ids[i] = Ids[j] => i = j
  /\ \A f \in Table : \E i \in 1..13 : Ids[i] = f.id
<1>1. DOMAIN Ids = 1..13 BY DEF Ids
<1>2. \A i, j \in 1..13 : Ids[i] = Ids[j] => i = j BY DEF Ids
<1>3. \A id \in RepoIds : \E i \in 1..13 : Ids[i] = id
  BY DEF Ids, RepoIds, PAYLOAD_FINDING_IDS, TAMPERING_FINDING_IDS
<1> QED BY <1>1, <1>2, <1>3, TableIsGraded DEF Graded

LEMMA ProductExists ==
  ASSUME NEW S \in SUBSET Table, OneEach(S), NEW n \in 0..13
  PROVE  \E x : Multiplies(x, S, n)
<1> DEFINE F == {m \in Nat : m <= 13 /\ ~ \E x : Multiplies(x, S, m)}
<1> SUFFICES ASSUME F # {} PROVE FALSE
  OBVIOUS
<1>1. PICK m \in F : \A k \in F : m <= k
  <2>1. F \in SUBSET Nat OBVIOUS
  <2> HIDE DEF F
  <2> QED BY <2>1, Smallest
<1>2. CASE m = 0
  <2> DEFINE x == [i \in 0..0 |-> Whole]
  <2>1. Multiplies(x, S, 0) BY WholeIs DEF Multiplies
  <2> QED BY <1>1, <1>2, <2>1
<1>3. CASE m # 0
  <2>1. m - 1 \in Nat /\ m - 1 \notin F BY <1>1, <1>3
  <2>2. PICK x : Multiplies(x, S, m - 1) BY <2>1
  <2> DEFINE y == [i \in 0..m |-> IF i = m THEN x[m - 1] * Left(S, Ids[m]) ELSE x[i]]
  <2>3. x \in [0..(m - 1) -> Nat] BY <2>2 DEF Multiplies
  <2>4. x[m - 1] \in Nat /\ x[m - 1] * Left(S, Ids[m]) \in Nat
    <3>1. x[m - 1] \in Nat BY <2>1, <2>3
    <3>2. Left(S, Ids[m]) \in Nat
      <4>1. Left(S, Ids[m]) \in 66..100 BY LeftIs
      <4> QED BY <4>1
    <3> QED BY <3>1, <3>2
  <2>5. y \in [0..m -> Nat] BY <2>1, <2>3, <2>4
  <2>6. y[0] = Whole BY <1>3, <2>1, <2>2 DEF Multiplies
  <2>7. \A i \in 1..m : y[i] = y[i - 1] * Left(S, Ids[i])
    <3> SUFFICES ASSUME NEW i \in 1..m PROVE y[i] = y[i - 1] * Left(S, Ids[i])
      OBVIOUS
    <3>1. CASE i = m BY <2>1, <3>1
    <3>2. CASE i # m
      <4>1. i \in 1..(m - 1) /\ i \in 0..m /\ i - 1 \in 0..m /\ i - 1 # m BY <2>1, <3>2
      <4>2. x[i] = x[i - 1] * Left(S, Ids[i]) BY <2>2, <4>1 DEF Multiplies
      <4> QED BY <3>2, <4>1, <4>2
    <3> QED BY <3>1, <3>2
  <2> HIDE DEF y
  <2>8. Multiplies(y, S, m) BY <2>5, <2>6, <2>7 DEF Multiplies
  <2> QED BY <1>1, <2>8
<1> QED BY <1>2, <1>3

LEMMA ProductIs ==
  ASSUME NEW S \in SUBSET Table, OneEach(S)
  PROVE  /\ Product(S)[0] = Whole /\ Exact(S) \in Nat
         /\ \A i \in 0..13 : Product(S)[i] \in Nat
         /\ \A i \in 1..13 : Product(S)[i] = Product(S)[i - 1] * Left(S, Ids[i])
<1>1. \E x : Multiplies(x, S, 13) BY ProductExists
<1>2. Multiplies(Product(S), S, 13) BY <1>1 DEF Product
<1> QED BY <1>2 DEF Multiplies, Exact

\* A common factor keeps two products apart as they are.
LEMMA CommonFactor ==
  ASSUME NEW x \in Nat, NEW y \in Nat, NEW c \in 0..100, NEW k \in 0..100
  PROVE  x * c \in Nat /\ (x * 100 = y * k => (x * c) * 100 = (y * c) * k)
<1> SUFFICES ASSUME x * 100 = y * k PROVE (x * c) * 100 = (y * c) * k
  OBVIOUS
<1>1. (x * c) * 100 = (x * 100) * c OBVIOUS
<1>2. (y * k) * c = (y * c) * k OBVIOUS
<1> QED BY <1>1, <1>2

\* A finding takes its share of the product.
LEMMA ExactStep ==
  ASSUME NEW S \in SUBSET Table, OneEach(S), NEW f \in S
  PROVE  /\ OneEach(S \ {f})
         /\ Exact(S) * 100 = Exact(S \ {f}) * (100 - f.weight)
<1> DEFINE T == S \ {f}
           k == 100 - f.weight
           x == Product(S)
           y == Product(T)
           Done(i) == \E j \in 1..i : Ids[j] = f.id
           Same(i) == IF Done(i) THEN x[i] * 100 = y[i] * k ELSE x[i] = y[i]
           F == {i \in Nat : i <= 13 /\ ~Same(i)}
<1>1. T \in SUBSET Table /\ OneEach(T) BY DEF OneEach
<1>2. /\ x[0] = Whole /\ \A i \in 0..13 : x[i] \in Nat
      /\ \A i \in 1..13 : x[i] = x[i - 1] * Left(S, Ids[i])
  BY ProductIs
<1>3. /\ y[0] = Whole /\ \A i \in 0..13 : y[i] \in Nat
      /\ \A i \in 1..13 : y[i] = y[i - 1] * Left(T, Ids[i])
  BY <1>1, ProductIs
<1>4. k \in 0..100 /\ Left(S, f.id) = k /\ Left(T, f.id) = 100
  <2>1. \A g \in T : g.id # f.id BY DEF OneEach
  <2>2. Left(S, f.id) = k /\ Left(S, f.id) \in 66..100 BY LeftIs
  <2> QED BY <1>1, <2>1, <2>2, LeftIs
<1>5. ASSUME NEW id, id # f.id PROVE Left(S, id) = Left(T, id)
  <2>1. CASE \E g \in S : g.id = id
    <3>1. PICK g \in S : g.id = id BY <2>1
    <3>2. g \in T BY <1>5, <3>1
    <3>3. Left(S, g.id) = 100 - g.weight BY LeftIs
    <3>4. Left(T, g.id) = 100 - g.weight BY <1>1, <3>2, LeftIs
    <3> QED BY <3>1, <3>3, <3>4
  <2>2. CASE ~ \E g \in S : g.id = id
    <3>1. Left(S, id) = 100 BY <2>2, LeftIs
    <3>2. Left(T, id) = 100 BY <1>1, <2>2, LeftIs
    <3> QED BY <3>1, <3>2
  <2> QED BY <2>1, <2>2
<1>6. \A id : Left(S, id) \in 0..100 /\ Left(T, id) \in 0..100
  <2>1. \A id : Left(S, id) \in 66..100 BY LeftIs
  <2>2. \A id : Left(T, id) \in 66..100 BY <1>1, LeftIs
  <2> QED BY <2>1, <2>2
<1> HIDE DEF T, k, x, y
<1>7. F = {}
  <2> SUFFICES ASSUME F # {} PROVE FALSE
    OBVIOUS
  <2>1. PICK m \in F : \A i \in F : m <= i
    <3>1. F \in SUBSET Nat OBVIOUS
    <3> HIDE DEF F
    <3> QED BY <3>1, Smallest
  <2>2. CASE m = 0 BY <1>2, <1>3, <2>1, <2>2
  <2>3. CASE m # 0
    <3>1. m - 1 \in Nat /\ m - 1 \notin F /\ m \in 1..13 /\ m - 1 \in 0..13 BY <2>1, <2>3
    <3>2. Same(m - 1) BY <3>1
    <3> DEFINE a == x[m - 1]
               b == y[m - 1]
               c == Left(S, Ids[m])
               d == Left(T, Ids[m])
    <3>3. Done(m) <=> Done(m - 1) \/ Ids[m] = f.id
      <4>1. 1..m = 1..(m - 1) \cup {m} BY <3>1
      <4> QED BY <4>1
    <3>4. ~(Done(m - 1) /\ Ids[m] = f.id) BY <3>1, IdsAre
    <3>5. c \in 0..100 /\ d \in 0..100 BY <1>6
    <3>6. x[m] = a * c /\ y[m] = b * d BY <1>2, <1>3, <3>1
    <3>7. a \in Nat /\ b \in Nat BY <1>2, <1>3, <3>1
    <3>8. CASE Done(m - 1)
      <4>1. c = d /\ a * 100 = b * k BY <1>5, <3>2, <3>4, <3>8
      <4> HIDE DEF a, b, c, d, Done
      <4>2. (a * c) * 100 = (b * c) * k BY <1>4, <3>5, <3>7, <4>1, CommonFactor
      <4> QED BY <3>3, <3>6, <3>8, <4>1, <4>2
    <3>9. CASE ~Done(m - 1) /\ Ids[m] = f.id
      <4>1. c = k /\ d = 100 /\ a = b BY <1>4, <3>2, <3>9
      <4> HIDE DEF a, b, c, d, Done
      <4>2. (a * k) * 100 = (a * 100) * k BY <1>4, <3>7
      <4> QED BY <3>3, <3>6, <3>9, <4>1, <4>2
    <3>10. CASE ~Done(m - 1) /\ Ids[m] # f.id
      <4>1. c = d /\ a = b BY <1>5, <3>2, <3>10
      <4> HIDE DEF a, b, c, d, Done
      <4> QED BY <3>3, <3>6, <3>10, <4>1
    <3>11. Same(m) BY <3>8, <3>9, <3>10
    <3> QED BY <2>1, <3>11 DEF F
  <2> QED BY <2>2, <2>3
<1>8. Same(13)
  <2> HIDE DEF Same
  <2> QED BY <1>7
<1>9. Done(13) BY IdsAre
<1> QED BY <1>1, <1>8, <1>9 DEF x, y, T, k, Exact

\* Scale is what Exact({}) has for each unit, and no set of findings leaves less
\* than 625 of them.
LEMMA ExactBounds ==
  /\ Scale \in Nat /\ Scale > 0
  /\ Exact({}) = Whole * Scale
  /\ \A S \in SUBSET Table : OneEach(S) => 625 * Scale <= Exact(S)
<1>1. Exact({}) = Whole * 100000000000000000000000000
  <2> DEFINE x == Product({})
  <2>1. OneEach({}) BY DEF OneEach
  <2>2. \A id : Left({}, id) = 100 BY <2>1, LeftIs
  <2>3. /\ x[0] = Whole /\ \A i \in 0..13 : x[i] \in Nat
        /\ \A i \in 1..13 : x[i] = x[i - 1] * 100
    BY <2>1, <2>2, ProductIs
  <2> HIDE DEF x
  <2>4. /\ x[1] = x[0] * 100 /\ x[2] = x[1] * 100 /\ x[3] = x[2] * 100 /\ x[4] = x[3] * 100
        /\ x[5] = x[4] * 100 /\ x[6] = x[5] * 100 /\ x[7] = x[6] * 100 /\ x[8] = x[7] * 100
        /\ x[9] = x[8] * 100 /\ x[10] = x[9] * 100 /\ x[11] = x[10] * 100
        /\ x[12] = x[11] * 100 /\ x[13] = x[12] * 100
    BY <2>3
  <2>5. x[13] = x[0] * 100000000000000000000000000 BY <2>3, <2>4, SMT
  <2> QED BY <2>3, <2>5 DEF x, Exact
<1>2. Scale = 100000000000000000000000000 BY <1>1, SMT DEF Scale, Whole, Point
<1>3. ASSUME NEW S \in SUBSET Table, OneEach(S) PROVE 625 * Scale <= Exact(S)
  <2> DEFINE x == Product(S)
  <2>1. /\ x[0] = Whole /\ \A i \in 0..13 : x[i] \in Nat
        /\ \A i \in 1..13 : x[i] = x[i - 1] * Left(S, Ids[i])
    BY <1>3, ProductIs
  <2> HIDE DEF x
  <2>2. ASSUME NEW i \in 1..13 PROVE x[i - 1] * 66 <= x[i]
    <3>1. Left(S, Ids[i]) \in 66..100 BY <1>3, LeftIs
    <3>2. \A n \in Nat, k \in 66..100 : n * 66 <= n * k OBVIOUS
    <3>3. x[i - 1] \in Nat BY <2>1
    <3> QED BY <2>1, <3>1, <3>2, <3>3
  <2>3. /\ x[0] * 66 <= x[1] /\ x[1] * 66 <= x[2] /\ x[2] * 66 <= x[3] /\ x[3] * 66 <= x[4]
        /\ x[4] * 66 <= x[5] /\ x[5] * 66 <= x[6] /\ x[6] * 66 <= x[7] /\ x[7] * 66 <= x[8]
        /\ x[8] * 66 <= x[9] /\ x[9] * 66 <= x[10] /\ x[10] * 66 <= x[11]
        /\ x[11] * 66 <= x[12] /\ x[12] * 66 <= x[13]
    BY <2>2
  <2>4. /\ x[0] \in Nat /\ x[1] \in Nat /\ x[2] \in Nat /\ x[3] \in Nat /\ x[4] \in Nat
        /\ x[5] \in Nat /\ x[6] \in Nat /\ x[7] \in Nat /\ x[8] \in Nat /\ x[9] \in Nat
        /\ x[10] \in Nat /\ x[11] \in Nat /\ x[12] \in Nat /\ x[13] \in Nat
    BY <2>1
  <2>5. 625 * Scale <= x[13] BY <1>2, <2>1, <2>3, <2>4, SMT DEF Whole, Point
  <2> QED BY <2>5 DEF x, Exact
<1>4. Scale \in Nat /\ Scale > 0 BY <1>2, SMT
<1> QED BY <1>1, <1>2, <1>3, <1>4

LEMMA OneRounding ==
  ASSUME NEW unit \in Nat, NEW r \in Nat, NEW r0 \in Nat, NEW e \in Nat, NEW e0 \in Nat,
         NEW k \in 66..96, e * 100 = e0 * k,
         100 * r <= r0 * k, r0 * k <= 100 * r + 99,
         unit * r0 <= e0, e0 <= unit * (r0 + 25)
  PROVE  unit * r <= e /\ e <= unit * (r + 25)
<1>1. unit * (100 * r) <= unit * (r0 * k) OBVIOUS
<1>2. (unit * r0) * k <= e0 * k OBVIOUS
<1>3. e0 * k <= (unit * (r0 + 25)) * k OBVIOUS
<1>4. (unit * (r0 + 25)) * k = unit * (r0 * k + 25 * k) OBVIOUS
<1>5. unit * (r0 * k + 25 * k) <= unit * (100 * r + 99 + 2400)
  <2>1. r0 * k + 25 * k <= 100 * r + 2499 /\ r0 * k + 25 * k \in Nat OBVIOUS
  <2> QED BY <2>1
<1>6. (unit * r0) * k = unit * (r0 * k) OBVIOUS
<1>7. unit * (100 * r) = 100 * (unit * r) OBVIOUS
<1>8. unit * (100 * r + 2499) <= unit * (100 * (r + 25)) OBVIOUS
<1>9. unit * (100 * (r + 25)) = 100 * (unit * (r + 25)) OBVIOUS
<1>10. /\ unit * r \in Nat /\ unit * (r + 25) \in Nat /\ e0 * k \in Nat
       /\ unit * (r0 * k) \in Nat /\ unit * (r0 * k + 25 * k) \in Nat
  OBVIOUS
<1>11. 100 * (unit * r) <= e * 100 BY <1>1, <1>2, <1>6, <1>7, <1>10
<1>12. e * 100 <= 100 * (unit * (r + 25)) BY <1>3, <1>4, <1>5, <1>8, <1>9, <1>10
<1> QED BY <1>10, <1>11, <1>12

\* The score rounds down at every finding; the product tells by how much at most.
LEMMA RemainingIsExact ==
  ASSUME NEW S \in SUBSET Table, IsFiniteSet(S), OneEach(S)
  PROVE  Scale * Remaining(S) <= Exact(S) /\ Exact(S) <= Scale * (Remaining(S) + 25)
<1> DEFINE Close(T) == /\ Scale * Remaining(T) <= Exact(T)
                       /\ Exact(T) <= Scale * (Remaining(T) + 25)
           F == {T \in SUBSET S : ~Close(T)}
<1> SUFFICES ASSUME F # {} PROVE FALSE
  OBVIOUS
<1>1. PICK T \in F : \A U \in F : U \subseteq T => U = T
  <2>1. F \in SUBSET SUBSET S OBVIOUS
  <2> HIDE DEF F
  <2> QED BY <2>1, MinimalSet
<1>2. /\ IsFiniteSet(T) /\ T \in SUBSET Table /\ T \in SUBSET Graded
      /\ OneEach(T)
  BY FS_Subset, TableIsGraded DEF OneEach
<1>3. CASE T = {}
  <2>1. Remaining(T) = Whole /\ Whole \in Nat BY <1>2, <1>3, RemainingStep, WholeIs
  <2>2. Exact(T) = Whole * Scale /\ Scale \in Nat BY <1>3, ExactBounds
  <2> QED BY <1>1, <2>1, <2>2
<1>4. CASE T # {}
  <2>1. PICK f \in T : Remaining(T) = Less(Remaining(T \ {f}), f)
    BY <1>2, <1>4, RemainingStep
  <2> DEFINE r == Remaining(T)
             r0 == Remaining(T \ {f})
             e == Exact(T)
             e0 == Exact(T \ {f})
             k == 100 - f.weight
  <2>2. /\ T \ {f} \in SUBSET Graded /\ IsFiniteSet(T \ {f}) /\ OneEach(T \ {f})
        /\ e * 100 = e0 * k
    BY <1>2, ExactStep, FS_Subset
  <2>3. r \in Nat /\ r0 \in Nat
    <3>1. r \in 0..Whole /\ r0 \in 0..Whole BY <1>2, <2>2, RemainingBounds
    <3> QED BY <3>1, WholeIs
  <2>4. e \in Nat /\ e0 \in Nat /\ Scale \in Nat BY <1>2, <2>2, ProductIs, ExactBounds
  <2>5. f \in Graded BY <1>2
  <2>6. 100 * r <= r0 * k /\ r0 * k <= 100 * r + 99 BY <2>1, <2>3, <2>5, LessIs
  <2>7. k \in 66..96
    <3>1. \A g \in Table : g.weight \in 4..34 BY WeightsAre
    <3> QED BY <1>2, <3>1
  <2>8. Close(T \ {f})
    <3>1. T \ {f} \notin F BY <1>1
    <3> QED BY <3>1
  <2> HIDE DEF r, r0, e, e0, k
  <2>9. Scale * r0 <= e0 /\ e0 <= Scale * (r0 + 25) BY <2>8 DEF r0, e0
  <2>10. Scale * r <= e /\ e <= Scale * (r + 25)
    BY <2>2, <2>3, <2>4, <2>6, <2>7, <2>9, OneRounding
  <2> QED BY <1>1, <2>10 DEF r, e
<1> QED BY <1>3, <1>4

\* Each finding of S is in T, or one of its id that counts for more.
Covers(T, S) ==
  \A f \in S : \E g \in T : /\ g.id = f.id
                            /\ f.weight <= g.weight
                            /\ SEVERITY_FLOOR[f.severity] <= SEVERITY_FLOOR[g.severity]

\* Two findings of an id differ in weight, by four at least.
LEMMA TableDiffers ==
  \A f, g \in Table : f.id = g.id /\ f # g /\ f.weight <= g.weight => f.weight + 4 <= g.weight
<1>1. \A f, g \in Payload \cup Mention :
        f.id = g.id /\ f # g /\ f.weight <= g.weight => f.weight + 4 <= g.weight
  BY DEF Payload, Mention, Finding
<1>2. \A f, g \in Tampering \cup Lowered :
        f.id = g.id /\ f # g /\ f.weight <= g.weight => f.weight + 4 <= g.weight
  BY DEF Tampering, Lowered, Finding
<1>3. \A f, g \in Copy : f = g BY DEF Copy, Finding
<1>4. \A f \in Payload \cup Mention : f.id \in PAYLOAD_FINDING_IDS
  BY DEF Payload, Mention, Finding, PAYLOAD_FINDING_IDS
<1>5. \A f \in Tampering \cup Lowered : f.id \in TAMPERING_FINDING_IDS
  BY DEF Tampering, Lowered, Finding, TAMPERING_FINDING_IDS
<1>6. \A f \in Copy : f.id \notin PAYLOAD_FINDING_IDS \cup TAMPERING_FINDING_IDS
  BY DEF Copy, Finding, PAYLOAD_FINDING_IDS, TAMPERING_FINDING_IDS
<1>7. PAYLOAD_FINDING_IDS \cap TAMPERING_FINDING_IDS = {}
  BY DEF PAYLOAD_FINDING_IDS, TAMPERING_FINDING_IDS
<1>8. Table = (Payload \cup Mention) \cup (Tampering \cup Lowered) \cup Copy
  BY DEF Table, Raw
<1> QED BY <1>1, <1>2, <1>3, <1>4, <1>5, <1>6, <1>7, <1>8

LEMMA CoverLeavesLess ==
  ASSUME NEW S \in SUBSET Table, NEW T \in SUBSET Table, OneEach(S), OneEach(T), Covers(T, S)
  PROVE  /\ \A id : Left(T, id) <= Left(S, id)
         /\ S # T => \E i \in 1..13 : Left(T, Ids[i]) + 4 <= Left(S, Ids[i])
<1>1. ASSUME NEW id PROVE Left(T, id) <= Left(S, id)
  <2>1. CASE \E f \in S : f.id = id
    <3>1. PICK f \in S : f.id = id BY <2>1
    <3>2. PICK g \in T : g.id = id /\ f.weight <= g.weight BY <3>1 DEF Covers
    <3>3. Left(S, id) = 100 - f.weight /\ Left(T, id) = 100 - g.weight
      BY <3>1, <3>2, LeftIs
    <3>4. f.weight \in 4..34 /\ g.weight \in 4..34 BY WeightsAre
    <3> QED BY <3>2, <3>3, <3>4
  <2>2. CASE ~ \E f \in S : f.id = id
    <3>1. Left(S, id) = 100 /\ Left(T, id) \in 66..100 BY <2>2, LeftIs
    <3> QED BY <3>1
  <2> QED BY <2>1, <2>2
<1>2. ASSUME S # T PROVE \E i \in 1..13 : Left(T, Ids[i]) + 4 <= Left(S, Ids[i])
  <2>1. PICK g \in T : g \notin S
    <3> SUFFICES ASSUME T \subseteq S PROVE S \subseteq T
      BY <1>2
    <3> SUFFICES ASSUME NEW f \in S PROVE f \in T
      OBVIOUS
    <3>1. PICK g \in T : g.id = f.id BY DEF Covers
    <3> QED BY <3>1 DEF OneEach
  <2>2. PICK i \in 1..13 : Ids[i] = g.id BY IdsAre
  <2>3. Left(T, g.id) = 100 - g.weight /\ g.weight \in 4..34 BY LeftIs, WeightsAre
  <2>4. CASE \E f \in S : f.id = g.id
    <3>1. PICK f \in S : f.id = g.id BY <2>4
    <3>2. PICK h \in T : h.id = f.id /\ f.weight <= h.weight BY DEF Covers
    <3>3. h = g BY <3>1, <3>2 DEF OneEach
    <3>4. f.weight + 4 <= g.weight BY <2>1, <3>1, <3>2, <3>3, TableDiffers
    <3>5. Left(S, g.id) = 100 - f.weight /\ f.weight \in 4..34 BY <3>1, LeftIs, WeightsAre
    <3> QED BY <2>2, <2>3, <3>4, <3>5
  <2>5. CASE ~ \E f \in S : f.id = g.id
    <3>1. Left(S, g.id) = 100 BY <2>5, LeftIs
    <3> QED BY <2>2, <2>3, <3>1
  <2> QED BY <2>4, <2>5
<1> QED BY <1>1, <1>2

LEMMA LesserFactor ==
  ASSUME NEW x \in Nat, NEW y \in Nat, NEW c \in 0..100, NEW d \in 0..100, x <= y, c <= d
  PROVE  /\ x * c <= y * d
         /\ 25 * x <= 24 * y \/ c + 4 <= d => 25 * (x * c) <= 24 * (y * d)
<1>1. x * c <= y * c /\ y * c <= y * d OBVIOUS
<1>2. CASE 25 * x <= 24 * y
  <2>1. (25 * x) * c <= (24 * y) * c BY <1>2
  <2> QED BY <1>1, <2>1
<1>3. CASE c + 4 <= d
  <2>1. 25 * c <= 24 * d BY <1>3
  <2>2. y * (25 * c) <= y * (24 * d) BY <2>1
  <2> QED BY <1>1, <2>2
<1> QED BY <1>1, <1>2, <1>3

\* One factor that is less by four hundredths makes the product that much less.
LEMMA ExactLess ==
  ASSUME NEW S \in SUBSET Table, NEW T \in SUBSET Table, OneEach(S), OneEach(T),
         Covers(T, S), S # T
  PROVE  25 * Exact(T) <= 24 * Exact(S)
<1> DEFINE x == Product(T)
           y == Product(S)
           Done(i) == \E j \in 1..i : Left(T, Ids[j]) + 4 <= Left(S, Ids[j])
           Lower(i) == x[i] <= y[i] /\ (Done(i) => 25 * x[i] <= 24 * y[i])
           F == {i \in Nat : i <= 13 /\ ~Lower(i)}
<1>1. /\ x[0] = Whole /\ \A i \in 0..13 : x[i] \in Nat
      /\ \A i \in 1..13 : x[i] = x[i - 1] * Left(T, Ids[i])
  BY ProductIs
<1>2. /\ y[0] = Whole /\ \A i \in 0..13 : y[i] \in Nat
      /\ \A i \in 1..13 : y[i] = y[i - 1] * Left(S, Ids[i])
  BY ProductIs
<1>3. \A id : Left(T, id) \in 0..100 /\ Left(S, id) \in 0..100 /\ Left(T, id) <= Left(S, id)
  <2>1. \A id : Left(T, id) \in 66..100 /\ Left(S, id) \in 66..100 BY LeftIs
  <2> QED BY <2>1, CoverLeavesLess
<1>4. Done(13) BY CoverLeavesLess
<1> HIDE DEF x, y
<1>5. F = {}
  <2> SUFFICES ASSUME F # {} PROVE FALSE
    OBVIOUS
  <2>1. PICK m \in F : \A i \in F : m <= i
    <3>1. F \in SUBSET Nat OBVIOUS
    <3> HIDE DEF F
    <3> QED BY <3>1, Smallest
  <2>2. CASE m = 0
    <3>1. x[0] <= y[0] /\ ~Done(0) BY <1>1, <1>2, WholeIs
    <3> QED BY <2>1, <2>2, <3>1
  <2>3. CASE m # 0
    <3>1. m - 1 \in Nat /\ m - 1 \notin F /\ m \in 1..13 /\ m - 1 \in 0..13 BY <2>1, <2>3
    <3>2. Lower(m - 1) BY <3>1
    <3> DEFINE a == x[m - 1]
               b == y[m - 1]
               c == Left(T, Ids[m])
               d == Left(S, Ids[m])
    <3>3. Done(m) <=> Done(m - 1) \/ c + 4 <= d
      <4>1. 1..m = 1..(m - 1) \cup {m} BY <3>1
      <4> QED BY <4>1
    <3>4. c \in 0..100 /\ d \in 0..100 /\ c <= d BY <1>3
    <3>5. x[m] = a * c /\ y[m] = b * d BY <1>1, <1>2, <3>1
    <3>6. a \in Nat /\ b \in Nat BY <1>1, <1>2, <3>1
    <3>7. a <= b /\ (Done(m - 1) => 25 * a <= 24 * b) BY <3>2
    <3> HIDE DEF a, b, c, d, Done, F
    <3>8. /\ a * c <= b * d
          /\ 25 * a <= 24 * b \/ c + 4 <= d => 25 * (a * c) <= 24 * (b * d)
      BY <3>4, <3>6, <3>7, LesserFactor
    <3>9. Lower(m) BY <3>3, <3>5, <3>7, <3>8
    <3> QED BY <2>1, <3>9 DEF F
  <2> QED BY <2>2, <2>3
<1>6. Lower(13)
  <2> HIDE DEF Lower
  <2> QED BY <1>5
<1> QED BY <1>4, <1>6 DEF x, y, Exact

\* More than all the rounding makes up for.
LEMMA ScoreGrows ==
  ASSUME NEW S \in SUBSET Table, NEW T \in SUBSET Table, OneEach(S), OneEach(T), Covers(T, S)
  PROVE  scoreFromFindings(S) <= scoreFromFindings(T)
<1>1. /\ IsFiniteSet(S) /\ IsFiniteSet(T)
      /\ S \in SUBSET Graded /\ T \in SUBSET Graded
  BY TableIsFinite, TableIsGraded, FS_Subset
<1>2. /\ Remaining(S) \in Nat /\ Remaining(T) \in Nat
      /\ Remaining(S) <= Whole /\ Remaining(T) <= Whole
  <2>1. Remaining(S) \in 0..Whole /\ Remaining(T) \in 0..Whole BY <1>1, RemainingBounds
  <2> QED BY <2>1, WholeIs
<1>3. Remaining(T) <= Remaining(S)
  <2>1. CASE S = T BY <1>2, <2>1
  <2>2. CASE S # T
    <3>1. 25 * Exact(T) <= 24 * Exact(S) BY <2>2, ExactLess
    <3>2. Scale * Remaining(T) <= Exact(T) BY <1>1, RemainingIsExact
    <3>3. Exact(S) <= Scale * (Remaining(S) + 25) BY <1>1, RemainingIsExact
    <3>4. 625 * Scale <= Exact(S) /\ Exact(S) \in Nat /\ Exact(T) \in Nat
      BY ExactBounds, ProductIs
    <3> DEFINE u == Scale
    <3>5. u \in Nat /\ u > 0 BY ExactBounds
    <3> HIDE DEF u
    <3>6. u * Remaining(T) \in Nat /\ u * Remaining(S) \in Nat BY <1>2, <3>5
    <3>7. u * (Remaining(S) + 25) = u * Remaining(S) + 25 * u BY <1>2, <3>5
    <3>8. Exact(S) <= u * Remaining(S) + 25 * u BY <3>3, <3>7 DEF u
    <3>9. u * Remaining(T) <= Exact(T) /\ 625 * u <= Exact(S) BY <3>2, <3>4 DEF u
    <3>10. u * Remaining(T) <= u * Remaining(S) BY <3>1, <3>4, <3>5, <3>6, <3>8, <3>9
    <3>11. \A m, n \in Nat : u * m <= u * n => m <= n BY <3>5
    <3> QED BY <1>2, <3>10, <3>11
  <2> QED BY <2>1, <2>2
<1> DEFINE acc(U) == RoundedDiv(Whole - Remaining(U), Point)
<1>4. acc(S) <= acc(T)
  <2>1. Whole = 10000000 /\ Point = 100000 BY SMT DEF Whole, Point
  <2> QED BY <1>2, <1>3, <2>1, SMT DEF RoundedDiv
<1>5. /\ acc(S) \in 0..100 /\ acc(T) \in 0..100 /\ scoreFromFindings(T) \in 0..100
      /\ acc(T) <= scoreFromFindings(T)
      /\ \A g \in T : SEVERITY_FLOOR[g.severity] <= scoreFromFindings(T)
      /\ \/ scoreFromFindings(S) \in {0, acc(S)}
         \/ \E f \in S : scoreFromFindings(S) = SEVERITY_FLOOR[f.severity]
  BY <1>1, ScoreIs
<1> HIDE DEF acc
<1>6. CASE scoreFromFindings(S) \in {0, acc(S)} BY <1>4, <1>5, <1>6
<1>7. CASE \E f \in S : scoreFromFindings(S) = SEVERITY_FLOOR[f.severity]
  <2>1. PICK f \in S : scoreFromFindings(S) = SEVERITY_FLOOR[f.severity] BY <1>7
  <2>2. PICK g \in T : SEVERITY_FLOOR[f.severity] <= SEVERITY_FLOOR[g.severity]
    BY DEF Covers
  <2>3. SEVERITY_FLOOR[f.severity] \in 0..100 /\ SEVERITY_FLOOR[g.severity] \in 0..100
    BY <1>1, SMT DEF Graded, Severities, SEVERITY_FLOOR
  <2> QED BY <1>5, <2>1, <2>2, <2>3
<1> QED BY <1>5, <1>6, <1>7

\* Every rule has an id of its own.
LEMMA RulesFindOneEach ==
  ASSUME NEW R, NEW d
  PROVE  OneEach(REPO_RULES(R, d))
<1> DEFINE Only(S, id) == OneEach(S) /\ \A f \in S : f.id = id
<1>1. \A id, severity, weight : Only(Finding(id, severity, weight), id) /\ Only({}, id)
  BY DEF Finding, OneEach
<1> HIDE DEF Only
<1>2. Only(readmeReferencesArchive(R), "readme-references-archive")
  BY <1>1 DEF readmeReferencesArchive, NoFinding
<1>3. Only(readmeDownloadBadgeToArchive(R), "readme-download-badge")
  BY <1>1 DEF readmeDownloadBadgeToArchive, NoFinding
<1>4. Only(readmePasswordProtectedArchive(R), "readme-password-archive")
  BY <1>1 DEF readmePasswordProtectedArchive, NoFinding
<1>5. Only(readmeUrlShortener(R), "readme-url-shortener")
  BY <1>1 DEF readmeUrlShortener, NoFinding
<1>6. Only(readmeDownloadLure(R), "readme-download-lure")
  BY <1>1 DEF readmeDownloadLure, NoFinding
<1>7. Only(latestCommitOnlyReadme(R), "latest-commit-only-readme")
  BY <1>1 DEF latestCommitOnlyReadme, NoFinding
<1>8. Only(trivialReadmeCommitMessage(R), "trivial-readme-commit-message")
  BY <1>1 DEF trivialReadmeCommitMessage, NoFinding
<1>9. Only(staleCodeFreshReadme(R), "stale-code-fresh-readme")
  BY <1>1 DEF staleCodeFreshReadme, NoFinding
<1>10. Only(clonedHistorySinglePusher(R), "cloned-history-single-pusher")
  BY <1>1 DEF clonedHistorySinglePusher, NoFinding
<1>11. Only(suspiciousReleaseAsset(R), "suspicious-release-asset")
  BY <1>1 DEF suspiciousReleaseAsset, NoFinding
<1>12. Only(suspiciousTreePayload(R), "suspicious-tree-payload")
  BY <1>1 DEF suspiciousTreePayload, NoFinding
<1>13. Only(archiveBuriedDeep(R), "archive-buried-deep")
  BY <1>1 DEF archiveBuriedDeep, NoFinding
<1>14. Only(notForkButDuplicateName(R, d), "not-fork-but-duplicate")
  BY <1>1 DEF notForkButDuplicateName, NoFinding
<1> QED
  BY <1>2, <1>3, <1>4, <1>5, <1>6, <1>7, <1>8, <1>9, <1>10, <1>11, <1>12, <1>13, <1>14
  DEF Only, OneEach, REPO_RULES

LEMMA FindingsAreOneEach ==
  ASSUME NEW R, NEW d
  PROVE  OneEach(FindingsOf(R, d))
<1> DEFINE raw == REPO_RULES(R, d)
           S == FindingsOf(R, d)
<1>1. OneEach(raw) /\ raw \subseteq Raw BY RulesFindOneEach, RulesFind
<1>2. /\ raw \cap Payload # {} => S = raw
      /\ raw \cap Payload = {} =>
           S = (raw \ Tampering) \cup {demoteTampering(f) : f \in raw \cap Tampering}
  BY GateIs
<1> HIDE DEF raw, S
<1>3. CASE raw \cap Payload # {} BY <1>1, <1>2, <1>3 DEF S
<1>4. CASE raw \cap Payload = {}
  <2>1. \A f \in S : \E h \in raw :
          h.id = f.id /\ f = (IF h \in Tampering THEN demoteTampering(h) ELSE h)
    BY <1>2, <1>4, DemotedIs
  <2> SUFFICES ASSUME NEW f \in S, NEW g \in S, f.id = g.id PROVE f = g
    BY DEF OneEach, S
  <2>2. PICK h \in raw :
          h.id = f.id /\ f = (IF h \in Tampering THEN demoteTampering(h) ELSE h)
    BY <2>1
  <2>3. PICK k \in raw :
          k.id = g.id /\ g = (IF k \in Tampering THEN demoteTampering(k) ELSE k)
    BY <2>1
  <2>4. h = k BY <1>1, <2>2, <2>3 DEF OneEach
  <2> QED BY <2>2, <2>3, <2>4
<1> QED BY <1>3, <1>4

\* Tampering is found by the rules about commits alone.
LEMMA OtherRulesTell ==
  ASSUME NEW R, NEW d
  PROVE  /\ readmeReferencesArchive(R) \cap Tampering = {}
         /\ readmeDownloadBadgeToArchive(R) \cap Tampering = {}
         /\ readmePasswordProtectedArchive(R) \cap Tampering = {}
         /\ readmeUrlShortener(R) \cap Tampering = {}
         /\ readmeDownloadLure(R) \cap Tampering = {}
         /\ suspiciousReleaseAsset(R) \cap Tampering = {}
         /\ suspiciousTreePayload(R) \cap Tampering = {}
         /\ archiveBuriedDeep(R) \cap Tampering = {}
         /\ notForkButDuplicateName(R, d) \cap Tampering = {}
<1> DEFINE Other(S) == \A f \in S : f.id \notin TAMPERING_FINDING_IDS
<1>1. \A f \in Tampering : f.id \in TAMPERING_FINDING_IDS
  BY DEF Tampering, Finding, TAMPERING_FINDING_IDS
<1>2. \A id, severity, weight :
        id \notin TAMPERING_FINDING_IDS => Other(Finding(id, severity, weight))
  BY DEF Finding
<1>3. Other({}) OBVIOUS
<1> HIDE DEF Other
<1>4. Other(readmeReferencesArchive(R)) BY <1>2, <1>3 DEF readmeReferencesArchive, NoFinding, TAMPERING_FINDING_IDS
<1>5. Other(readmeDownloadBadgeToArchive(R)) BY <1>2, <1>3 DEF readmeDownloadBadgeToArchive, NoFinding, TAMPERING_FINDING_IDS
<1>6. Other(readmePasswordProtectedArchive(R)) BY <1>2, <1>3 DEF readmePasswordProtectedArchive, NoFinding, TAMPERING_FINDING_IDS
<1>7. Other(readmeUrlShortener(R)) BY <1>2, <1>3 DEF readmeUrlShortener, NoFinding, TAMPERING_FINDING_IDS
<1>8. Other(readmeDownloadLure(R)) BY <1>2, <1>3 DEF readmeDownloadLure, NoFinding, TAMPERING_FINDING_IDS
<1>9. Other(suspiciousReleaseAsset(R)) BY <1>2, <1>3 DEF suspiciousReleaseAsset, NoFinding, TAMPERING_FINDING_IDS
<1>10. Other(suspiciousTreePayload(R)) BY <1>2, <1>3 DEF suspiciousTreePayload, NoFinding, TAMPERING_FINDING_IDS
<1>11. Other(archiveBuriedDeep(R)) BY <1>2, <1>3 DEF archiveBuriedDeep, NoFinding, TAMPERING_FINDING_IDS
<1>12. Other(notForkButDuplicateName(R, d))
  BY <1>2, <1>3 DEF notForkButDuplicateName, NoFinding, TAMPERING_FINDING_IDS
<1> QED BY <1>1, <1>4, <1>5, <1>6, <1>7, <1>8, <1>9, <1>10, <1>11, <1>12 DEF Other

\* What a repository with more of everything but commits has.
Exceeds(r, a) ==
  /\ r.readme.links \subseteq a.readme.links
  /\ r.readme.phrases \subseteq a.readme.phrases
  /\ r.assets \subseteq a.assets
  /\ r.tree \subseteq a.tree
  /\ a.commits = r.commits /\ a.contributors = r.contributors /\ a.isFork = r.isFork

LEMMA MoreIsFound ==
  ASSUME NEW r, NEW a, Exceeds(r, a), NEW d
  PROVE  /\ Covers(REPO_RULES(a, d), REPO_RULES(r, d))
         /\ REPO_RULES(a, d) \cap Tampering = REPO_RULES(r, d) \cap Tampering
<1>1. /\ BinaryUrls(r) \subseteq BinaryUrls(a)
      /\ BinaryFileTokens(r) => BinaryFileTokens(a)
  BY DEF Exceeds, BinaryUrls, BinaryFileTokens
<1>2. /\ \A u \in r.readme.links : u \in a.readme.links
      /\ \A p \in r.readme.phrases : p \in a.readme.phrases
      /\ r.assets \subseteq a.assets /\ r.tree \subseteq a.tree
  BY DEF Exceeds
<1>3. /\ readmeDownloadBadgeToArchive(r) \subseteq readmeDownloadBadgeToArchive(a)
      /\ readmeUrlShortener(r) \subseteq readmeUrlShortener(a)
  BY <1>2 DEF readmeDownloadBadgeToArchive, readmeUrlShortener, NoFinding
<1>4. readmePasswordProtectedArchive(r) \subseteq readmePasswordProtectedArchive(a)
  <2>1. r.assets \ {"notes"} # {} => a.assets \ {"notes"} # {} BY <1>2
  <2>2. BinaryUrls(r) # {} => BinaryUrls(a) # {} BY <1>1
  <2> QED BY <1>1, <1>2, <2>1, <2>2 DEF readmePasswordProtectedArchive, NoFinding
<1>5. readmeDownloadLure(r) \subseteq readmeDownloadLure(a)
  <2>1. BinaryUrls(r) # {} => BinaryUrls(a) # {} BY <1>1
  <2> QED BY <1>1, <1>2, <2>1 DEF readmeDownloadLure, NoFinding
<1>6. /\ suspiciousTreePayload(r) \subseteq suspiciousTreePayload(a)
      /\ archiveBuriedDeep(r) \subseteq archiveBuriedDeep(a)
  BY <1>2 DEF suspiciousTreePayload, archiveBuriedDeep, NoFinding
<1>7. notForkButDuplicateName(r, d) = notForkButDuplicateName(a, d)
  BY DEF Exceeds, notForkButDuplicateName
<1>8. /\ latestCommitOnlyReadme(r) = latestCommitOnlyReadme(a)
      /\ trivialReadmeCommitMessage(r) = trivialReadmeCommitMessage(a)
  BY DEF Exceeds, latestCommitOnlyReadme, trivialReadmeCommitMessage, Latest
<1>9. staleCodeFreshReadme(r) = staleCodeFreshReadme(a)
  BY DEF Exceeds, staleCodeFreshReadme, Latest
<1>10. clonedHistorySinglePusher(r) = clonedHistorySinglePusher(a)
  <2>1. HumanCommits(r) = HumanCommits(a) BY DEF Exceeds, HumanCommits
  <2> QED BY <2>1 DEF Exceeds, clonedHistorySinglePusher
<1>11. ASSUME NEW f \in readmeReferencesArchive(r)
       PROVE  \E g \in readmeReferencesArchive(a) :
                /\ g.id = f.id /\ f.weight <= g.weight
                /\ SEVERITY_FLOOR[f.severity] <= SEVERITY_FLOOR[g.severity]
  <2> DEFINE strong == Finding("readme-references-archive", "medium", 18)
  <2>1. readmeReferencesArchive(r) \subseteq strong \cup Mention
    BY DEF readmeReferencesArchive, WEIGHTS, NoFinding, Mention
  <2>2. CASE \E u \in BinaryUrls(a) : u.host # "github"
    <3>1. readmeReferencesArchive(a) = strong BY <2>2 DEF readmeReferencesArchive, WEIGHTS
    <3>2. PICK g \in strong : TRUE BY DEF Finding
    <3>3. /\ g.id = f.id /\ f.weight <= g.weight
          /\ SEVERITY_FLOOR[f.severity] <= SEVERITY_FLOOR[g.severity]
      BY <2>1, <3>2 DEF Finding, Mention, SEVERITY_FLOOR
    <3> QED BY <3>1, <3>3
  <2>3. CASE ~ \E u \in BinaryUrls(a) : u.host # "github"
    <3>1. ~ \E u \in BinaryUrls(r) : u.host # "github" BY <1>1, <2>3
    <3>2. BinaryUrls(r) # {} \/ BinaryFileTokens(r)
      BY <3>1 DEF readmeReferencesArchive, NoFinding
    <3>3. BinaryUrls(a) # {} \/ BinaryFileTokens(a) BY <1>1, <3>2
    <3>4. readmeReferencesArchive(a) = Mention /\ readmeReferencesArchive(r) = Mention
      BY <2>3, <3>1, <3>2, <3>3 DEF readmeReferencesArchive, Mention
    <3>5. \A g \in Mention : g.weight <= g.weight
                             /\ SEVERITY_FLOOR[g.severity] <= SEVERITY_FLOOR[g.severity]
      BY DEF Mention, Finding, SEVERITY_FLOOR
    <3> QED BY <3>4, <3>5
  <2> QED BY <2>2, <2>3
<1>12. ASSUME NEW f \in suspiciousReleaseAsset(r)
       PROVE  \E g \in suspiciousReleaseAsset(a) :
                /\ g.id = f.id /\ f.weight <= g.weight
                /\ SEVERITY_FLOOR[f.severity] <= SEVERITY_FLOOR[g.severity]
  <2> DEFINE strong == Finding("suspicious-release-asset", "critical", 34)
             weak == Finding("suspicious-release-asset", "medium", 12)
  <2>1. suspiciousReleaseAsset(r) \subseteq strong \cup weak
    BY DEF suspiciousReleaseAsset, WEIGHTS, NoFinding
  <2>2. CASE "loader" \in a.assets
    <3>1. suspiciousReleaseAsset(a) = strong BY <2>2 DEF suspiciousReleaseAsset, WEIGHTS
    <3>2. PICK g \in strong : TRUE BY DEF Finding
    <3>3. /\ g.id = f.id /\ f.weight <= g.weight
          /\ SEVERITY_FLOOR[f.severity] <= SEVERITY_FLOOR[g.severity]
      BY <2>1, <3>2 DEF Finding, SEVERITY_FLOOR
    <3> QED BY <3>1, <3>3
  <2>3. CASE "loader" \notin a.assets
    <3>1. suspiciousReleaseAsset(r) = weak /\ suspiciousReleaseAsset(a) = weak
      BY <1>2, <2>3 DEF suspiciousReleaseAsset, WEIGHTS, NoFinding
    <3>2. \A g \in weak : g.weight <= g.weight
                          /\ SEVERITY_FLOOR[g.severity] <= SEVERITY_FLOOR[g.severity]
      BY DEF Finding, SEVERITY_FLOOR
    <3> QED BY <3>1, <3>2
  <2> QED BY <2>2, <2>3
<1>13. \A f \in Table : f.weight <= f.weight
                        /\ SEVERITY_FLOOR[f.severity] <= SEVERITY_FLOOR[f.severity]
  BY TableIsGraded, SMT DEF Graded, Severities, SEVERITY_FLOOR
<1>14. \A f \in REPO_RULES(r, d) :
         \/ f \in REPO_RULES(a, d)
         \/ f \in readmeReferencesArchive(r) \/ f \in suspiciousReleaseAsset(r)
  BY <1>3, <1>4, <1>5, <1>6, <1>7, <1>8, <1>9, <1>10 DEF REPO_RULES
<1>15. /\ readmeReferencesArchive(a) \subseteq REPO_RULES(a, d)
       /\ suspiciousReleaseAsset(a) \subseteq REPO_RULES(a, d)
  BY DEF REPO_RULES
<1>16. Covers(REPO_RULES(a, d), REPO_RULES(r, d))
  <2>1. REPO_RULES(r, d) \subseteq Table BY RulesFind DEF Table
  <2> QED BY <1>11, <1>12, <1>13, <1>14, <1>15, <2>1 DEF Covers
<1>17. REPO_RULES(a, d) \cap Tampering = REPO_RULES(r, d) \cap Tampering
  <2> DEFINE commits(R) == latestCommitOnlyReadme(R) \cup trivialReadmeCommitMessage(R)
                           \cup staleCodeFreshReadme(R) \cup clonedHistorySinglePusher(R)
  <2>1. ASSUME NEW R PROVE REPO_RULES(R, d) \cap Tampering = commits(R) \cap Tampering
    BY OtherRulesTell DEF REPO_RULES
  <2> QED BY <1>8, <1>9, <1>10, <2>1
<1> QED BY <1>16, <1>17

\* The gate, too, leaves more of more: it may open, and closed it lowers the same.
LEMMA GateCovers ==
  ASSUME NEW r, NEW a, Exceeds(r, a), NEW d
  PROVE  Covers(FindingsOf(a, d), FindingsOf(r, d))
<1> DEFINE R == REPO_RULES(r, d)
           A == REPO_RULES(a, d)
           S == FindingsOf(r, d)
           T == FindingsOf(a, d)
           More(f, g) == /\ g.id = f.id /\ f.weight <= g.weight
                         /\ SEVERITY_FLOOR[f.severity] <= SEVERITY_FLOOR[g.severity]
<1>1. Covers(A, R) /\ A \cap Tampering = R \cap Tampering BY MoreIsFound
<1>2. R \subseteq Raw /\ A \subseteq Raw BY RulesFind
<1>3. /\ R \cap Payload # {} => S = R
      /\ R \cap Payload = {} =>
           S = (R \ Tampering) \cup {demoteTampering(h) : h \in R \cap Tampering}
  BY GateIs
<1>4. /\ A \cap Payload # {} => T = A
      /\ A \cap Payload = {} =>
           T = (A \ Tampering) \cup {demoteTampering(h) : h \in A \cap Tampering}
  BY GateIs
<1> HIDE DEF R, A
<1>5. \A f \in R : \E g \in A : More(f, g) BY <1>1 DEF Covers
<1>6. R \cap Payload # {} => A \cap Payload # {}
  <2> SUFFICES ASSUME NEW p \in R \cap Payload PROVE A \cap Payload # {}
    OBVIOUS
  <2>1. PICK g \in A : More(p, g) BY <1>5
  <2>2. \A f \in Payload : f.weight \in 12..34 /\ f.id \in PAYLOAD_FINDING_IDS
    BY PayloadWeighs, RawIs DEF Raw, IsPayload
  <2>3. \A f \in Mention : f.weight = 4 BY DEF Mention, Finding
  <2>4. g \notin Mention BY <2>1, <2>2, <2>3
  <2>5. \A f \in Tampering \cup Copy : f.id \notin PAYLOAD_FINDING_IDS
    BY DEF Tampering, Copy, Finding, PAYLOAD_FINDING_IDS
  <2>6. g \in Payload BY <1>2, <2>1, <2>2, <2>4, <2>5 DEF Raw
  <2> QED BY <2>6
<1>7. \A f \in Lowered : f.weight <= f.weight /\ SEVERITY_FLOOR[f.severity] = 0
  <2>1. Lowered \subseteq Table BY DEF Table
  <2>2. \A f \in Lowered : f.weight \in 4..34 BY <2>1, WeightsAre
  <2> QED BY <2>2, LoweredIs DEF SEVERITY_FLOOR
<1>8. \A f \in Tampering : SEVERITY_FLOOR[f.severity] \in {0, 35}
  BY DEF Tampering, Finding, SEVERITY_FLOOR
<1>9. ASSUME NEW f \in S PROVE \E g \in T : More(f, g)
  <2>1. CASE A \cap Payload = {}
    <3>1. CASE f \in R \ Tampering
      <4>1. PICK g \in A : More(f, g) BY <1>5, <3>1
      <4>2. g \notin Tampering BY <1>2, <3>1, <4>1, RawIs
      <4> QED BY <1>4, <2>1, <4>1, <4>2
    <3>2. CASE f \notin R \ Tampering
      <4>1. PICK h \in R \cap Tampering : f = demoteTampering(h) BY <1>3, <1>6, <2>1, <3>2
      <4>2. f \in T BY <1>1, <1>4, <2>1, <4>1
      <4>3. More(f, f) BY <1>7, <4>1, DemotedIs
      <4> QED BY <4>2, <4>3
    <3> QED BY <3>1, <3>2
  <2>2. CASE A \cap Payload # {}
    <3>1. CASE f \in R BY <1>4, <1>5, <2>2, <3>1
    <3>2. CASE f \notin R
      <4>1. PICK h \in R \cap Tampering : f = demoteTampering(h) BY <1>3, <3>2
      <4>2. h \in T BY <1>1, <1>4, <2>2, <4>1
      <4>3. f \in Lowered /\ h.id = f.id /\ f.weight <= h.weight BY <4>1, DemotedIs
      <4>4. More(f, h) BY <1>7, <1>8, <4>1, <4>3
      <4> QED BY <4>2, <4>4
    <3> QED BY <3>1, <3>2
  <2> QED BY <2>1, <2>2
<1> HIDE DEF S, T
<1> QED BY <1>9 DEF Covers, S, T

LEMMA EditExceeds ==
  ASSUME AuditInv, Extend, NEW P
  PROVE  Exceeds(Snapshot(P), Snapshot(P)')
<1>1. repo \in Repo /\ repo' \in Repo BY EditStep DEF AuditInv, TypeOK
<1>2. /\ repo.readme.links \subseteq repo'.readme.links
      /\ repo.readme.phrases \subseteq repo'.readme.phrases
      /\ repo.assets \subseteq repo'.assets /\ repo.tree \subseteq repo'.tree
      /\ repo'.commits = repo.commits /\ repo'.contributors = repo.contributors
      /\ repo'.isFork = repo.isFork
  <2>1. CASE \E u \in Links \ repo.readme.links :
               Edit([repo EXCEPT !.readme.links = @ \cup {u}])
    BY <1>1, <2>1 DEF Edit, Repo
  <2>2. CASE \E p \in Phrases \ repo.readme.phrases :
               Edit([repo EXCEPT !.readme.phrases = @ \cup {p}])
    BY <1>1, <2>2 DEF Edit, Repo
  <2>3. CASE \E a \in Assets \ repo.assets : Edit([repo EXCEPT !.assets = @ \cup {a}])
    BY <1>1, <2>3 DEF Edit, Repo
  <2>4. CASE \E f \in TreeFiles \ repo.tree : Edit([repo EXCEPT !.tree = @ \cup {f}])
    BY <1>1, <2>4 DEF Edit, Repo
  <2> QED BY <2>1, <2>2, <2>3, <2>4 DEF Extend
<1>3. mapCommits(P)' = mapCommits(P) BY <1>2 DEF mapCommits
<1>4. LET r == Snapshot(P) IN
      /\ r.readme = IF "readme" \in P THEN repo.readme ELSE NoReadme
      /\ r.commits = mapCommits(P)
      /\ r.contributors = IF "contributors" \in P THEN repo.contributors ELSE 0
      /\ r.isFork = repo.isFork
      /\ r.assets = IF "releases" \in P THEN repo.assets ELSE {}
      /\ r.tree = IF "tree" \in P THEN repo.tree ELSE {}
  BY <1>1, SnapshotIs
<1>5. LET a == Snapshot(P)' IN
      /\ a.readme = IF "readme" \in P THEN repo'.readme ELSE NoReadme
      /\ a.commits = mapCommits(P)'
      /\ a.contributors = IF "contributors" \in P THEN repo'.contributors ELSE 0
      /\ a.isFork = repo'.isFork
      /\ a.assets = IF "releases" \in P THEN repo'.assets ELSE {}
      /\ a.tree = IF "tree" \in P THEN repo'.tree ELSE {}
  BY <1>1, PartsOf DEF Snapshot
<1> DEFINE r == Snapshot(P)
           a == Snapshot(P)'
<1> HIDE DEF r, a
<1> QED BY <1>2, <1>3, <1>4, <1>5 DEF Exceeds, r, a

\* More links, phrases, assets or files never lower the score a repository has
\* when every fetch succeeds (score.ts, evaluate.ts).
THEOREM EvidenceIsNeverExonerating == Spec => EvidenceNeverExonerates
<1>1. AuditInv /\ [Next]_vars =>
        [Extend => scoreFromFindings(AllFindings)' >= scoreFromFindings(AllFindings)]_vars
  <2> SUFFICES ASSUME AuditInv, Extend
               PROVE  scoreFromFindings(AllFindings)' >= scoreFromFindings(AllFindings)
    OBVIOUS
  <2>1. deep' = deep /\ duplicate' = duplicate BY EditStep
  <2>2. ASSUME NEW P, NEW d
        PROVE  scoreFromFindings(FindingsOf(Snapshot(P)', d))
                 >= scoreFromFindings(FindingsOf(Snapshot(P), d))
    <3> DEFINE S == FindingsOf(Snapshot(P), d)
               T == FindingsOf(Snapshot(P)', d)
    <3>1. Covers(T, S) BY EditExceeds, GateCovers
    <3>2. /\ S \in SUBSET Table /\ T \in SUBSET Table /\ OneEach(S) /\ OneEach(T)
          /\ IsFiniteSet(S) /\ IsFiniteSet(T) /\ S \in SUBSET Graded /\ T \in SUBSET Graded
      BY FindingsAre, FindingsAreOneEach
    <3> HIDE DEF S, T
    <3>3. scoreFromFindings(S) <= scoreFromFindings(T) BY <3>1, <3>2, ScoreGrows
    <3>4. scoreFromFindings(S) \in 0..100 /\ scoreFromFindings(T) \in 0..100
      BY <3>2, ScoreIs
    <3> QED BY <3>3, <3>4 DEF S, T
  <2>3. CASE deep
    <3>1. /\ scoreFromFindings(AllFindings) = scoreFromFindings(FindingsOf(Snapshot(Parts), duplicate))
          /\ scoreFromFindings(AllFindings)'
               = scoreFromFindings(FindingsOf(Snapshot(Parts)', duplicate))
      BY <2>1, <2>3 DEF AllFindings
    <3> QED BY <2>2, <3>1
  <2>4. CASE ~deep
    <3> DEFINE Shallow == Parts \ {"tree"}
    <3>1. /\ scoreFromFindings(AllFindings) = scoreFromFindings(FindingsOf(Snapshot(Shallow), duplicate))
          /\ scoreFromFindings(AllFindings)'
               = scoreFromFindings(FindingsOf(Snapshot(Shallow)', duplicate))
      BY <2>1, <2>4 DEF AllFindings
    <3> QED BY <2>2, <3>1
  <2> QED BY <2>3, <2>4
<1> QED BY <1>1, AuditInvariant, PTL DEF Spec, EvidenceNeverExonerates
=============================================================================
