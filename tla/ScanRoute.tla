----------------------------- MODULE ScanRoute -----------------------------
(***************************************************************************)
(* A scan on demand (src/routes/scan.ts) and the calls to GitHub it makes: *)
(*                                                                         *)
(*   self     POST /report: the account and the repositories of the caller *)
(*   account  POST /scan of an account                                     *)
(*   repo     POST /scan of one repository                                 *)
(*   clones   POST /clones: copies of the caller's repositories            *)
(*                                                                         *)
(* Items are worked on by mapWithConcurrency; the clone search runs a pool *)
(* of candidates inside each of its items.  Which of GitHub's answers a    *)
(* snapshot survives is in SnapshotAudit; here it is a verdict or, with    *)
(* luck, none.                                                             *)
(***************************************************************************)
EXTENDS WorkerPool, GitHubClient, AccountReport

CONSTANTS
  Repos,              \* the repositories of the account that is listed
  InitialOrder,       \* how GitHub sorts them before anything is pushed
  Eligible, Stars,    \* those that are neither forks nor private; their stars
  Others,             \* who may own a repository of the same name
  PerPage, MaxPages,  \* of listRepos: 100 and 3
  DefaultLimit, MaxLimit,      \* of POST /report: 30 and 60
  DefaultSources, MaxSources,  \* of POST /clones: 10 and 15
  MaxCandidates,      \* 8 in the code
  Asked,              \* the numbers a query may ask for, in halves; 0 for none
  MaxPushes,          \* bound on pushes during the listing
  Verdicts, Accounts, Confidences  \* samples of what an evaluation may yield

ASSUME ScanAssumption ==
  /\ InitialOrder \in Seq(Repos)
  /\ \A r \in Repos : \E i \in DOMAIN InitialOrder : InitialOrder[i] = r
  /\ Len(InitialOrder) = Cardinality(Repos)
  /\ Eligible \subseteq Repos
  /\ Stars \in [Repos -> Nat]
  /\ {PerPage, MaxPages, DefaultLimit, MaxLimit, DefaultSources, MaxSources,
      MaxCandidates, MaxPushes} \subseteq Nat \ {0}
  /\ DefaultLimit <= MaxLimit /\ MaxLimit <= PerPage
  /\ Asked \subseteq Int
  /\ Verdicts \subseteq RepoVerdict
  /\ Accounts \subseteq Account
  /\ Confidences \subseteq 0..100

VARIABLES
  kind,     \* what is scanned
  asked,    \* the number in the query, in halves: an odd one is a fraction
  stage,    \* the call the handler awaits
  attempt,  \* retries of that call so far
  order,    \* the repositories as GitHub sorts them, last pushed first
  listed,   \* the pages so far
  page,     \* the page that is fetched
  pushes,   \* pushes since the first page was asked for
  items,    \* what the pool works on
  work,     \* the state of the work on each item
  spent,    \* fetches so far
  account,  \* the account as GitHub describes it
  response, \* "none", "ok", or the error code the handler answers
  tally     \* recordScan: "none", "due", "counted", or "lost" if it failed

request == <<kind, asked>>
listing == <<order, listed, page, pushes>>
mapping == <<poolVars, items, work>>
NoAccount == [publicRepos |-> 0]

vars == <<request, stage, attempt, listing, account, mapping, spent, response, tally>>

Init ==
  /\ PoolInit
  /\ kind = "none"
  /\ asked \in Asked
  /\ stage = "start"
  /\ attempt = 0
  /\ order = InitialOrder
  /\ listed = <<>>
  /\ page = 1
  /\ pushes = 0
  /\ items = <<>>
  /\ work = <<>>
  /\ spent = 0
  /\ account = NoAccount
  /\ response = "none"
  /\ tally = "none"

-----------------------------------------------------------------------------
(***************************************************************************)
(* The request                                                             *)
(***************************************************************************)

\* The segments of the target, each a valid name of GitHub or not.
parseTarget(parts) ==
  IF Len(parts) = 1 /\ parts[1] THEN "account"
  ELSE IF Len(parts) >= 2 /\ parts[1] /\ parts[2] THEN "repo" ELSE "bad"

\* Mutant: the limit is not capped.
UncappedLimit(h) == IF h <= 0 THEN DefaultLimit ELSE h \div 2

\* Math.floor comes after the test: a half asks for nothing at all.
clampLimit(h) == IF h <= 0 THEN DefaultLimit ELSE Lesser(h \div 2, MaxLimit)

\* The end of a slice loses its fraction, towards zero.
ToInteger(h) == IF h >= 0 THEN h \div 2 ELSE -((-h) \div 2)

\* No lower bound is applied to it.
maxSources == Lesser(IF asked = 0 THEN DefaultSources ELSE ToInteger(asked), MaxSources)

\* slice(0, n) of JavaScript: a negative n drops from the end.
Slice(s, n) ==
  IF n >= 0 THEN SubSeq(s, 1, Lesser(n, Len(s))) ELSE SubSeq(s, 1, Len(s) + n)

Answer(r) == response' = r /\ stage' = "done"

Receive(k) ==
  /\ stage = "start"
  /\ kind' = k
  /\ IF k = "bad" THEN Answer("bad_target")
     ELSE /\ stage' = CASE k = "clones" -> "list" [] k = "repo" -> "repo" [] OTHER -> "user"
          /\ UNCHANGED response
  /\ UNCHANGED <<asked, attempt, listing, account, mapping, spent, tally>>

ReceiveScan == \E n \in 0..3 : \E parts \in [1..n -> BOOLEAN] : Receive(parseTarget(parts))

-----------------------------------------------------------------------------
(***************************************************************************)
(* Calls whose failure ends the scan                                       *)
(***************************************************************************)

\* One fetch; Proceed is what follows when it brings a result.
Fetch(Proceed) ==
  /\ spent' = spent + 1
  /\ \E a \in Answers :
       \/ a = "ok" /\ attempt' = 0 /\ Proceed
       \/ /\ Retried(a, attempt)
          /\ attempt' = attempt + 1
          /\ UNCHANGED <<stage, listing, account, response>>
       \/ /\ a # "ok" /\ ~Retried(a, attempt)
          /\ \E e \in Errors(a) : Answer(e)
          /\ UNCHANGED <<attempt, listing, account>>
  /\ UNCHANGED <<request, mapping, tally>>

GetUser ==
  /\ stage = "user"
  /\ Fetch(account' \in Accounts /\ stage' = "list" /\ UNCHANGED <<listing, response>>)

GetRepo ==
  /\ stage = "repo"
  /\ Fetch(stage' = "snapshot" /\ UNCHANGED <<listing, account, response>>)

Page(n) == SubSeq(order, (n - 1) * PerPage + 1, Lesser(n * PerPage, Len(order)))

LastPage(n) == Len(Page(n)) < PerPage \/ n = MaxPages

ListRepos ==
  /\ stage = "list"
  /\ Fetch(/\ listed' = listed \o Page(page)
           /\ page' = page + 1
           /\ stage' = IF LastPage(page) THEN "select" ELSE "list"
           /\ UNCHANGED <<order, pushes, account, response>>)

\* A push between two pages moves the repository to the first one: what was
\* there may be listed again.
Pushed(i) ==
  /\ stage = "list"
  /\ pushes < MaxPushes
  /\ pushes' = pushes + 1
  /\ order' = <<order[i]>> \o SubSeq(order, 1, i - 1) \o SubSeq(order, i + 1, Len(order))
  /\ UNCHANGED <<request, stage, attempt, listed, page, account, mapping, spent, response, tally>>

-----------------------------------------------------------------------------
(***************************************************************************)
(* The pool                                                                *)
(***************************************************************************)
\* The listed places that pass the filter, by stars; sort is stable.
Sources ==
  LET eligible == {i \in DOMAIN listed : listed[i] \in Eligible}
      Before(i, j) ==
        \/ Stars[listed[i]] > Stars[listed[j]]
        \/ Stars[listed[i]] = Stars[listed[j]] /\ i < j
      sorted == {p \in [1..Cardinality(eligible) -> eligible] :
                   \A j, k \in DOMAIN p : j < k => Before(p[j], p[k])}
  IN {Slice([j \in DOMAIN p |-> listed[p[j]]], maxSources) : p \in sorted}

Selected ==
  CASE kind = "self" -> {Slice(listed, clampLimit(asked))}
    [] kind = "account" -> {Slice(listed, DefaultLimit)}
    [] kind = "clones" -> Sources

NoWork == [searched |-> FALSE]

Select ==
  /\ stage = "select"
  /\ stage' = "map"
  /\ items' \in Selected
  /\ work' = [i \in DOMAIN items' |-> NoWork]
  /\ StartPool(Len(items'))
  /\ UNCHANGED <<request, attempt, listing, account, spent, response, tally>>

\* Fetches of a snapshot: five, six with the tree; each may be retried.
Costs(calls) == {calls * c : c \in CallCost}

\* buildRepoSnapshotSafe and evaluateRepo of one repository.  No snapshot comes of
\* a body that is not what the code expects.
Scanned(w) ==
  /\ stage = "map" /\ kind # "clones"
  /\ w \in Working(pool)
  /\ \/ \E v \in Verdicts : work' = [work EXCEPT ![pool.at[w]] = v] /\ Settles(w, "ok")
     \/ UNCHANGED work /\ Settles(w, "failed")
  /\ \E c \in Costs(5) : spent' = spent + c
  /\ UNCHANGED <<request, stage, attempt, listing, account, items, response, tally>>

Task(w) == work[pool.at[w]]

\* What the search for the name of a repository may find.
Suspects == {s \in UNION {[1..n -> Others] : n \in 0..MaxCandidates} :
               \A j, k \in DOMAIN s : s[j] = s[k] => j = k}

\* The search, and the filter on name and owner.  Its failure leaves the item
\* without suspects; a body of another shape fails the item.
SearchClones(w) ==
  /\ stage = "map" /\ kind = "clones"
  /\ w \in Working(pool)
  /\ ~Task(w).searched
  /\ \E c \in CallCost : spent' = spent + c
  /\ \/ /\ \E s \in Suspects :
             work' = [work EXCEPT ![pool.at[w]] =
                        [searched |-> TRUE, suspects |-> s, inner |-> PoolOf(Len(s)),
                         confidences |-> [k \in DOMAIN s |-> 0]]]
        /\ UNCHANGED poolVars
     \/ UNCHANGED work /\ Settles(w, "failed")
  /\ UNCHANGED <<request, stage, attempt, listing, account, items, response, tally>>

\* Worker v of the candidates of worker w's item: snapshot, evaluateRepo and
\* buildCloneMatch.
Inspect(w, v) ==
  /\ stage = "map" /\ kind = "clones"
  /\ w \in Working(pool)
  /\ Task(w).searched
  /\ v \in Working(Task(w).inner)
  /\ LET t == Task(w)
         Judged(o, c) == [t EXCEPT !.inner = Settled(t.inner, v, o),
                                   !.confidences[t.inner.at[v]] = c]
     IN \E judged \in {Judged("ok", c) : c \in Confidences} \cup {Judged("failed", 0)} :
          work' = [work EXCEPT ![pool.at[w]] = judged]
  /\ \E c \in Costs(6) : spent' = spent + c
  /\ UNCHANGED <<request, stage, attempt, listing, account, poolVars, items, response, tally>>

Inspected(w) ==
  /\ stage = "map" /\ kind = "clones"
  /\ w \in Working(pool)
  /\ Task(w).searched
  /\ Working(Task(w).inner) = {}
  /\ Settles(w, "ok")
  /\ UNCHANGED <<request, stage, attempt, listing, account, items, work, spent, response, tally>>

CollectItems ==
  /\ stage = "map"
  /\ CollectResults
  /\ stage' = "report"
  /\ UNCHANGED <<request, attempt, listing, account, items, work, spent, response, tally>>

-----------------------------------------------------------------------------
(***************************************************************************)
(* The report                                                              *)
(***************************************************************************)

\* Mutant: the last match of a suspect wins.
KeepLast(match, kept) ==
  {m \in kept : m.suspect # match.suspect} \cup {match}

\* bySuspect.set.
Keep(match, kept) ==
  IF \E m \in kept : m.suspect = match.suspect /\ m.confidence >= match.confidence
  THEN kept
  ELSE {m \in kept : m.suspect # match.suspect} \cup {match}

\* What an item adds: its candidates above the threshold.  They differ in their
\* owners, so that their order does not matter.
KeepMatches(i, before) ==
  LET t == work[i]
      Match(k) == [suspect |-> <<t.suspects[k], items[i]>>, confidence |-> t.confidences[k]]
      kept[k \in 0..Len(t.suspects)] ==
        IF k = 0 THEN before
        ELSE IF Match(k).confidence >= minConfidence THEN Keep(Match(k), kept[k - 1])
        ELSE kept[k - 1]
  IN kept[Len(t.suspects)]

\* The loop over perRepo.flat().
bySuspect ==
  LET kept[j \in 0..Len(result)] ==
        IF j = 0 THEN {} ELSE KeepMatches(result[j], kept[j - 1])
  IN kept[Len(result)]

\* What evaluateAccount makes of the repositories that were scanned.
AccountReported == evaluateAccount(account, [j \in DOMAIN result |-> work[result[j]]])

\* recordScan is left to waitUntil when the report is made.
Reported == Answer("ok") /\ tally' = "due"

\* Report: AccountReported, or the rows of bySuspect.
Report ==
  /\ stage = "report"
  /\ Reported
  /\ UNCHANGED <<request, attempt, listing, account, mapping, spent>>

ScanRepo ==
  /\ stage = "snapshot"
  /\ Reported \/ (Answer("scan_failed") /\ UNCHANGED tally)
  /\ \E c \in Costs(6) : spent' = spent + c
  /\ UNCHANGED <<request, attempt, listing, account, mapping>>

\* recordScan; its failure is logged.
RecordScan ==
  /\ tally = "due"
  /\ tally' \in {"counted", "lost"}
  /\ UNCHANGED <<request, stage, attempt, listing, account, mapping, spent, response>>

ScanStep ==
  \/ Receive("self") \/ Receive("clones") \/ ReceiveScan
  \/ GetUser \/ GetRepo \/ ListRepos \/ Select
  \/ \E w \in DOMAIN pool.at : Scanned(w) \/ SearchClones(w) \/ Inspected(w)
  \/ \E w \in DOMAIN pool.at : \E v \in 1..Width : Inspect(w, v)
  \/ CollectItems \/ Report \/ ScanRepo \/ RecordScan

ScanNext == ScanStep \/ \E i \in DOMAIN order : Pushed(i)

\* A fetch settles and a continuation runs: the runtime aborts neither.
ScanSpec == Init /\ [][ScanNext]_vars /\ WF_vars(ScanStep)

-----------------------------------------------------------------------------
(***************************************************************************)
(* Properties                                                              *)
(***************************************************************************)
Reporting(kinds) == kind \in kinds /\ stage = "done" /\ response = "ok"

TypeOK ==
  /\ kind \in {"none", "self", "account", "repo", "clones", "bad"}
  /\ stage \in {"start", "user", "repo", "list", "select", "map", "report", "snapshot", "done"}
  /\ attempt \in 0..maxRetries
  /\ listed \in Seq(Repos)
  /\ page \in 1..MaxPages+1
  /\ items \in Seq(Repos)
  /\ DOMAIN work = DOMAIN items
  /\ spent \in Nat
  /\ tally \in {"none", "due", "counted", "lost"}

\* No repository is reported on twice, though a push while the pages are fetched
\* may list it twice: the limit of a report fits one page.
NoRepoTwiceInReport ==
  kind \in {"self", "account"} => \A i, j \in DOMAIN items : items[i] = items[j] => i = j

\* "Keep the highest-confidence match per suspect so the report has no duplicate
\* rows" (clone-detection.ts:88-90): each suspect above the threshold has one row,
\* with the best of what its inspections yielded, and there are no other rows.
BestMatchPerSuspect ==
  Reporting({"clones"}) =>
    LET Found == UNION {{[suspect |-> <<work[i].suspects[k], items[i]>>,
                          confidence |-> work[i].confidences[k]] :
                           k \in DOMAIN work[i].suspects} :
                             i \in {j \in DOMAIN items : work[j].searched}}
        Above == {m \in Found : m.confidence >= minConfidence}
    IN bySuspect =
         {m \in Above : \A n \in Above : n.suspect = m.suspect => n.confidence <= m.confidence}

\* "An account hosting one clearly-malicious repo can't read as safe overall"
\* (evaluate.ts:106): one critical repository flags its account.
WorstRepoFlagsTheAccount ==
  Reporting({"self", "account"}) =>
    \/ isFlagged(AccountReported.band)
    \/ \A j \in DOMAIN result : bandForScore(work[result[j]].score) # "critical"

\* A burst of creations is reported exactly if some seven days saw enough of the
\* repositories that were scanned, wherever the window lies.
BurstsAreFound ==
  Reporting({"self", "account"}) =>
    LET Created(j) == work[result[j]].created
        In(d) == {j \in DOMAIN result : Created(j) \in d..(d + WindowDays)}
    IN (\E f \in AccountReported.findings : f.id = "account-clustered-activity")
       <=> \E j \in DOMAIN result : Cardinality(In(Created(j))) >= clusteredActivityMinRepos

\* What a scan costs at most when nothing is retried (scan.ts:178-182).
Worst ==
  LET each == IF kind = "clones" THEN 1 + MaxCandidates * 6 ELSE 5
  IN 1 + MaxPages + (IF kind = "repo" THEN 6 ELSE each * Len(items))

\* Retries multiply the cost of a scan by at most one more than their number.
SpendingIsBounded == spent <= (maxRetries + 1) * Worst

\* The "subrequest-budget invariant": a clone scan costs at most one search and
\* MaxCandidates snapshots of six calls for each of MaxSources sources, and the
\* listing (scan.ts:178-183).
WithinTheSubrequestBudget ==
  kind = "clones" => spent <= MaxPages + MaxSources * (1 + MaxCandidates * 6)

\* Every scan that was asked for is answered: retries end, the pool drains.
EveryScanAnswers == (kind # "none") ~> (stage = "done")
=============================================================================
