# A TLA+ model of GitHub Healthcheck

GitHub Healthcheck is a Cloudflare Worker (`src/`) with a React front end
(`web/`). It scores a user's repositories, searches GitHub for malicious clones
of them, and mails subscribers when a new clone appears. The Worker keeps its
state in a D1 (SQLite) database. A D1 statement is atomic and `DB.batch` is a
transaction; **nothing else is**: a handler gives up control at every `await`,
requests are served concurrently, and the daily scan runs beside them. That is
what this directory models.

Paths below are relative to the repository root.

## 1. Inventory

| Component | Code | State | Operations | What is hard |
|---|---|---|---|---|
| Alert tables | `src/alerts/store.ts` | `alert_subscriptions` (one row per login), `watched_repos`, `known_clones` | upsert, verify, deactivate, erase, set watched, record clones, two cron markers | statements keyed by login alone; child tables written apart from the row |
| Subscribe / confirm / cancel / erase requests | `src/routes/alerts.ts`, `src/routes/email.ts`, `DELETE /me` in `src/routes/scan.ts` | locals of each request | 6 awaited writes in a subscribe, 2 in a confirmation | interleaving with each other, failure half-way |
| Impersonation scan | `src/alerts/cron.ts`, started by `src/index.ts` | the shard it loaded, the subscriber it is at, estimated cost | load shard, probe token, search, diff, record, mail, mark | works on a snapshot; crash at any await; lost mail; budget |
| Sessions, OAuth | `src/auth/*`, `src/routes/middleware.ts` | `sessions`, the session and state cookies | sign-in, lookup, expiry, sweep, logout, erasure | a request holds a session that ends meanwhile; tabs share one state cookie |
| Users, roles, audit | `src/users/store.ts`, `src/admin/*`, `src/routes/admin.ts` | `users`, `admin_audit` | ensure, suspend, reinstate, set role | check and write are separate steps |
| Rate limiter | `src/ratelimit/store.ts`, `src/routes/rate-limit.ts` | `rate_events` | count-then-insert per tier, prune | concurrent count-then-insert, window edges |
| Inbox, reports | `src/messages/store.ts`, `src/reports/*`, `src/routes/contact.ts`, `src/admin/audit.ts` | `messages`, `reported_repos`, `admin_audit` | create, refresh, reply, triage, erase | write, audit row and mail are separate |
| GitHub client | `src/github/client.ts` | attempt counter | request with retries, list, search, revoke | which answers are retried, bounds |
| Snapshots, clone search | `src/github/snapshot.ts`, `clone-detection.ts` | shared cursor of the worker pool | `mapWithConcurrency`, search | workers on one cursor; swallowed failures |
| Scan routes | `src/routes/scan.ts`, `src/scans/*` | locals of the handler, the scan counters | report, scan, clones, record | pages that shift, nested pools, retries, the subrequest limit |
| Rule engine | `src/engine/*` | none | pure functions | boundaries of scores and windows |
| Front end | `web/src/*` | report cache, auth hint, drafts and busy flags of the console | load, cache, sign out, reply, triage | answers that arrive late, crossed or never |

Interaction: requests, the scan and GitHub share no memory; they meet in the
database and in the OAuth grant. Mail leaves through a binding that either takes
a message or throws. `PROJECT.json` lists each component with its status, and
under `hazards` what can go wrong in it at which line.

Properties that make the components correct, in the order of their weight:
a subscriber is mailed about a new clone once, at a confirmed address, and not
after leaving; erasure and unsubscribing leave nothing behind; no subscriber is
starved by the sharding; a dormant row holds no credential; limits hold under
concurrency; admin rules hold for the state that is written, not for the state
that was read; retries are bounded; a scan that loses some of its fetches never
accuses more than a complete one would; every administrative change is on the
audit trail; nobody stays signed in to an erased account.

## 2. Modules

| Module | Models |
|---|---|
| `AlertStore` | the tables and each statement or batch on them, as one action-level operator each |
| `Subscriptions` | the requests: `req[r]` is a handler in flight, `pc` the call it makes next, the other fields its locals; one action per await |
| `ImpersonationCron` | the scan: `cpc` is the call it makes next, `todo` the rest of the shard, `cur` the snapshot being worked on |
| `Alerts` | requests and scan together over the same tables and grants, with the safety properties and the inductive invariant |
| `AlertPromises` | what comments, pages and documents of the repository say of the subsystem, stated of `Alerts` |
| `ScanRotation` | the scan over a population of confirmed subscribers: shard, budget, markers and mails from run to run |
| `ScanRotationProofs` | the theorems about `ScanRotation` |
| `AlertsProofs` | the theorems about `Alerts` |
| `RateLimiter` | the rate limiter, as one caller meets it on one endpoint: a request counts tier by tier, then inserts; the cron prunes |
| `RateLimiterProofs` | the theorems about `RateLimiter` |
| `AdminRoles` | the users and audit tables, sign-ins, erasures, and administrators' requests as resolve, read, write |
| `AdminRolesProofs` | the theorems about `AdminRoles` |
| `Findings`, `RepoRules`, `Evaluate` | the rule engine: severities, weights and scores; the thirteen rules on a repository; the payload gate, the verdict and the clone confidence |
| `SnapshotAudit` | a repository its author edits, a scan of it any fetch of which may fail, and the verdict |
| `SnapshotAuditProofs` | the theorems about `SnapshotAudit` and the rule engine below it |
| `ParallelMap` | the abstract map that the comment of `mapWithConcurrency` promises |
| `WorkerPool` | `mapWithConcurrency` as written: workers on one iterator. `Map == INSTANCE ParallelMap` is the refinement |
| `GitHubClient`, `AccountReport` | which answers are retried and what a call costs; the account rules and the rollup |
| `ScanRoute` | the scan routes over the modules above: calls, pages, pools inside pools, the report, the counter |
| `ScanRouteProofs` | the theorems about `WorkerPool`, and over them those about `ScanRoute` |
| `Inbox` | the server half of support and triage: four awaited statements per update, mail beside them |
| `AdminConsole` | the browser half: `AdminInbox` and `AdminReports` over `Inbox` |
| `AdminConsoleProofs` | the theorems about `AdminConsole` and the `Inbox` below it |
| `Sessions` | the sessions table: create, look up, destroy, erase, sweep |
| `Browser` | the tabs of one browser, their cookies, localStorage, requests and the OAuth handshake, over `Sessions` |
| `BrowserProofs` | the theorems about `Browser` and the `Sessions` below it |
| `MCAlerts`, `MCRotation`, `MCRateLimiter`, `MCAdminRoles`, `MCSnapshotAudit`, `MCScanRoute`, `MCInbox`, `MCBrowser` | the instances TLC checks |

### Correspondence

* **Time.** `last_run_at` and `last_scanned_at` are the number of the run that
  wrote them; NULL is 0, which sorts first as NULL does in SQLite. A link's expiry
  is `never` (NULL), `future` or `past`; `LinkExpires` lets time pass over it.
* **Rows.** `sub[l]` is the row of login `l` or `None`. `UPDATE ... WHERE login`
  is `UpdateRow`, which does nothing without a row, as the statement does.
* **Tokens.** Every sign-in mints a token; `grant[l]` are those GitHub still
  accepts. Signing in again does not invalidate older ones. `DELETE
  /applications/{id}/token` (`src/github/client.ts:275-293`) removes one.
* **Subscribe.** `Upsert`, `ListRepos`, `ClearWatched`, `FillWatched`,
  `SearchBaseline`, `SeedBaseline`, `MailLink` are the awaits of
  `src/routes/alerts.ts:53-98` in order; `RequestFails` is the `catch` as well as
  an eviction.
* **Confirm.** `FollowLink` is the SELECT of `verifyByToken` with the expiry test,
  `Confirm` its UPDATE.
* **Scan.** One action per await of `scanSubscriber` and one per exit. The 401
  branch of the search (`src/alerts/cron.ts:144-148`) is unreachable because
  `findClonesForRepos` swallows its errors, so `Search` has no such outcome. At the
  send two things can go wrong: the service refuses the mail, which is logged, or the
  unsubscribe token cannot be made (`SendThrows`), which leaves the outer `try` as
  an aborted scan. The baseline is written by then.
* **ensureUser** is one action: whichever of its SELECT, INSERT OR IGNORE and
  re-read decides, the effect is that of one read-or-create.
* **Rate limiter.** A bucket is a caller and an action, so one caller on one
  endpoint shares rows with nobody else; an administrator's request returns before
  any statement. `Arrive` reads the clock (`Date.now()` on entry), `CountAllows`
  and `Deny` are the SELECT of one tier and what the loop does with it, `Insert`
  is the batch with one row per tier. `rate_events` has no key: rows are told
  apart by the number of the admission. `Prune` deletes by a clock reading that
  may be old, because the cron takes it when it is triggered. `served` and
  `advice` are history.
* **Administrators.** `Start` is `requireAuth` and `requireAdmin`: the actor is the
  row read there, and the policy looks at that snapshot again, so the actor's
  authority is checked once. `ReadTarget` is `getUser` with the decision, on the
  row as read; `Write` is the batch of UPDATE and audit INSERT. The batch writes
  by login: an erased target leaves an audit row without effect. Logins are
  compared as GitHub spells them. `log` is the audit table in the order of its
  commits; `created_at` is read before the batch, so the page that lists the table
  may show rows of overlapping requests the other way round. `seen` and `birth` are
  history.
* **Rules.** A rule's patterns see a text as what they tell apart in it: a link has
  a host (GitHub's, a badge's, a shortener's, another) and a path (archive,
  program, page); a commit has an author, whether its message is trivial, its
  files and its day. Archives linked by a relative path count as foreign, as
  `extractUrls` makes them. Weights, thresholds, floors and bands are the
  numbers of `src/engine/constants.ts` and `src/engine/score.ts`; a score is
  computed in integers, scaled so that rounding is exact.
* **Snapshot.** `FetchParts` is the `Promise.all` of `src/github/snapshot.ts:129`,
  `FetchFiles` and `FetchTree` the two calls after it; `got` is what came. The author
  edits before the scan only: an edit changes one part, and the files come by the sha
  of the commit, so that a scan overtaken by edits sees what fewer edits would have
  made. A repository always has a date, because `mapRepoMeta` supplies one; the
  filter of invalid dates in the account rules drops nothing.
* **Pool.** Taking from the iterator is synchronous, so a worker that settles an
  item takes the next in the same step. In `ScanRoute` the pool of candidates is
  a field of the work on an item.
* **Calls.** `Fetch` is one attempt of `request`; a call inside a pool is a number
  of attempts and an outcome, because nothing else happens between its attempts
  that anybody sees. Answers are those `isRetryable` and `errorResponse` tell
  apart. The number a query asks for is counted in halves: of a fraction the cap
  takes the floor, a slice drops what follows the point.
* **Inbox.** `Lookup`, `Write`, `WriteAudit`, `Reread` are the awaits of
  `src/routes/admin.ts:159-195` and `207-227`; `Fault` fails any of them. A
  reply's mail is in `outbox` until `SettleMail`. Texts are numbers, each typed
  once. `writer` and `decision` are history.
* **Console.** A click is `fetch` (`Sent`); `Settle` and `ApplyUpdate` are what its
  promise does. `busy` is the one `busyId` of `AdminInbox`; `crossed` is history.
* **Browser.** A request is sent with the cookies of that moment, served, and
  answered; cookies of the answer take effect on arrival. A page may have two scans
  under way, because leaving its tab and coming back starts another (`ScanKinds`).
  `ServeErase` is the lookup, after which the handler awaits the revocation, and
  `EraseRows` the batch. `NextId` is the fresh id of a session. `MeArrives` treats a 401
  as `api.me` does. A state cookie that has aged out behaves as a failed exchange,
  a token that no longer decrypts as a missing session. `switched`, `quiet` and
  `erased` are history.
* **History variables** record what no table does. In `Alerts`: `told` (mails per
  suspect while the baseline stands), `promised` (recorded for a mail that has not gone out),
  `confirmed` (addresses whose owner followed a link), `erased`, `issued`,
  `overlap` (a writer was in flight when the row went), `entitled` (who was owed
  alerts when the run began), `outcome`. `ScanRotation` adds `unsent`: the
  suspects whose mail did not go out. No action's guard reads `told`,
  `promised`, `confirmed`, `erased`, `overlap`, `entitled` or `outcome`, with the
  exception that `SendAlert` counts a mail for what is still promised.

Operators marked *Mutant* are plausible bugs of the operator below them. They are
used nowhere; replacing the original by its mutant must make TLC refute the
property `PROJECT.json` pairs it with.

## 3. Runs

| Run | Instance | Shows |
|---|---|---|
| `alerts_races` | 1 account, 2 request slots, 1 run, 2 links, crashes everywhere | type correctness; `DormantRowIsWiped`; `ConfirmedRowHasNoLink`; `QuiescentErasureIsComplete`; `StopsWithinOneRun` |
| `alerts_two_days` | 1 account, 1 slot, 2 runs, 2 suspects | `NoDuplicateAlert` across runs, failed mails and aborted scans |
| `rotation` | 3 subscribers, shards of 2, 4 runs, a budget below the cost of a subscriber who watches both repositories | `NobodyStarves`, `MarkersTellTheOutcome`, `EveryRunServesSomeone`, `AlertsAreLostOnlyInTheMail` |
| `rate_burst` | 2 requests at once, 2 tiers, clock to 7, the cron's horizon is the longest window | `OvershootBounded`, `ServedBounded`, `NothingForgotten`, `AdviceIsTight`, `AdviceSuffices` |
| `admin_races` | a permanent administrator and two other accounts with any stored roles, 2 requests, 2 audit rows | `SuspensionIsAccountedFor`, `RoleIsAccountedFor`, `PermanentAdminsStand`, `AdminsAreSuspendedOnlyInARace` |
| `rule_engine` | a repository with two edits and two commits, every link kind, every subset of fetches failing, as itself or as a copy | `FailuresOnlyWeaken`, `MaintenanceStaysBelowElevated`, `CanonicalComboIsFlagged`, `StructureAloneNeverAlerts`, `CopyWithPayloadIsReported`, `EvidenceNeverExonerates` |
| `scan_routes` | 4 repositories on pages of 3, a push between pages, 2 workers, 2 candidates, 1 retry, every kind of answer | that the pool is a parallel map (`MapSpec`), `NoRepoTwiceInReport`, `BestMatchPerSuspect`, `WorstRepoFlagsTheAccount`, `BurstsAreFound`, `SpendingIsBounded`, and `EveryScanAnswers` under fairness |
| `inbox` | 2 messages, 1 report, 3 requests, 1 failure, 2 texts, erasures and repeated reports | `ChangesAreOnRecord`, `TriageSurvivesReports`, `SecondMailHasACause`, `NothingTypedIsLost` |
| `browser` | 2 tabs, 2 accounts, 2 sign-ins, 2 requests under way, 1 loss, a term of one tick, 2 ticks | `ErasureSignsOutEverywhere`, `ReportsAreCachedUnderTheirAccount`, `SignOutClearsEveryReport`, `SessionsEndForACause` |
| `erasure_undone`, `stuck_subscriber`, `empty_files` | see *Where code and text disagree* | a statement of the repository that the code does not keep |

The bounds: requests of different accounts touch disjoint rows, so one account
with two requests and the scan has every race that two requests can have with
each other and with a scan; two links let a second subscription overlap the
confirmation of the first. Two runs are the fewest in which a duplicate alert is
possible. Three subscribers and shards of two are the fewest in which somebody
waits. `Budget` is an abstraction of 800 against 50 per repository: 15
repositories fit it, but two overlapping subscribe requests can both insert after
both have deleted and leave 30 (`ClearWatched`, `ClearWatched`, `FillWatched`,
`FillWatched`), which do not; the instance has such a subscriber.

In the limiter's instances two tiers are what the scan endpoints have, and two
requests suffice for a burst; `OvershootBounded` is attained there, and
`ServedBounded` with a single tier whose window is the horizon.
The clock runs past the longest window, so that events expire, are pruned, and
new ones replace them. `Second` is two ticks, so that waits of odd length are
rounded; requests are interchangeable, hence the symmetry. Windows are closed at
both ends (`>=` in the query): a retry at the very instant that Retry-After names
may still be refused, and `AdviceSuffices` says *later* than that. It excepts
refusals after an overshoot: there the tier is still full when the oldest event
leaves, and Retry-After is too short, never too long (`AdviceIsTight`).
`ServedBounded` allows for one more round of requests than `OvershootBounded`
because the cron may prune between a request's clock reading and its count; even
a caller with one request at a time can so exceed a window that is as long as the
horizon, by one.

In `admin_races` three accounts let one administrator suspend what another
promotes, with a permanent one beside them; two requests are one race; two audit
rows let the second change or undo what the first did. Sign-ins and erasures are
unlimited. Accounts that are not permanent are interchangeable, and so are requests.

In `rule_engine` two edits suffice for a payload and what hides it, or for two
payloads of which one replaces the finding of the other; two commits, a month
apart or on one day, are the fewest with a gap. The exceptions of
`FailuresOnlyWeaken` are real: `empty_files` is one of them.

In `scan_routes` the listing is longer than a page, so that a push moves a
repository across the boundary: it is listed twice or missed. `NoRepoTwiceInReport`
holds all the same because a report takes less than a page. The clone search has
no such limit; it may inspect a repository twice, and `BestMatchPerSuspect` shows
that its rows stay unique. Two days of the sample are exactly a week apart. The
numbers a query asks for include a negative one and
none; 0.5, which is not below zero and has no whole part, yields an empty report.

In `inbox` three requests are two that cross and a retry, or a change, its
failure and another change; one failure is a lost answer, a lost audit row or a
lost mail. Two messages are the fewest whose requests cross. The two exceptions of
`SecondMailHasACause` occur: a lost answer invites a retry of a reply that was
mailed, and an answer about one thread re-enables another. In `browser` two tabs
and two accounts are the fewest in which one signs in under the other's page, two
sign-ins those in which one replaces the other, and two ticks outlive a term of one.
The exception of `ReportsAreCachedUnderTheirAccount` occurs as well: a report that
was under way, or is asked for by a page mounted before, is stored under the
login of the page although the cookie is another account's by then.

Deadlock is not checked: links, tokens and runs are finite, so a behaviour of an
instance may end when they are used up. The limiter's clock ends too, and so do the
explored edits, scans, requests and sign-ins.

**Fairness.** `ScanRoute` assumes weak fairness of the handler's steps as a whole: a fetch
settles, by an answer or an error, and the continuation of an await runs; which
outcome, and for how long GitHub asks to retry, is left open. The other modules are
checked for safety only and assume no fairness: a request, a mail or a tab may stop
anywhere.

**Refinement.** `WorkerPool` maps a pool to the states of its items: done, running
if a worker awaits it, waiting otherwise. `MapSpec` is the abstract map's
specification under that mapping; `scan_routes` checks it of the pool inside a
handler, and section 4 proves it of a pool on its own.

### Where code and text disagree

Three runs each check one statement of the repository, and TLC finds it violated.

* `erasure_undone`: a request that passed `requireAuth` before the erasure batch
  goes on: it re-creates the users row or writes the subscription again, although
  SECURITY.md says deletion deletes all stored rows.
* `stuck_subscriber`: every run dies while it scans the same subscriber, whose
  cursor therefore stays; nobody behind is reached. Without such deaths
  (`rotation`) the sentence at `src/alerts/store.ts:258` holds.
* `empty_files`: the files of the latest commit cannot be fetched, `every()` holds
  of the empty list that stands for them, and a commit of code after a long gap is
  reported as a suddenly updated README, which `src/engine/rules/repo-rules.ts:259`
  excludes.

Others were found on the way and can be repeated by hand, with
`tlc -config <cfg> <module>`; they are not among the runs.

* `MCConfirmed.cfg`, `MCAlerts`: an account subscribes with `home` and follows the
  link; between SELECT and UPDATE of `verifyByToken` it subscribes again with
  `work`; the UPDATE is keyed by login and verifies the row of `work`; the scan
  mails it. The comment at `src/routes/alerts.ts:34` excludes that.
* `MCGrant.cfg`, `MCAlerts`: two sign-ins, one deletion: GitHub confirms the
  revocation of one token, the other works on. SECURITY.md and README.md say the
  *grant* is revoked.
* `MCResubscribed.cfg`, `MCAlerts`: the shard holds token 1, GitHub has dropped it,
  the user signs in again and re-subscribes with token 2; the 401 for token 1
  deactivates the row.
* `MCNotified.cfg`, `MCAlerts`: the baseline is written as notified, the mail
  fails, the suspect is never reported. Plan 001, marked DONE, says a failed mail
  no longer suppresses an alert; the order that prevents duplicates reintroduced it.
* `MCSuspended.cfg`, `MCAdminRoles`: one request decides to suspend an ordinary
  account, another promotes it, then the first writes: an administrator is
  suspended, which `src/admin/policy.ts:61` excludes.
  `AdminsAreSuspendedOnlyInARace` shows that nothing but such a promotion can lead
  there.
* `MCBudget.cfg`, `MCScanRoute`: a clone scan whose calls are retried fetches more
  than the worst case at `src/routes/scan.ts:178-183`; `SpendingIsBounded` is what
  holds instead.

Read rather than checked: `setAuthed(true)` at `web/src/App.tsx:32` also runs when
`api.me` resolved to null on a 401, so that a visitor who never signed in gets the
hint that `web/src/App.tsx:55-57` gives to returning users. The comment of
`recordAudit` (`src/admin/audit.ts:34`) calls it best-effort, its callers await it.
An answer about a report resets the note of its row, so that changing a status
discards a note that was not saved. A sign-out whose request is lost shows the
landing page while the session lives. A comment at `repo-rules.ts:327` expects
`.msi` among the executable extensions; it is an archive extension only.

## 4. Proofs

`AlertsProofs` proves, for every set of logins, addresses, tokens, links,
repositories, suspects and request slots, every shard size and budget, and any
number of runs:

| Theorem | Property |
|---|---|
| `TypeCorrect` | `TypeOK` |
| `DormantRowsAreWiped`, `ConfirmedRowsHaveNoLink` | `DormantRowIsWiped`, `ConfirmedRowHasNoLink` |
| `NoAlertTwice` | `NoDuplicateAlert` |
| `QuietErasureIsComplete` | `QuiescentErasureIsComplete` |
| `AlertsStopWithinOneRun` | the action property `StopsWithinOneRun` |
| `InductiveInvariant` | `IInv` |

Assumptions, named in the modules that declare the constants: `NoneAssumption` and
`NoneIsNoSnapshot` (NULL is not a value of a column), `ReposAssumption` (finitely
many repositories, so that an estimate is a number), `CronAssumption` (the tuning
constants are numbers).

The argument:

* *Rows.* `RowStatements`: every step leaves `alert_subscriptions` alone or
  executes one of six statements on one row; each statement keeps the relation
  between `active`, `verified`, `token` and `link`.
* *No duplicates.* That no suspect was mailed about twice is not inductive.
  `AlertBookkeeping` adds why: what was mailed is in the baseline and no longer
  due; what is due is in the baseline and not yet mailed; what a scan is about to
  record was not mailed, because `Diff` let only suspects through that are not in
  the baseline. Between `Diff` and `Record` others may only add to the baseline
  or clear it together with its history.
* *Quiet erasure.* `NoWriterWithoutRow` adds that a dormant login without overlap
  has no request past its upsert and that a scan of it has nothing to watch. A
  step either keeps a login quiet, makes it active, or clears its tables while
  nobody writes (`KeepsQuiet`, `GoesQuiet`).
* *One run.* `ShardWasOwedAlerts`: the run works on what it loaded, and it loaded
  only those who were owed alerts then.

The parts of `IInv` were checked by TLC on the instance of `alerts_races` before
they were proved; the same holds of the invariants of the other proof modules.

`RateLimiterProofs` proves, for every number of simultaneous requests, every list
of tiers, every horizon that covers the longest window, and any clock:

| Theorem | Property |
|---|---|
| `LimiterTypeCorrect` | `TypeOK` |
| `OvershootIsBounded`, `ServedIsBounded` | `OvershootBounded`, `ServedBounded` |
| `PruningIsHarmless` | `NothingForgotten` |
| `RetryAfterIsTight`, `RetryAfterSuffices` | `AdviceIsTight`, `AdviceSuffices` |

Assumptions: `LimiterAssumption` (limits are positive, windows fit the horizon) and
`NoneIsNoRequest`. The argument:

* The lemma `CountSeesWindow`: a request that passes tier *i* has counted every
  remembered admission of any window it falls into, so there were at most
  `limit - 1`. Between that count and its insert others may pass too, but each of
  them is in flight; admissions plus requests that have passed stay below
  `limit` plus the number of requests. To be inductive the bound must count those
  that have passed with those that were admitted.
* Once anything of a window has been pruned, the clock is past its end and no new
  request falls into it: only the requests already in flight can add to it, once
  each. That is `ServedBounded`, which counts every live request of the window.
* `Consistent` supplies what both need: times are in order, rows stem from
  admissions, only what is older than the horizon is gone.

* `WaitIsEnough`, for `AdviceSuffices`: later than the wait the oldest of exactly
  `limit` counted events has left the window; until somebody is admitted, events
  only disappear.

`AdminRolesProofs` proves, for all logins, lists of permanent administrators,
numbers of requests and of audit rows:

| Theorem | Property |
|---|---|
| `AdminTypeCorrect` | `TypeOK` |
| `SuspensionsAreAudited`, `RolesAreAudited` | `SuspensionIsAccountedFor`, `RoleIsAccountedFor` |
| `PermanentAdminsAreSafe` | the action property `PermanentAdminsStand` |
| `SuspendedAdminsWereJustPromoted` | the action property `AdminsAreSuspendedOnlyInARace` |

Assumptions: `BootstrapAssumption` (the permanent administrators are logins) and
`NoneIsNoRow`. The invariant adds `DecisionsStand` to the audit properties: what a
decided request carries is not against a permanent administrator, and a suspension
whose target has become an administrator has a promotion after its reading in the
audit table. A row becomes an administrator's only by a batch, which writes that
row, or by a sign-in or creation of a permanent one, whom no decision is against.

The first sections of `ScanRouteProofs` are about the pool alone. They prove, for any
concurrency of at least one and any number of items, `PoolIsConsistent`
(`PoolSpec => []PoolInv`) and `PoolImplementsMap` (`PoolSpec => MapSpec`); the
assumption is `WidthAssumption`. `Consistent` says of a pool, wherever it is kept, that the items below the cursor have been taken, each by
one worker, and the others by nobody, and that a worker that stopped found nothing
left. Settling an item is then a step of the map for that item and the one at the
cursor, and when every worker has stopped the cursor is past the end, so that no
item is left.

The others prove, for any repositories, stars, caps, budgets, retries,
pushes, verdicts and accounts:

| Theorem | Property |
|---|---|
| `ScanTypeCorrect` | `TypeOK` |
| `ScansMapTheirItems` | `MapSpec` |
| `ReportsNameRepositoriesOnce` | `NoRepoTwiceInReport` |
| `ScansSpendWithinBounds` | `SpendingIsBounded` |
| `WorstRepoFlags` | `WorstRepoFlagsTheAccount` |
| `EveryBurstIsFound` | `BurstsAreFound` |
| `RowsAreTheBestMatches` | `BestMatchPerSuspect` |

Assumptions: `ScanAssumption` (the order is one of the repositories, the caps are
positive and a page is as long as the largest), `RetriesAssumption`,
`WidthAssumption` and `ClusterAssumption` (a burst has at least one repository).
The argument:

* *Refinement in two stages.* Every step of a scan is a step of `PoolSpec` on the
  handler's pool or leaves it alone (`PoolSteps`, `ScanSpec => PoolSpec`), and the
  pool is a map (`PoolImplementsMap`, with
  `INSTANCE ParallelMap WITH jobs <- jobs`). For that the handler's items must
  be as many as the pool has places, which `TypeInv` carries with `Consistent` for
  the outer pool and for every inner one.
* *First page.* That a report names nobody twice is not inductive, and of a long
  listing the same is false: a push between two pages repeats a repository.
  `FirstPageInv` says it of the first `PerPage` entries, and that a second page is
  asked for only after a full one; a cap takes a prefix no longer than a page, or a
  stable sort of a choice from it.
* *Counting.* `SpendInv` bounds the calls by the call the handler is at, and inside
  the pools by what is finished: one search per source in `Sought`, six calls per
  candidate in `Weighed`, five per item in `Through`. A step adds one element to
  one of the sets and at most its calls, each with its retries, to the counter.
* *What is reported.* `ReportInv` says that whatever the pools have settled has its
  verdict or its matches (`Made`), for the outer pool and every inner one; that only
  what succeeded is collected; and, once the handler reports, that `result` lists the
  items that succeeded, each once. The three properties are then about operators.
* *Worst repository.* 85 percent of a critical score, rounded, is still a flagged
  band, and the account has the larger of that and its own score.
* *Bursts.* The loop of `maxInWindow` keeps the earliest start within seven days of
  each end (`Slide`); the day before it is too early for every later end, because the
  days are sorted. That sorting yields the same days in order is `SortedIs`: the places
  are listed in a strict order (`Enumeration`), so each is listed once and, as there
  are as many as places, every one is.
* *Best matches.* Keeping the better of two rows for a suspect (`KeepsBest`), candidate by
  candidate and repository by repository, leaves the best of all above the threshold.
* *Recursion.* The loops are recursive functions and folds; the induction they need is
  on a number or a finite set, and there the smallest exception (`Smallest`,
  `MinimalSet`) leads to a contradiction.

`ScanRotationProofs` proves, for any finite population, shard, budget, costs and
number of runs:

| Theorem | Property |
|---|---|
| `RotationTypeCorrect` | `TypeOK` |
| `MarkersAreTruthful` | `MarkersTellTheOutcome` |
| `RunsServeSomeone` | the action property `EveryRunServesSomeone` |
| `EverybodysTurnComes` | `NobodyStarves` |
| `BaselineIsMailedOnce` | `AlertsAreLostOnlyInTheMail` |

Assumptions: `PopulationAssumption` (finitely many subscribers), `StuckAssumption`
and those of the store and the scan. `RunInv` says at every call of the scan what
the markers of the row in hand and of the others are, that each row of the shard is
in it once and not yet served, and that a run that has spent anything has served
somebody. `NobodyStarves` is a counting argument. `Within(0)`: of N subscribers at
most N - k were last scanned k or more runs ago, so nobody waits for N. A new run
makes every row one run older and the bound one too small (`Within(1)`), until the
run has served a row nobody waits longer than. The shard is sorted by that, so its first row
is one (`AtStart`), the budget cannot stop the run before it, and an aborted scan
moves the cursor too; this row leaves every set `Old(x)` it was in. With rows whose
scan kills the run the step fails: `MCStuck.cfg` has the counterexample.
`AlertsAreLostOnlyInTheMail` is not inductive: `MailInv` adds that nobody was mailed
about a suspect outside the baseline, that what a scan is about to record is outside
it, and that a mail in the making is recorded and not among the failed ones. It is
the other half of `NoDuplicateAlert`, of a population whose runs do not die; a run
that dies at the send loses its mail as well.

`AdminConsoleProofs` proves, for any accounts, suspects, messages, reports, texts,
filters, requests and faults:

| Theorem | Property |
|---|---|
| `ConsoleTypeCorrect` | `TypeOK` |
| `ChangesStayOnRecord` | `ChangesAreOnRecord` |
| `TriageOutlivesReports` | `TriageSurvivesReports` |
| `SecondMailIsExplained` | `SecondMailHasACause` |
| `TypedTextsAreKept` | `NothingTypedIsLost` |

The assumption is `InboxAssumption`: messages, reports, filters, logins and requests
are told apart, and NULL is none of them. `RecordInv` adds that an audit row is of a
request that has written, that a mail that is due is on the trail already, and that
whoever last wrote a row is on the trail, at it, or failed. `TriageInv` adds that a
reporter has one report of a suspect, and what is decided of a pair nobody reported.
The two properties of texts rest on `Threads`, which holds until requests about two
messages cross: at most one request is under way, the busy thread's
(`OneAtATime`); a text area holds what was typed last or nothing (`DraftIsLast`);
while a reply is under way its text stays in the text area, and after it was shown
only something newer is there (`TextInv`). So a second request with the same text
needs that the first was refused (`PairInv`).

`BrowserProofs` proves, for any tabs, accounts, sign-ins, requests under way, losses
and term of a session:

| Theorem | Property |
|---|---|
| `BrowserTypeCorrect` | `TypeOK` |
| `ErasedAccountsAreSignedOut` | `ErasureSignsOutEverywhere` |
| `SessionsLastTheirTerm` | the action property `SessionsEndForACause` |
| `ReportsStayWithTheirAccount` | `ReportsAreCachedUnderTheirAccount` |
| `SignOutLeavesNoReport` | `SignOutClearsEveryReport` |

Assumptions: `SessionsAssumption` and `ScreensAreNoLogins` (a tab's page is a login or
one of the other screens, one variable for both). The invariant behind the third,
`CacheInv`, says which requests a page may have under way (`Ordered`), that cookies
and requests name only ids that were handed out (`KnownIds`, so that a new session
gets a new one), and, until an account signs in under another tab's page, that a page
is mounted for whom the cookie speaks, that an answer under way names nobody else,
and that a scan runs with a cookie of the login it will be stored under
(`OneAccount`). A row may go at any moment, so each of them says "or nobody".

`SnapshotAuditProofs` proves, for any links, days, number of commits and of edits:

| Theorem | Property |
|---|---|
| `AuditTypeCorrect` | `TypeOK` |
| `MaintenanceIsLow` | `MaintenanceStaysBelowElevated` |
| `CombosAreFlagged` | `CanonicalComboIsFlagged` |
| `StructureIsNoAlert` | `StructureAloneNeverAlerts` |
| `ArmedCopiesAreReported` | `CopyWithPayloadIsReported` |
| `FailedFetchesOnlyWeaken` | `FailuresOnlyWeaken` |
| `EvidenceIsNeverExonerating` | the action property `EvidenceNeverExonerates` |

The assumption is `AuditAssumption`. The argument:

* *Scores.* A score is a fold over a finite set. The library's induction over finite
  sets takes an operator; `MinimalSet` stands in for it: among the subsets for which a
  statement fails there is a smallest one. With it `RemainingStep` unfolds the fold,
  and `ScoreIs` bounds what it comes to.
* *Findings.* `RulesFind` and `FindingsAre` list everything the thirteen rules and
  the gate can yield, with severity and weight: `Payload`, `Tampering`, `Mention`,
  `Copy`, and `Lowered`, which is tampering behind a closed gate. All of
  maintenance comes to 23 points, where 25 are elevated; the combination with the
  weakest payload to 45, which is high.
* *What a scan has.* `AuditInv` says which parts can have been fetched at each call,
  and that a report is what the rules make of them.
* *Failed fetches.* `LessIsFound`, rule by rule: from fewer parts a rule finds
  nothing heavier, but for two rules that conclude from an empty file list
  (`Misread`). The gate keeps the order, because it can only be closed where it
  would be open, and then lowers.
* *More evidence.* Another link may replace a finding by a heavier one and opens the
  gate. `GateCovers` matches each finding of before with one of now that weighs as
  much at least. The order in which the fold takes findings, and the rounding after each,
  could undo that; `Exact` is the product without either. `Remaining` is at
  most 25 units below it; a finding that is new or heavier takes a twenty-fifth of it
  at least, and it is never less than 625 units.

Only model-checked is liveness, `EveryScanAnswers`, which
is out of the prover's reach. Every invariant and every action property of a passing
run is proved. That some statements of the repository do not hold is shown by the
counterexamples of the three runs that expect a violation.

## 5. Not modelled, and the plan

Not modelled: wording of mails and pages, cryptography, the origin gate, static
assets, routing and rendering of the front end and its read-only panels, the
aggregation of statistics, migrations and tooling. `src/alerts/watch-targets.ts` is
used by no route, only by its tests. `PROJECT.json` gives the status of each part.

To prove next: an abstract specification of the daily alert (a suspect becomes known,
is mailed about at most once, and nobody is mailed after leaving) which `Alerts`
implements; and that a listing of several pages repeats no more repositories than
there were pushes while it was read.

Two observations are described with the bounds instead of a run: the limiter's edge
at the horizon and the Retry-After after an overshoot. A third is the reason for the
form of `StopsWithinOneRun`: the scan works on the shard it loaded, so that one more
alert can follow the unsubscribe page's "You won't receive any more".
