---------------------------- MODULE AccountReport ----------------------------
(***************************************************************************)
(* The account-level rules and the rollup of an account's repositories     *)
(* (src/engine/rules/account-rules.ts, evaluateAccount in                  *)
(* src/engine/evaluate.ts).  A repository counts by its score, by whether  *)
(* its README pushes a download, and by the day it was created.            *)
(***************************************************************************)
EXTENDS Findings, Sequences

CONSTANT clusteredActivityMinRepos   \* 5 in the code

ASSUME ClusterAssumption == clusteredActivityMinRepos \in Nat \ {0}

newAccountDays == 30
WindowDays == 7

\* twoFactor: unknown for anybody but the signed-in user.
Account == [ageDays : Nat, twoFactor : {"on", "off", "unknown"},
            followers : Nat, following : Nat, publicRepos : Nat]

RepoVerdict == [score : 0..100, pushesDownload : BOOLEAN, created : Nat]

accountVeryNew(account) ==
  IF account.ageDays < newAccountDays
  THEN Finding("account-very-new", "info", WEIGHTS.accountVeryNew)
  ELSE NoFinding

accountNoTwoFactor(account) ==
  IF account.twoFactor = "off"
  THEN Finding("account-no-2fa", "high", WEIGHTS.accountNoTwoFactor)
  ELSE NoFinding

\* Mutant: the start of the window never moves on.
WindowFromFirst(created, prev, end) ==
  [start |-> 1, largest |-> LargestOf({prev.largest, end - prev.start + 1})]

\* One turn of the loop: the window that ends at end.
Slide(created, prev, end) ==
  LET start == CHOOSE s \in prev.start..end :
                 /\ created[end] - created[s] <= WindowDays
                 /\ \A t \in prev.start..(s - 1) : created[end] - created[t] > WindowDays
  IN [start |-> start, largest |-> LargestOf({prev.largest, end - start + 1})]

\* created: the days in ascending order.
maxInWindow(created) ==
  LET loop[end \in 0..Len(created)] ==
        IF end = 0 THEN [start |-> 1, largest |-> 0]
        ELSE Slide(created, loop[end - 1], end)
  IN loop[Len(created)].largest

\* sort of JavaScript: ascending, and stable.
Sorted(days) ==
  LET Before(i, j) == days[i] < days[j] \/ (days[i] = days[j] /\ i < j)
      places == CHOOSE p \in [DOMAIN days -> DOMAIN days] :
                  \A i, j \in DOMAIN p : i < j => Before(p[i], p[j])
  IN [i \in DOMAIN days |-> days[places[i]]]

\* Every snapshot has a date (mapRepoMeta supplies one), so no repository is
\* dropped for having none.
accountClusteredActivity(reports) ==
  IF maxInWindow(Sorted([i \in DOMAIN reports |-> reports[i].created]))
       >= clusteredActivityMinRepos
  THEN Finding("account-clustered-activity", "medium", WEIGHTS.accountClusteredActivity)
  ELSE NoFinding

accountManyArchiveReadmes(reports) ==
  LET pushing == {i \in DOMAIN reports : reports[i].pushesDownload}
  IN IF Cardinality(pushing) < 2 THEN NoFinding
     ELSE Finding("account-many-archive-readmes",
                  IF Cardinality(pushing) >= 3 THEN "high" ELSE "medium",
                  WEIGHTS.accountManyArchiveReadmes)

accountLowFollowersManyRepos(account) ==
  IF account.publicRepos >= 8 /\ account.followers <= 2 /\ account.following <= 5
  THEN Finding("account-low-social-footprint", "low", WEIGHTS.accountLowFollowersManyRepos)
  ELSE NoFinding

ACCOUNT_RULES(account, reports) ==
  accountVeryNew(account) \cup accountNoTwoFactor(account)
  \cup accountClusteredActivity(reports) \cup accountManyArchiveReadmes(reports)
  \cup accountLowFollowersManyRepos(account)

\* Mutant: the account has only its own findings.
OwnScoreOnly(account, reports) ==
  LET findings == ACCOUNT_RULES(account, reports)
      score == scoreFromFindings(findings)
  IN [findings |-> findings, score |-> score, band |-> bandForScore(score)]

\* The worst repository counts for 85 percent of its score.
evaluateAccount(account, reports) ==
  LET findings == ACCOUNT_RULES(account, reports)
      worst == LargestOf({0} \cup {reports[i].score : i \in DOMAIN reports})
      score == LargestOf({scoreFromFindings(findings), RoundedDiv(worst * 85, 100)})
  IN [findings |-> findings, score |-> score, band |-> bandForScore(score)]
=============================================================================
