---------------------------- MODULE MCScanRoute ----------------------------
(* Four repositories on pages of three, so that a push moves one between   *)
(* pages; a budget of two sources and two candidates.                      *)
EXTENDS ScanRoute

MCOrder == <<"bee", "cat", "ant", "dog">>

\* -1, none, a half and 4
MCAsked == {-2, 0, 1, 8}

MCStars == [r \in Repos |-> IF r = "ant" THEN 9 ELSE 1]

MCVerdicts ==
  {[score |-> 0, pushesDownload |-> FALSE, created |-> 0],
   [score |-> 75, pushesDownload |-> TRUE, created |-> 7],
   [score |-> 30, pushesDownload |-> TRUE, created |-> 12]}

MCAccounts ==
  {[ageDays |-> 900, twoFactor |-> "unknown", followers |-> 3, following |-> 3, publicRepos |-> 4],
   [ageDays |-> 3, twoFactor |-> "off", followers |-> 0, following |-> 0, publicRepos |-> 8]}
=============================================================================
