------------------------------ MODULE Findings ------------------------------
(***************************************************************************)
(* What the detection engine's rules return, and how findings become a     *)
(* score and a band (src/engine/score.ts and the tables of                 *)
(* src/engine/constants.ts).  A rule returns a set of at most one finding; *)
(* titles, evidence and the order of a report are left out.                *)
(***************************************************************************)
EXTENDS Integers, FiniteSets, FiniteSetsExt

Severities == {"critical", "high", "medium", "low", "info"}

SEVERITY_RANK ==
  [critical |-> 0, high |-> 1, medium |-> 2, low |-> 3, info |-> 4]

Finding(id, severity, weight) == {[id |-> id, severity |-> severity, weight |-> weight]}

NoFinding == {}

PAYLOAD_FINDING_IDS ==
  {"readme-references-archive", "readme-download-badge", "readme-password-archive",
   "readme-url-shortener", "readme-download-lure", "suspicious-release-asset",
   "suspicious-tree-payload", "archive-buried-deep"}

TAMPERING_FINDING_IDS ==
  {"latest-commit-only-readme", "trivial-readme-commit-message",
   "stale-code-fresh-readme", "cloned-history-single-pusher"}

WEIGHTS ==
  [readmeReferencesArchive |-> 18, readmeDownloadBadgeToArchive |-> 22,
   readmePasswordProtectedArchive |-> 28, readmeUrlShortener |-> 16,
   readmeDownloadLure |-> 14, latestCommitOnlyReadme |-> 26,
   trivialReadmeCommitMessage |-> 16, staleCodeFreshReadme |-> 20,
   clonedHistorySinglePusher |-> 18, suspiciousReleaseAsset |-> 34,
   suspiciousReleaseAssetBareExe |-> 12, suspiciousTreePayload |-> 30,
   archiveBuriedDeep |-> 18, notForkButDuplicateName |-> 12,
   accountVeryNew |-> 14, accountNoTwoFactor |-> 10,
   accountClusteredActivity |-> 12, accountManyArchiveReadmes |-> 22,
   accountLowFollowersManyRepos |-> 8]

\* Math.round(n / d) of non-negative numbers.
RoundedDiv(n, d) == (2 * n + d) \div (2 * d)

LargestOf(S) == CHOOSE x \in S : \A y \in S : y <= x

SEVERITY_FLOOR ==
  [critical |-> 70, high |-> 35, medium |-> 0, low |-> 0, info |-> 0]

\* The fixed point of the accumulation: 100 points are Whole units.  On every
\* set of weights the rules can produce this rounds as the floats of the code do.
Point == 100000
Whole == 100 * Point

\* Each finding takes its share of what the others have left.
Remaining(findings) ==
  FoldSet(LAMBDA f, left : (left * (100 - f.weight)) \div 100, Whole, findings)

scoreFromFindings(findings) ==
  LET floor == LargestOf({0} \cup {SEVERITY_FLOOR[f.severity] : f \in findings})
  IN LargestOf({floor, RoundedDiv(Whole - Remaining(findings), Point)})

\* Lowest first, as BAND_ORDER is.
BandMin == <<0, 10, 25, 45, 70>>

BAND_ORDER == <<"safe", "low", "elevated", "high", "critical">>

bandRank(score) == LargestOf({i \in DOMAIN BandMin : score >= BandMin[i]})

bandForScore(score) == BAND_ORDER[bandRank(score)]

isFlagged(band) == band \in {"high", "critical"}

\* The default minConfidence of the clone search.
minConfidence == 35
=============================================================================
