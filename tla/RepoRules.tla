------------------------------ MODULE RepoRules ------------------------------
(***************************************************************************)
(* The thirteen rules of src/engine/rules/repo-rules.ts.  A repository is  *)
(* what they look at: links are told apart by the host and by what the     *)
(* path ends in, a README by the phrases it has, a commit by its author,   *)
(* its message and its files, assets and paths by what their names match.  *)
(***************************************************************************)
EXTENDS Findings, Sequences

\* hider: a shortener or file host.  none: a relative link, which has no host.
Hosts == {"github", "hider", "badge", "other", "none"}
Paths == {"page", "archive", "program"}
Link == [path : Paths, host : Hosts]

\* A binary's file name in prose, a password phrase, a download lure.
Phrases == {"file name", "password", "lure"}

Authors == {"ann", "bob", "bot"}
Files == {"README.md", "docs/README.md", "code"}

\* known: the file list was fetched (changedFiles is defined); at in days.
Commit == [author : Authors, trivial : BOOLEAN, known : BOOLEAN,
           files : SUBSET Files, at : Nat]

Assets == {"loader", "installer", "archive", "notes"}
TreeFiles == {"loader", "deep archive", "fixture archive", "archive", "code"}

\* contributors: 0 when the count is not known.
Repo == [readme : [links : SUBSET Link, phrases : SUBSET Phrases],
         commits : Seq(Commit), contributors : Nat, isFork : BOOLEAN,
         assets : SUBSET Assets, tree : SUBSET TreeFiles]

\* A README that is absent, empty or could not be fetched.
NoReadme == [links |-> {}, phrases |-> {}]

staleCodeGapDays == 30
clonedHistoryMinContributors == 3

BinaryUrls(repo) == {u \in repo.readme.links : u.path # "page"}

BinaryFileTokens(repo) == "file name" \in repo.readme.phrases

readmeReferencesArchive(repo) ==
  IF \E u \in BinaryUrls(repo) : u.host # "github"
  THEN Finding("readme-references-archive", "medium", WEIGHTS.readmeReferencesArchive)
  ELSE IF BinaryUrls(repo) # {} \/ BinaryFileTokens(repo)
  THEN Finding("readme-references-archive", "low", 4)
  ELSE NoFinding

readmeDownloadBadgeToArchive(repo) ==
  IF /\ \E u \in repo.readme.links : u.host = "badge"
     /\ \E u \in repo.readme.links : u.path = "archive" \/ u.host = "hider"
  THEN Finding("readme-download-badge", "high", WEIGHTS.readmeDownloadBadgeToArchive)
  ELSE NoFinding

readmePasswordProtectedArchive(repo) ==
  IF /\ "password" \in repo.readme.phrases
     /\ \/ BinaryUrls(repo) # {} \/ BinaryFileTokens(repo)
        \/ repo.assets \ {"notes"} # {}
  THEN Finding("readme-password-archive", "critical", WEIGHTS.readmePasswordProtectedArchive)
  ELSE NoFinding

readmeUrlShortener(repo) ==
  IF \E u \in repo.readme.links : u.host = "hider"
  THEN Finding("readme-url-shortener", "high", WEIGHTS.readmeUrlShortener)
  ELSE NoFinding

readmeDownloadLure(repo) ==
  IF /\ "lure" \in repo.readme.phrases
     /\ BinaryUrls(repo) # {} \/ BinaryFileTokens(repo)
  THEN Finding("readme-download-lure", "high", WEIGHTS.readmeDownloadLure)
  ELSE NoFinding

-----------------------------------------------------------------------------
\* README_FILE: matched against the last segment of a path.
IsReadme(file) == file # "code"

Latest(repo) == repo.commits[1]

\* Exactly one file, and it is a README.
latestCommitOnlyReadme(repo) ==
  IF /\ repo.commits # <<>>
     /\ Latest(repo).known
     /\ \E f \in Files : Latest(repo).files = {f} /\ IsReadme(f)
  THEN Finding("latest-commit-only-readme", "high", WEIGHTS.latestCommitOnlyReadme)
  ELSE NoFinding

trivialReadmeCommitMessage(repo) ==
  IF repo.commits # <<>> /\ Latest(repo).author # "bot" /\ Latest(repo).trivial
  THEN Finding("trivial-readme-commit-message", "medium", WEIGHTS.trivialReadmeCommitMessage)
  ELSE NoFinding

\* changedFiles?.every(README_FILE) ?? false: true of a known, empty list.
FilesAllReadme(c) == c.known /\ \A f \in c.files : IsReadme(f)

LooksLikeReadme(c) == c.trivial \/ FilesAllReadme(c)

staleCodeFreshReadme(repo) ==
  IF /\ Len(repo.commits) >= 2
     /\ Latest(repo).at - repo.commits[2].at >= staleCodeGapDays
     /\ LooksLikeReadme(Latest(repo))
  THEN Finding("stale-code-fresh-readme", "high", WEIGHTS.staleCodeFreshReadme)
  ELSE NoFinding

HumanCommits(repo) == {i \in DOMAIN repo.commits : repo.commits[i].author # "bot"}

\* Mutant: an unknown number of contributors passes for a large one.
clonedHistoryOfUnknownSize(repo) ==
  LET human == HumanCommits(repo)
  IN IF /\ ~repo.isFork
        /\ repo.contributors = 0 \/ repo.contributors >= clonedHistoryMinContributors
        /\ Cardinality({repo.commits[i].author : i \in human}) = 1
        /\ Cardinality({i \in human : LooksLikeReadme(repo.commits[i])}) >= 2
     THEN Finding("cloned-history-single-pusher", "medium", WEIGHTS.clonedHistorySinglePusher)
     ELSE NoFinding

clonedHistorySinglePusher(repo) ==
  LET human == HumanCommits(repo)
  IN IF /\ ~repo.isFork
        /\ repo.contributors >= clonedHistoryMinContributors
        /\ Cardinality({repo.commits[i].author : i \in human}) = 1
        /\ Cardinality({i \in human : LooksLikeReadme(repo.commits[i])}) >= 2
     THEN Finding("cloned-history-single-pusher", "medium", WEIGHTS.clonedHistorySinglePusher)
     ELSE NoFinding

-----------------------------------------------------------------------------
\* Mutant: an installer is looked for first.
suspiciousInstallerFirst(repo) ==
  IF "installer" \in repo.assets
  THEN Finding("suspicious-release-asset", "medium", WEIGHTS.suspiciousReleaseAssetBareExe)
  ELSE IF "loader" \in repo.assets
  THEN Finding("suspicious-release-asset", "critical", WEIGHTS.suspiciousReleaseAsset)
  ELSE NoFinding

suspiciousReleaseAsset(repo) ==
  IF "loader" \in repo.assets
  THEN Finding("suspicious-release-asset", "critical", WEIGHTS.suspiciousReleaseAsset)
  ELSE IF "installer" \in repo.assets
  THEN Finding("suspicious-release-asset", "medium", WEIGHTS.suspiciousReleaseAssetBareExe)
  ELSE NoFinding

suspiciousTreePayload(repo) ==
  IF "loader" \in repo.tree
  THEN Finding("suspicious-tree-payload", "critical", WEIGHTS.suspiciousTreePayload)
  ELSE NoFinding

archiveBuriedDeep(repo) ==
  IF "deep archive" \in repo.tree
  THEN Finding("archive-buried-deep", "medium", WEIGHTS.archiveBuriedDeep)
  ELSE NoFinding

\* duplicate: the repository is looked at as a candidate copy of another one
\* (the clone search never passes a repository as a copy of itself).
notForkButDuplicateName(repo, duplicate) ==
  IF duplicate /\ ~repo.isFork
  THEN Finding("not-fork-but-duplicate", "medium", WEIGHTS.notForkButDuplicateName)
  ELSE NoFinding

REPO_RULES(repo, duplicate) ==
  readmeReferencesArchive(repo) \cup readmeDownloadBadgeToArchive(repo)
  \cup readmePasswordProtectedArchive(repo) \cup readmeUrlShortener(repo)
  \cup readmeDownloadLure(repo) \cup latestCommitOnlyReadme(repo)
  \cup trivialReadmeCommitMessage(repo) \cup staleCodeFreshReadme(repo)
  \cup clonedHistorySinglePusher(repo) \cup suspiciousReleaseAsset(repo)
  \cup suspiciousTreePayload(repo) \cup archiveBuriedDeep(repo)
  \cup notForkButDuplicateName(repo, duplicate)
=============================================================================
