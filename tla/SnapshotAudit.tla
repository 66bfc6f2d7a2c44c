---------------------------- MODULE SnapshotAudit ----------------------------
(***************************************************************************)
(* One repository, from its author's work to the verdict of a scan.        *)
(* buildRepoSnapshot (src/github/snapshot.ts) fetches six parts of it from *)
(* GitHub, any of which may fail without failing the scan; the engine sees *)
(* what is left.                                                           *)
(***************************************************************************)
EXTENDS Evaluate

CONSTANTS
  Links,      \* the links a README may get
  Days,       \* when commits are dated
  MaxCommits, \* bound on the history
  MaxEdits    \* bound on the author's edits

ASSUME AuditAssumption ==
  Links \subseteq Link /\ Days \subseteq Nat /\ {MaxCommits, MaxEdits} \subseteq Nat

VARIABLES
  repo,       \* what GitHub has
  edits,      \* how often the author has edited it
  pc,         \* where the scan is
  got,        \* the parts that were fetched
  duplicate,  \* the scan looks at the repository as a copy of another
  deep,       \* the scan asks for the tree (BuildRepoOptions.includeTree)
  report,     \* the verdict of the scan
  signals,    \* of a candidate: what it shares with the source
  confidence  \* that a candidate is a malicious clone

answer == <<report, signals, confidence>>

vars == <<repo, edits, pc, got, duplicate, deep, answer>>

\* Fetched at once; the files of the latest commit and the tree come after.
FirstParts == {"readme", "commits", "contributors", "releases"}
Parts == FirstParts \cup {"files", "tree"}

TypeOK ==
  /\ repo \in Repo
  /\ edits \in 0..MaxEdits
  /\ pc \in {"edit", "files", "tree", "evaluate", "done"}
  /\ got \subseteq Parts
  /\ duplicate \in BOOLEAN
  /\ deep \in BOOLEAN
  /\ duplicate => deep
  /\ report.score \in 0..100
  /\ signals \in CloneSignals
  /\ confidence \in 0..100

NoReport == [findings |-> {}, score |-> 0, band |-> "safe"]

\* A project of one or of many, with a first commit; a clone search is deep.
Init ==
  /\ \E fork \in BOOLEAN, n \in {1, clonedHistoryMinContributors}, t \in BOOLEAN :
       repo = [readme |-> NoReadme, contributors |-> n, isFork |-> fork,
               commits |-> <<[author |-> "ann", trivial |-> t, known |-> TRUE,
                              files |-> {"README.md", "code"}, at |-> 0]>>,
               assets |-> {}, tree |-> {"code"}]
  /\ edits = 0
  /\ pc = "edit"
  /\ got = {}
  /\ duplicate \in BOOLEAN
  /\ deep \in {duplicate, TRUE}
  /\ report = NoReport
  /\ signals = [sameDescription |-> FALSE, suspectIsFork |-> repo.isFork, fewerStars |-> FALSE]
  /\ confidence = 0

-----------------------------------------------------------------------------
(***************************************************************************)
(* The author                                                              *)
(***************************************************************************)
\* Edits come before the scan.  Each changes one part, and the files are fetched
\* by the sha of the commit: a scan that mixes parts of before and after an edit
\* sees what fewer edits would have made.
Edit(after) ==
  /\ pc = "edit"
  /\ edits < MaxEdits
  /\ repo' = after
  /\ edits' = edits + 1
  /\ UNCHANGED <<pc, got, duplicate, deep, answer>>

Extend ==
  \/ \E u \in Links \ repo.readme.links : Edit([repo EXCEPT !.readme.links = @ \cup {u}])
  \/ \E p \in Phrases \ repo.readme.phrases :
       Edit([repo EXCEPT !.readme.phrases = @ \cup {p}])
  \/ \E a \in Assets \ repo.assets : Edit([repo EXCEPT !.assets = @ \cup {a}])
  \/ \E f \in TreeFiles \ repo.tree : Edit([repo EXCEPT !.tree = @ \cup {f}])

\* files: a commit may be empty, and it may change several READMEs.
Push ==
  /\ Len(repo.commits) < MaxCommits
  /\ \E a \in Authors, t \in BOOLEAN, d \in Days,
        fs \in {{}, {"README.md"}, {"README.md", "docs/README.md"}, {"README.md", "code"}} :
       Edit([repo EXCEPT !.commits =
               <<[author |-> a, trivial |-> t, known |-> TRUE, files |-> fs, at |-> d]>> \o @])

-----------------------------------------------------------------------------
(***************************************************************************)
(* buildRepoSnapshot                                                       *)
(***************************************************************************)
FetchParts ==
  /\ pc = "edit"
  /\ \E P \in SUBSET FirstParts :
       /\ got' = P
       /\ pc' = IF "commits" \in P THEN "files" ELSE "tree"
  /\ UNCHANGED <<repo, edits, duplicate, deep, answer>>

\* A failure is an empty list, not an unknown one.
FetchFiles ==
  /\ pc = "files"
  /\ got' \in {got, got \cup {"files"}}
  /\ pc' = "tree"
  /\ UNCHANGED <<repo, edits, duplicate, deep, answer>>

FetchTree ==
  /\ pc = "tree"
  /\ got' \in IF deep THEN {got, got \cup {"tree"}} ELSE {got}
  /\ pc' = "evaluate"
  /\ UNCHANGED <<repo, edits, duplicate, deep, answer>>

\* The commits as mapCommit maps them: the files of the latest one are asked
\* for, those of the others stay undefined.
mapCommits(P) ==
  IF "commits" \notin P THEN <<>>
  ELSE [i \in DOMAIN repo.commits |->
          [repo.commits[i] EXCEPT !.known = (i = 1),
                                  !.files = IF i = 1 /\ "files" \in P THEN @ ELSE {}]]

\* What the rules are given when the parts in P were fetched.
Snapshot(P) ==
  [repo EXCEPT
     !.readme = IF "readme" \in P THEN @ ELSE NoReadme,
     !.commits = mapCommits(P),
     !.contributors = IF "contributors" \in P THEN @ ELSE 0,
     !.assets = IF "releases" \in P THEN @ ELSE {},
     !.tree = IF "tree" \in P THEN @ ELSE {}]

\* evaluateRepo, and buildCloneMatch for a candidate of the clone search: it may
\* have the description of the source, and fewer stars.
Evaluated ==
  /\ pc = "evaluate"
  /\ report' = evaluateRepo(Snapshot(got), duplicate)
  /\ IF duplicate
     THEN /\ signals' \in {s \in CloneSignals : s.suspectIsFork = repo.isFork}
          /\ confidence' = cloneConfidence(report', signals')
     ELSE UNCHANGED <<signals, confidence>>
  /\ pc' = "done"
  /\ UNCHANGED <<repo, edits, got, duplicate, deep>>

Next == Extend \/ Push \/ FetchParts \/ FetchFiles \/ FetchTree \/ Evaluated

Spec == Init /\ [][Next]_vars

-----------------------------------------------------------------------------
(***************************************************************************)
(* Properties                                                              *)
(***************************************************************************)

\* What the rules find when every fetch succeeds.
AllFindings == FindingsOf(Snapshot(IF deep THEN Parts ELSE Parts \ {"tree"}), duplicate)

Reported(id) == \E f \in report.findings : f.id = id

CarriesPayload ==
  \E f \in report.findings :
    f.id \in PAYLOAD_FINDING_IDS /\ f.severity \notin {"low", "info"}

\* Failed fetches only weaken a report: it has no finding, and none heavier, that
\* a scan without failures would not have.  The exception is what the rules
\* conclude from the empty file list of a latest commit whose files could not be
\* fetched (snapshot.ts:138-143, repo-rules.ts:263 and 299).
FailuresOnlyWeaken ==
  pc = "done" =>
    \A f \in report.findings :
      \/ \E g \in AllFindings : g.id = f.id /\ f.weight <= g.weight
      \/ /\ "commits" \in got
         /\ "files" \notin got
         /\ f.id \in {"stale-code-fresh-readme", "cloned-history-single-pusher"}

\* Without a payload a repository that is not looked at as a copy stays below
\* "elevated", whatever its commits look like, with all four signs of tampering,
\* a release link of its own, and with or without failures (constants.ts:252-257).
MaintenanceStaysBelowElevated ==
  pc = "done" /\ ~duplicate /\ ~CarriesPayload
    => report.band \in {"safe", "low"}

\* The campaign's combination, a payload under a README-only commit with a generic
\* message, is flagged whichever payload it is (constants.ts:191-193).
CanonicalComboIsFlagged ==
  /\ pc = "done"
  /\ CarriesPayload
  /\ Reported("latest-commit-only-readme")
  /\ Reported("trivial-readme-commit-message")
  => isFlagged(report.band)

\* A shared name is no impersonation: a candidate without a payload stays below
\* the alert threshold unless it copies the description (evaluate.ts:189-195).
StructureAloneNeverAlerts ==
  pc = "done" /\ duplicate /\ ~signals.sameDescription /\ ~CarriesPayload
    => confidence < minConfidence

\* A standalone copy that carries a payload is reported, however weak the payload.
CopyWithPayloadIsReported ==
  pc = "done" /\ duplicate /\ ~repo.isFork /\ CarriesPayload
    => confidence >= minConfidence

\* More links, phrases, assets or files never lower the score, though findings
\* are replaced and the gate opens on them.
EvidenceNeverExonerates ==
  [][Extend => scoreFromFindings(AllFindings)' >= scoreFromFindings(AllFindings)]_vars

\* "Only meaningful if the fresh commit looks like a README touch"
\* (repo-rules.ts:259): a dormant codebase with a suddenly updated README is
\* reported only of a commit that has a README message or changed READMEs alone.
StaleMeansReadmeTouched ==
  pc = "done" /\ Reported("stale-code-fresh-readme") =>
    LET c == Latest(repo)
    IN c.trivial \/ \A f \in c.files : IsReadme(f)
=============================================================================
