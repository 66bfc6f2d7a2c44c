------------------------------ MODULE Evaluate ------------------------------
(***************************************************************************)
(* The verdict on a repository, and the confidence that it is a malicious  *)
(* clone of another one (src/engine/evaluate.ts).                          *)
(***************************************************************************)
EXTENDS RepoRules

\* Mutant: the gate opens for findings above medium only.
HasSeverePayload(findings) ==
  \E f \in findings :
    f.id \in PAYLOAD_FINDING_IDS /\ SEVERITY_RANK[f.severity] < SEVERITY_RANK.medium

hasPayloadSignal(findings) ==
  \E f \in findings :
    f.id \in PAYLOAD_FINDING_IDS /\ SEVERITY_RANK[f.severity] <= SEVERITY_RANK.medium

\* Mutant: the severity is lowered, the weight is not.
DemoteSeverityOnly(f) == [f EXCEPT !.severity = "low"]

\* TAMPER_UNARMED_FACTOR is a quarter.
demoteTampering(f) == [f EXCEPT !.severity = "low", !.weight = RoundedDiv(f.weight, 4)]

\* Without a payload, tampering with the README is ordinary maintenance.
Gated(raw) ==
  IF hasPayloadSignal(raw) THEN raw
  ELSE {IF f.id \in TAMPERING_FINDING_IDS THEN demoteTampering(f) ELSE f : f \in raw}

FindingsOf(repo, duplicate) == Gated(REPO_RULES(repo, duplicate))

evaluateRepo(repo, duplicate) ==
  LET findings == FindingsOf(repo, duplicate)
      score == scoreFromFindings(findings)
  IN [findings |-> findings, score |-> score, band |-> bandForScore(score)]

-----------------------------------------------------------------------------
(***************************************************************************)
(* The clone search passes sameName and differentOwner as true.            *)
(***************************************************************************)
CloneSignals == [sameDescription : BOOLEAN, suspectIsFork : BOOLEAN, fewerStars : BOOLEAN]

Points(condition, points) == IF condition THEN points ELSE 0

\* Mutant: findings that a demotion lowered count as malware.
MalwareOfAllFindings(report) ==
  scoreFromFindings({f \in report.findings : f.id # "not-fork-but-duplicate"})

malwareScore(report) ==
  scoreFromFindings({f \in report.findings :
                       f.id # "not-fork-but-duplicate" /\ f.severity # "low"})

\* Mutant: the cap on mere structure applies to every copy of a description's
\* author too.
CappedWithoutDescription(report, signals) ==
  LET sum == 25 + Points(signals.sameDescription, 20)
                + Points(~signals.suspectIsFork, 15)
                + RoundedDiv(malwareScore(report), 2)
                + Points(signals.fewerStars, 5)
  IN IF ~signals.sameDescription /\ sum > 20 THEN 20 ELSE IF sum > 100 THEN 100 ELSE sum

cloneConfidence(report, signals) ==
  LET malware == malwareScore(report)
      sum == 25 + Points(signals.sameDescription, 20)
                + Points(~signals.suspectIsFork, 15)
                + RoundedDiv(malware, 2)
                + Points(signals.fewerStars, 5)
      structural == malware = 0 /\ ~signals.sameDescription
  IN IF structural /\ sum > 20 THEN 20 ELSE IF sum > 100 THEN 100 ELSE sum
=============================================================================
