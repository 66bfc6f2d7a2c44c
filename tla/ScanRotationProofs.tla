------------------------- MODULE ScanRotationProofs -------------------------
(***************************************************************************)
(* Proofs about ScanRotation, for any population of subscribers, shard     *)
(* size, budget, costs and number of runs.                                 *)
(*                                                                         *)
(*   1. types                                                              *)
(*   2. what the markers of a row say of the run                           *)
(*   3. what is in the baseline has been mailed once                       *)
(*   4. nobody starves: how many rows may be how far behind                *)
(***************************************************************************)
EXTENDS ScanRotation, FiniteSetTheorems, TLAPS

\* Nobody subscribes or leaves: every login keeps its row.
RowsOK == sub \in [Logins -> SubRow]
TypeInv == TypeOK /\ RowsOK

-----------------------------------------------------------------------------
(* 1. Types *)

LEMMA RowIsSomething == None \notin SubRow
BY NoneAssumption

\* An UPDATE of a row that is there.
LEMMA UpdateStep ==
  ASSUME TypeInv, NEW l \in Logins, NEW row \in SubRow, UpdateRow(l, row)
  PROVE  /\ sub' \in [Logins -> SubRow]
         /\ \A m \in Logins : sub'[m] = IF m = l THEN row ELSE sub[m]
BY RowIsSomething DEF TypeInv, RowsOK, UpdateRow, HasRow

LEMMA CurIsLogin ==
  ASSUME TypeInv, cpc \notin {"idle", "next"}
  PROVE  cur \in Snapshot /\ cur.login \in Logins /\ cur # None
BY DEF TypeInv, TypeOK, CronTypeOK, Snapshot

\* The three statements that write a row in a run.
LEMMA MarkRunRows ==
  ASSUME TypeInv, MarkRun
  PROVE  /\ sub' \in [Logins -> SubRow]
         /\ \A m \in Logins \ {cur.login} : sub'[m] = sub[m]
         /\ sub'[cur.login].lastRun = day
         /\ sub'[cur.login].lastScanned = sub[cur.login].lastScanned
         /\ sub'[cur.login].active = sub[cur.login].active
         /\ sub'[cur.login].verified = sub[cur.login].verified
<1> DEFINE l == cur.login
           row == [sub[l] EXCEPT !.lastRun = day]
<1>1. l \in Logins BY CurIsLogin DEF MarkRun
<1>2. /\ row \in SubRow /\ row.lastRun = day /\ row.lastScanned = sub[l].lastScanned
      /\ row.active = sub[l].active /\ row.verified = sub[l].verified
  BY <1>1 DEF TypeInv, RowsOK, TypeOK, CronTypeOK, SubRow
<1>3. UpdateRow(l, row) BY DEF MarkRun, SetLastRun
<1> HIDE DEF row
<1> QED BY <1>1, <1>2, <1>3, UpdateStep

LEMMA MarkScannedRows ==
  ASSUME TypeInv, MarkScanned
  PROVE  /\ sub' \in [Logins -> SubRow]
         /\ \A m \in Logins \ {cur.login} : sub'[m] = sub[m]
         /\ sub'[cur.login].lastScanned = day
         /\ sub'[cur.login].lastRun = sub[cur.login].lastRun
         /\ sub'[cur.login].active = sub[cur.login].active
         /\ sub'[cur.login].verified = sub[cur.login].verified
<1> DEFINE l == cur.login
           row == [sub[l] EXCEPT !.lastScanned = day]
<1>1. l \in Logins BY CurIsLogin DEF MarkScanned
<1>2. /\ row \in SubRow /\ row.lastScanned = day /\ row.lastRun = sub[l].lastRun
      /\ row.active = sub[l].active /\ row.verified = sub[l].verified
  BY <1>1 DEF TypeInv, RowsOK, TypeOK, CronTypeOK, SubRow
<1>3. UpdateRow(l, row) BY DEF MarkScanned, SetLastScanned
<1> HIDE DEF row
<1> QED BY <1>1, <1>2, <1>3, UpdateStep

LEMMA DeactivateRows ==
  ASSUME TypeInv, Deactivate
  PROVE  /\ sub' \in [Logins -> SubRow]
         /\ \A m \in Logins \ {cur.login} : sub'[m] = sub[m]
         /\ ~sub'[cur.login].active
         /\ sub'[cur.login].lastRun = sub[cur.login].lastRun
         /\ sub'[cur.login].lastScanned = sub[cur.login].lastScanned
<1> DEFINE l == cur.login
           row == [sub[l] EXCEPT !.active = FALSE, !.token = None, !.link = None]
<1>1. l \in Logins BY CurIsLogin DEF Deactivate
<1>2. /\ row \in SubRow /\ ~row.active /\ row.lastRun = sub[l].lastRun
      /\ row.lastScanned = sub[l].lastScanned
  BY <1>1 DEF TypeInv, RowsOK, SubRow
<1>3. UpdateRow(l, row) BY DEF Deactivate, DeactivateSubscription
<1> HIDE DEF row
<1> QED BY <1>1, <1>2, <1>3, UpdateStep

LEMMA EstimateType ==
  ASSUME TypeInv, NEW l \in Logins
  PROVE  Estimate(l) \in Nat /\ Estimate(l) > 0
<1>1. watched[l] \subseteq Repos BY DEF TypeInv, TypeOK, StoreTypeOK
<1>2. Cardinality(watched[l]) \in Nat
  BY <1>1, ReposAssumption, FS_Subset, FS_CardinalityType
<1>3. \A n \in Nat : n * RepoCost \in Nat BY CronAssumption
<1> QED BY <1>2, <1>3, CronAssumption DEF Estimate

LEMMA SnapshotType ==
  ASSUME TypeInv, NEW l \in Logins
  PROVE  /\ SnapshotOf(l) \in Snapshot
         /\ SnapshotOf(l).login = l
         /\ SnapshotOf(l).scannedAt = sub[l].lastScanned
BY DEF TypeInv, RowsOK, SnapshotOf, Snapshot, SubRow

LEMMA TypeInit == Init => TypeInv
<1> SUFFICES ASSUME Init PROVE TypeInv
  OBVIOUS
<1>1. RowsOK BY DEF Init, RowsOK, SubRow, Expiry, Never
<1>2. StoreTypeOK BY <1>1 DEF Init, StoreTypeOK, RowsOK
<1>3. CronTypeOK BY DEF Init, CronInit, CronTypeOK, CronSteps
<1>4. outcome \in [Logins -> Outcomes] /\ unsent \in [Logins -> SUBSET Suspects]
  BY DEF Init, Outcomes
<1> QED BY <1>1, <1>2, <1>3, <1>4 DEF TypeInv, TypeOK

\* Every step belongs to one of these.
LEMMA Cases ==
  ASSUME [Next]_vars
  PROVE  \/ StartRun /\ Forget
         \/ (NextSubscriber \/ BudgetStop \/ RunDone) /\ UNCHANGED outcome
         \/ /\ \/ \E valid \in BOOLEAN : ProbeAccepted(valid) \/ ProbeRefused(valid)
               \/ TokenUnusable \/ Search \/ Diff \/ Record \/ SendAlert \/ SendFails
            /\ UNCHANGED outcome
         \/ (ProbeFails \/ RecordFails \/ SendThrows) /\ Note("aborted")
         \/ Deactivate /\ Note("off")
         \/ MarkRun /\ Note("clean")
         \/ MarkScanned /\ UNCHANGED outcome
         \/ UNCHANGED vars
BY DEF Next, RunGoesOn

\* What becomes of the history of lost mails.
LEMMA UnsentStep ==
  ASSUME TypeInv, [Next]_vars
  PROVE  /\ unsent' \in [Logins -> SUBSET Suspects]
         /\ \/ /\ SendFails \/ SendThrows
               /\ \A l \in Logins : unsent'[l] = IF l = cur.login THEN unsent[l] \cup found
                                               ELSE unsent[l]
            \/ /\ Deactivate
               /\ \A l \in Logins : unsent'[l] = IF l = cur.login THEN {} ELSE unsent[l]
            \/ /\ \/ StartRun \/ NextSubscriber \/ BudgetStop \/ RunDone
                  \/ \E valid \in BOOLEAN : ProbeAccepted(valid) \/ ProbeRefused(valid)
                  \/ TokenUnusable \/ ProbeFails \/ Search \/ Diff \/ Record \/ RecordFails
                  \/ SendAlert \/ MarkRun \/ MarkScanned
                  \/ UNCHANGED vars
               /\ UNCHANGED unsent
<1>1. unsent \in [Logins -> SUBSET Suspects] /\ found \subseteq Suspects
  BY DEF TypeInv, TypeOK, CronTypeOK
<1>2. ASSUME SendFails \/ SendThrows, MailLost
      PROVE  /\ unsent' \in [Logins -> SUBSET Suspects]
             /\ \A l \in Logins : unsent'[l] = IF l = cur.login THEN unsent[l] \cup found
                                             ELSE unsent[l]
  <2>1. cpc = "send" BY <1>2 DEF SendFails, SendThrows
  <2>2. cur.login \in Logins BY <2>1, CurIsLogin
  <2>3. unsent' = [unsent EXCEPT ![cur.login] = unsent[cur.login] \cup found]
    BY <1>2 DEF MailLost
  <2> QED BY <1>1, <2>2, <2>3
<1>3. ASSUME Deactivate, unsent' = [unsent EXCEPT ![cur.login] = {}]
      PROVE  /\ unsent' \in [Logins -> SUBSET Suspects]
             /\ \A l \in Logins : unsent'[l] = IF l = cur.login THEN {} ELSE unsent[l]
  BY <1>1, <1>3, CurIsLogin DEF Deactivate
<1> QED BY <1>1, <1>2, <1>3 DEF Next, RunGoesOn, vars

\* The steps of a scan before its markers: no row is written.
ScanOnly ==
  \/ \E valid \in BOOLEAN : ProbeAccepted(valid) \/ ProbeRefused(valid)
  \/ TokenUnusable \/ Search \/ Diff \/ Record \/ SendAlert \/ SendFails
  \/ ProbeFails \/ RecordFails \/ SendThrows

LEMMA ScanOnlyKeeps ==
  ASSUME TypeInv, ScanOnly
  PROVE  /\ cpc \notin {"idle", "next"} /\ cpc' \notin {"idle", "next"}
         /\ cpc' \in CronSteps
         /\ UNCHANGED <<sub, users, day, todo, cur, repos, consumed, watched>>
<1>1. \A valid : ProbeAccepted(valid) => cpc' \in {"markRun", "search"}
  BY DEF ProbeAccepted, Proceed
<1>2. Diff => cpc' \in {"markRun", "record"} BY DEF Diff, Proceed
<1> QED BY <1>1, <1>2
  DEF ScanOnly, ProbeAccepted, ProbeRefused, TokenUnusable, Search, Diff, Record, SendAlert,
      SendFails, ProbeFails, RecordFails, SendThrows, Abort, Proceed, storeVars, CronSteps

LEMMA TypeStep == TypeInv /\ [Next]_vars => TypeInv'
<1> SUFFICES ASSUME TypeInv, [Next]_vars PROVE TypeInv'
  OBVIOUS
<1>u. unsent' \in [Logins -> SUBSET Suspects] BY UnsentStep
<1> USE <1>u DEF TypeInv, TypeOK
<1>s. UNCHANGED storeVars => StoreTypeOK' /\ RowsOK'
  BY DEF storeVars, StoreTypeOK, RowsOK
<1>n. ASSUME NEW what \in Outcomes, cpc \notin {"idle", "next"}, Note(what)
      PROVE  outcome' \in [Logins -> Outcomes]
  BY <1>n, CurIsLogin DEF Note
<1>r. sub' \in [Logins -> SubRow] => sub' \in [Logins -> SubRow \cup {None}] /\ RowsOK'
  BY DEF RowsOK
<1>1. ASSUME StartRun, Forget PROVE TypeInv'
  <2>1. PICK B \in SUBSET ScannableLogins : todo' = {SnapshotOf(l) : l \in B}
    BY <1>1 DEF StartRun
  <2>2. todo' \subseteq Snapshot BY <2>1, SnapshotType DEF ScannableLogins
  <2>3. CronTypeOK' BY <1>1, <2>2 DEF StartRun, CronTypeOK, CronSteps
  <2> QED BY <1>1, <1>s, <2>3 DEF StartRun, Forget, Outcomes
<1>2. ASSUME NextSubscriber, UNCHANGED outcome PROVE TypeInv'
  <2>1. PICK s \in todo : /\ cur' = s /\ todo' = todo \ {s}
                          /\ repos' = watched[s.login]
                          /\ consumed' = consumed + Estimate(s.login)
    BY <1>2 DEF NextSubscriber
  <2>2. s \in Snapshot /\ s.login \in Logins BY DEF CronTypeOK, Snapshot
  <2>3. Estimate(s.login) \in Nat BY <2>2, EstimateType
  <2>4. CronTypeOK'
    BY <1>2, <2>1, <2>2, <2>3, NoneIsNoSnapshot
       DEF NextSubscriber, CronTypeOK, CronSteps, StoreTypeOK
  <2> QED BY <1>2, <1>s, <2>4 DEF NextSubscriber
<1>3. ASSUME BudgetStop \/ RunDone, UNCHANGED outcome PROVE TypeInv'
  <2>1. CronTypeOK' BY <1>3 DEF BudgetStop, RunDone, EndOfRun, CronTypeOK, CronSteps
  <2> QED BY <1>3, <1>s, <2>1 DEF BudgetStop, RunDone, EndOfRun
<1>4. ASSUME ScanOnly, outcome' \in [Logins -> Outcomes] PROVE TypeInv'
  <2>1. /\ cpc \notin {"idle", "next"} /\ cpc' \notin {"idle", "next"}
        /\ cpc' \in CronSteps
        /\ UNCHANGED <<sub, users, day, todo, cur, repos, consumed, watched>>
    BY <1>4, ScanOnlyKeeps
  <2>2. cur.login \in Logins BY <2>1, CurIsLogin
  <2>3. found' \subseteq Suspects
    BY <1>4
    DEF ScanOnly, ProbeAccepted, ProbeRefused, TokenUnusable, Search, Diff, Record, SendAlert,
        SendFails, ProbeFails, RecordFails, SendThrows, Abort, CronTypeOK
  <2>7. known' \in [Logins -> SUBSET Suspects]
    <3>1. Record => known' = [known EXCEPT ![cur.login] = known[cur.login] \cup found]
      BY <2>2 DEF Record, RecordClones, StoreTypeOK
    <3>2. ~Record => UNCHANGED known
      BY <1>4
      DEF ScanOnly, ProbeAccepted, ProbeRefused, TokenUnusable, Search, Diff, SendAlert,
          SendFails, ProbeFails, RecordFails, SendThrows, Abort, storeVars
    <3> QED BY <2>2, <3>1, <3>2 DEF StoreTypeOK, CronTypeOK
  <2>8. promised' \in [Logins -> SUBSET Suspects]
    <3>1. Record => promised' = [promised EXCEPT ![cur.login] = promised[cur.login] \cup found]
      BY <2>2 DEF Record, StoreTypeOK
    <3>2. SendAlert => promised' = [promised EXCEPT ![cur.login] = promised[cur.login] \ found]
      BY <2>2 DEF SendAlert, StoreTypeOK
    <3>3. ~Record /\ ~SendAlert => UNCHANGED promised
      BY <1>4
      DEF ScanOnly, ProbeAccepted, ProbeRefused, TokenUnusable, Search, Diff,
          SendFails, ProbeFails, RecordFails, SendThrows, Abort, storeVars
    <3> QED BY <2>2, <3>1, <3>2, <3>3 DEF StoreTypeOK, CronTypeOK
  <2>4. told' \in [Logins -> [Suspects -> Nat]]
    <3>1. CASE SendAlert
      <4> DEFINE l == cur.login
                 counts == [s \in Suspects |-> IF s \in found \cap promised[l]
                                               THEN told[l][s] + 1 ELSE told[l][s]]
      <4>1. counts \in [Suspects -> Nat] BY <2>2 DEF StoreTypeOK
      <4>2. told' = [told EXCEPT ![l] = counts] BY <3>1 DEF SendAlert
      <4> HIDE DEF counts
      <4> QED BY <2>2, <4>1, <4>2 DEF StoreTypeOK
    <3>2. CASE ~SendAlert
      <4>1. UNCHANGED told
        BY <1>4, <3>2
        DEF ScanOnly, ProbeAccepted, ProbeRefused, TokenUnusable, Search, Diff, Record,
            SendFails, ProbeFails, RecordFails, SendThrows, Abort, storeVars
      <4> QED BY <4>1 DEF StoreTypeOK
    <3> QED BY <3>1, <3>2
  <2>5. CronTypeOK' BY <2>1, <2>3 DEF CronTypeOK
  <2>6. StoreTypeOK' /\ RowsOK' BY <2>1, <2>4, <2>7, <2>8 DEF StoreTypeOK, RowsOK
  <2> QED BY <1>4, <2>5, <2>6
<1>5. ASSUME Deactivate, Note("off") PROVE TypeInv'
  <2>1. cur.login \in Logins BY <1>5, CurIsLogin DEF Deactivate
  <2>2. /\ watched' \in [Logins -> SUBSET Repos]
        /\ known' \in [Logins -> SUBSET Suspects]
        /\ promised' \in [Logins -> SUBSET Suspects]
        /\ UNCHANGED users
    BY <1>5, <2>1 DEF Deactivate, DeactivateSubscription, ClearChildren, StoreTypeOK
  <2>3. told' \in [Logins -> [Suspects -> Nat]]
    <3> DEFINE none == [s \in Suspects |-> 0]
    <3>1. told' = [told EXCEPT ![cur.login] = none]
      BY <1>5 DEF Deactivate, DeactivateSubscription, ClearChildren
    <3>2. none \in [Suspects -> Nat] OBVIOUS
    <3> HIDE DEF none
    <3> QED BY <2>1, <3>1, <3>2 DEF StoreTypeOK
  <2>4. StoreTypeOK' /\ RowsOK'
    BY <1>5, <1>r, <2>2, <2>3, DeactivateRows DEF StoreTypeOK
  <2>5. CronTypeOK' BY <1>5 DEF Deactivate, CronTypeOK, CronSteps
  <2>6. outcome' \in [Logins -> Outcomes] BY <1>5, <1>n DEF Deactivate, Outcomes
  <2> QED BY <2>4, <2>5, <2>6
<1>6. ASSUME MarkRun, Note("clean") PROVE TypeInv'
  <2>1. StoreTypeOK' /\ RowsOK'
    BY <1>6, <1>r, MarkRunRows DEF MarkRun, StoreTypeOK
  <2>2. CronTypeOK' BY <1>6 DEF MarkRun, Proceed, CronTypeOK, CronSteps
  <2>3. outcome' \in [Logins -> Outcomes] BY <1>6, <1>n DEF MarkRun, Outcomes
  <2> QED BY <2>1, <2>2, <2>3
<1>7. ASSUME MarkScanned, UNCHANGED outcome PROVE TypeInv'
  <2>1. StoreTypeOK' /\ RowsOK'
    BY <1>7, <1>r, MarkScannedRows DEF MarkScanned, StoreTypeOK
  <2>2. CronTypeOK' BY <1>7 DEF MarkScanned, CronTypeOK, CronSteps
  <2> QED BY <1>7, <2>1, <2>2
<1>8. CASE UNCHANGED vars
  BY <1>8, <1>s DEF vars, cronVars, CronTypeOK
<1>9. ASSUME ProbeFails \/ RecordFails \/ SendThrows, Note("aborted")
      PROVE  ScanOnly /\ outcome' \in [Logins -> Outcomes]
  BY <1>9, <1>n DEF ScanOnly, ProbeFails, RecordFails, SendThrows, Outcomes
<1> QED BY <1>1, <1>2, <1>3, <1>4, <1>5, <1>6, <1>7, <1>8, <1>9, Cases DEF ScanOnly

LEMMA TypeInvariant == Spec => []TypeInv
BY TypeInit, TypeStep, PTL DEF Spec

\* Rows, shard and markers of a run have their types, and no run adds a row or
\* loses one (alerts/store.ts, alerts/cron.ts).
THEOREM RotationTypeCorrect == Spec => []TypeOK
<1>1. TypeInv => TypeOK BY DEF TypeInv
<1> QED BY <1>1, TypeInvariant, PTL

-----------------------------------------------------------------------------
(* 2. What the markers of a row say of the run *)

Older(l) == sub[l].lastRun < day /\ sub[l].lastScanned < day

\* What is known of a login whose scan is not under way.
Told(l) ==
  /\ outcome[l] = "clean" => sub[l].lastRun = day /\ sub[l].lastScanned = day
  /\ outcome[l] = "aborted" => sub[l].lastRun < day /\ sub[l].lastScanned = day
  /\ outcome[l] = "off" => ~sub[l].active /\ Older(l)
  /\ outcome[l] = "none" /\ day > 0 => Older(l)

\* And of the one that is being scanned.
Scanning(l) ==
  IF cpc = "markScanned"
  THEN /\ sub[l].lastScanned < day
       /\ \/ outcome[l] = "clean" /\ sub[l].lastRun = day
          \/ outcome[l] = "aborted" /\ sub[l].lastRun < day
  ELSE outcome[l] = "none" /\ Older(l)

InRun == cpc # "idle"

MarkerInv ==
  /\ InRun => day > 0
  /\ \A l \in Logins : sub[l].lastRun <= day /\ sub[l].lastScanned <= day
  /\ \A l \in Logins : IF cur # None /\ l = cur.login THEN Scanning(l) ELSE Told(l)
  /\ \A s \in todo : outcome[s.login] = "none" /\ (cur # None => s.login # cur.login)
  /\ \A s, t \in todo : s.login = t.login => s = t

\* The reports of a scan are in the baseline once its clean-run marker is due.
FoundInv ==
  /\ cpc \in {"idle", "next", "probe", "deactivate"} => found = {}
  /\ cpc \in {"send", "markRun"} => found \subseteq known[cur.login]

\* A run that has spent anything has served somebody, or is about to.
ServedInv == cpc = "next" /\ consumed > 0 => \E l \in Logins : outcome[l] # "none"

LEMMA NoteStep ==
  ASSUME TypeInv, NEW what \in Outcomes, cpc \notin {"idle", "next"}, Note(what)
  PROVE  \A l \in Logins :
           outcome'[l] = IF l = cur.login /\ outcome[l] = "none" THEN what ELSE outcome[l]
BY CurIsLogin DEF Note, TypeInv, TypeOK

LEMMA MarkerStep == TypeInv /\ MarkerInv /\ [Next]_vars => MarkerInv'
<1> SUFFICES ASSUME TypeInv, MarkerInv, [Next]_vars PROVE MarkerInv'
  OBVIOUS
<1>t. /\ day \in Nat /\ todo \subseteq Snapshot
      /\ cur = None <=> cpc \in {"idle", "next"}
      /\ \A l \in Logins : sub[l].lastRun \in Nat /\ sub[l].lastScanned \in Nat
  BY DEF TypeInv, TypeOK, CronTypeOK, RowsOK, SubRow
<1>n. None \notin Snapshot BY NoneIsNoSnapshot
<1>1. ASSUME StartRun, Forget PROVE MarkerInv'
  <2>1. PICK B \in SUBSET ScannableLogins : todo' = {SnapshotOf(l) : l \in B}
    BY <1>1 DEF StartRun
  <2>2. B \subseteq Logins BY <2>1 DEF ScannableLogins
  <2>3. \A s \in todo' : s.login \in B /\ s = SnapshotOf(s.login)
    BY <2>1, <2>2, SnapshotType
  <2>4. \A l \in Logins : outcome'[l] = "none" BY <1>1 DEF Forget
  <2>5. /\ day' = day + 1 /\ UNCHANGED <<sub, cur>> /\ cur = None
    BY <1>1, <1>t DEF StartRun, storeVars
  <2>6. \A l \in Logins : Told(l)'
    BY <1>t, <2>4, <2>5 DEF MarkerInv, Told, Older
  <2>7. \A s, t \in todo' : s.login = t.login => s = t BY <2>3
  <2>8. \A s \in todo' : outcome'[s.login] = "none" BY <2>2, <2>3, <2>4
  <2>9. \A l \in Logins : sub'[l].lastRun <= day' /\ sub'[l].lastScanned <= day'
    BY <1>t, <2>5 DEF MarkerInv
  <2> QED BY <1>t, <2>5, <2>6, <2>7, <2>8, <2>9 DEF MarkerInv
<1>2. ASSUME NextSubscriber, UNCHANGED outcome PROVE MarkerInv'
  <2>1. PICK s \in todo : cur' = s /\ todo' = todo \ {s}
    BY <1>2 DEF NextSubscriber
  <2>2. /\ cpc' = "probe" /\ cpc = "next" /\ cur = None /\ UNCHANGED <<sub, day, outcome>>
    BY <1>2, <1>t DEF NextSubscriber, storeVars
  <2>3. s.login \in Logins BY <1>t, <2>1 DEF Snapshot
  <2>4. Scanning(s.login)'
    BY <2>2, <2>3 DEF MarkerInv, InRun, Scanning, Told, Older
  <2>5. \A l \in Logins \ {s.login} : Told(l)'
    BY <2>2 DEF MarkerInv, Told, Older
  <2>6. \A t \in todo' : outcome'[t.login] = "none" /\ t.login # s.login
    BY <2>1, <2>2 DEF MarkerInv
  <2>7. \A l \in Logins : IF cur' # None /\ l = cur'.login THEN Scanning(l)' ELSE Told(l)'
    BY <1>t, <1>n, <2>1, <2>4, <2>5
  <2>8. \A l \in Logins : sub'[l].lastRun <= day' /\ sub'[l].lastScanned <= day'
    BY <2>2 DEF MarkerInv
  <2>9. \A t, u \in todo' : t.login = u.login => t = u
    BY <2>1 DEF MarkerInv
  <2> QED BY <2>1, <2>2, <2>6, <2>7, <2>8, <2>9 DEF MarkerInv, InRun
<1>3. ASSUME BudgetStop \/ RunDone, UNCHANGED outcome PROVE MarkerInv'
  <2>1. /\ cpc' = "idle" /\ todo' = {} /\ cur' = None /\ cur = None
        /\ UNCHANGED <<sub, day>>
    BY <1>3, <1>t DEF BudgetStop, RunDone, EndOfRun, storeVars
  <2>2. \A l \in Logins : Told(l)' BY <1>3, <2>1 DEF MarkerInv, Told, Older
  <2> QED BY <1>3, <2>1, <2>2 DEF MarkerInv, InRun
\* A step of the scan of c that leaves the other logins alone.
<1>o. ASSUME cpc \notin {"idle", "next"}, UNCHANGED <<day, todo>>,
             NEW c \in Logins, c = cur.login,
             \A l \in Logins \ {c} : sub'[l] = sub[l] /\ outcome'[l] = outcome[l]
      PROVE  /\ day' > 0 /\ Scanning(c)
             /\ \A l \in Logins \ {c} : Told(l)'
             /\ \A l \in Logins \ {c} : sub'[l].lastRun <= day' /\ sub'[l].lastScanned <= day'
             /\ \A s \in todo' : outcome'[s.login] = "none" /\ s.login # c
             /\ \A s, t \in todo' : s.login = t.login => s = t
  <2>1. cur # None BY <1>o, CurIsLogin
  <2>2. \A s \in todo : s.login \in Logins BY <1>t DEF Snapshot
  <2>3. \A l \in Logins \ {c} : Told(l)'
    BY <1>o, <2>1 DEF MarkerInv, Told, Older
  <2>4. \A l \in Logins \ {c} : sub'[l].lastRun <= day' /\ sub'[l].lastScanned <= day'
    BY <1>o DEF MarkerInv
  <2>5. \A s \in todo' : outcome'[s.login] = "none" /\ s.login # c
    BY <1>o, <2>1, <2>2 DEF MarkerInv
  <2> QED BY <1>o, <2>1, <2>3, <2>4, <2>5 DEF MarkerInv, InRun
\* Whether it goes on or is over.
<1>p. ASSUME NEW c \in Logins, c = cur.login, cpc' # "idle",
             \/ cur' = cur /\ cpc' # "next" /\ Scanning(c)'
             \/ cur' = None /\ Told(c)',
             sub'[c].lastRun <= day' /\ sub'[c].lastScanned <= day',
             /\ day' > 0
             /\ \A l \in Logins \ {c} : Told(l)'
             /\ \A l \in Logins \ {c} : sub'[l].lastRun <= day' /\ sub'[l].lastScanned <= day'
             /\ \A s \in todo' : outcome'[s.login] = "none" /\ s.login # c
             /\ \A s, t \in todo' : s.login = t.login => s = t,
             cur # None
      PROVE  MarkerInv'
  <2>1. \A l \in Logins : sub'[l].lastRun <= day' /\ sub'[l].lastScanned <= day'
    BY <1>p
  <2>2. \A l \in Logins : IF cur' # None /\ l = cur'.login THEN Scanning(l)' ELSE Told(l)'
    BY <1>p
  <2>3. \A s \in todo' : outcome'[s.login] = "none" /\ (cur' # None => s.login # cur'.login)
    BY <1>p
  <2> QED BY <1>p, <2>1, <2>2, <2>3 DEF MarkerInv
<1>4. ASSUME ScanOnly, cpc' # "markScanned", UNCHANGED outcome PROVE MarkerInv'
  <2>1. /\ cpc \notin {"idle", "next"} /\ cpc' \notin {"idle", "next"}
        /\ UNCHANGED <<sub, day, todo, cur>>
    BY <1>4, ScanOnlyKeeps
  <2>2. cpc # "markScanned"
    BY <1>4 DEF ScanOnly, ProbeAccepted, ProbeRefused, TokenUnusable, Search, Diff, Record,
                SendAlert, SendFails, ProbeFails, RecordFails, SendThrows
  <2>c. PICK c \in Logins : c = cur.login /\ cur # None BY <2>1, CurIsLogin
  <2>o. \A l \in Logins \ {c} : sub'[l] = sub[l] /\ outcome'[l] = outcome[l]
    BY <1>4, <2>1
  <2>3. Scanning(c)' BY <1>o, <1>4, <2>c, <2>1, <2>2, <2>o DEF Scanning, Older
  <2>4. sub'[c].lastRun <= day' /\ sub'[c].lastScanned <= day' BY <2>1 DEF MarkerInv
  <2> QED BY <1>o, <1>p, <2>c, <2>o, <2>1, <2>3, <2>4
<1>5. ASSUME ProbeFails \/ RecordFails \/ SendThrows, Note("aborted") PROVE MarkerInv'
  <2>1. /\ cpc \notin {"idle", "next", "markScanned"} /\ cpc' = "markScanned"
        /\ UNCHANGED <<sub, day, todo, cur>>
    BY <1>5 DEF ProbeFails, RecordFails, SendThrows, Abort, Proceed, storeVars
  <2>c. PICK c \in Logins : c = cur.login /\ cur # None BY <2>1, CurIsLogin
  <2>2. \A l \in Logins :
          outcome'[l] = IF l = c /\ outcome[l] = "none" THEN "aborted" ELSE outcome[l]
    BY <1>5, <2>c, <2>1, NoteStep DEF Outcomes
  <2>o. \A l \in Logins \ {c} : sub'[l] = sub[l] /\ outcome'[l] = outcome[l]
    BY <2>1, <2>2
  <2>3. Scanning(c)' BY <1>o, <2>c, <2>1, <2>2, <2>o DEF Scanning, Older
  <2>4. sub'[c].lastRun <= day' /\ sub'[c].lastScanned <= day' BY <2>1 DEF MarkerInv
  <2> QED BY <1>o, <1>p, <2>c, <2>o, <2>1, <2>3, <2>4
<1>6. ASSUME Deactivate, Note("off") PROVE MarkerInv'
  <2>1. /\ cpc = "deactivate" /\ cpc' = "next" /\ cur' = None /\ UNCHANGED <<day, todo>>
    BY <1>6 DEF Deactivate
  <2>c. PICK c \in Logins : c = cur.login /\ cur # None BY <2>1, CurIsLogin
  <2>2. \A l \in Logins :
          outcome'[l] = IF l = c /\ outcome[l] = "none" THEN "off" ELSE outcome[l]
    BY <1>6, <2>c, <2>1, NoteStep DEF Outcomes
  <2>3. /\ \A m \in Logins \ {c} : sub'[m] = sub[m]
        /\ ~sub'[c].active
        /\ sub'[c].lastRun = sub[c].lastRun
        /\ sub'[c].lastScanned = sub[c].lastScanned
    BY <1>6, <2>c, DeactivateRows
  <2>o. \A l \in Logins \ {c} : sub'[l] = sub[l] /\ outcome'[l] = outcome[l]
    BY <2>2, <2>3
  <2>4. Told(c)' BY <1>o, <2>c, <2>1, <2>2, <2>3, <2>o DEF Scanning, Told, Older
  <2>5. sub'[c].lastRun <= day' /\ sub'[c].lastScanned <= day' BY <2>1, <2>3 DEF MarkerInv
  <2> QED BY <1>o, <1>p, <2>c, <2>o, <2>1, <2>4, <2>5
<1>7. ASSUME MarkRun, Note("clean") PROVE MarkerInv'
  <2>1. /\ cpc = "markRun" /\ cpc' = "markScanned" /\ UNCHANGED <<day, todo, cur>>
    BY <1>7 DEF MarkRun, Proceed
  <2>c. PICK c \in Logins : c = cur.login /\ cur # None BY <2>1, CurIsLogin
  <2>2. \A l \in Logins :
          outcome'[l] = IF l = c /\ outcome[l] = "none" THEN "clean" ELSE outcome[l]
    BY <1>7, <2>c, <2>1, NoteStep DEF Outcomes
  <2>3. /\ \A m \in Logins \ {c} : sub'[m] = sub[m]
        /\ sub'[c].lastRun = day
        /\ sub'[c].lastScanned = sub[c].lastScanned
    BY <1>7, <2>c, MarkRunRows
  <2>o. \A l \in Logins \ {c} : sub'[l] = sub[l] /\ outcome'[l] = outcome[l]
    BY <2>2, <2>3
  <2>4. Scanning(c)' BY <1>o, <2>c, <2>1, <2>2, <2>3, <2>o DEF Scanning, Older
  <2>5. sub'[c].lastRun <= day' /\ sub'[c].lastScanned <= day'
    BY <1>t, <2>1, <2>3 DEF MarkerInv
  <2> QED BY <1>o, <1>p, <2>c, <2>o, <2>1, <2>4, <2>5
<1>8. ASSUME MarkScanned, UNCHANGED outcome PROVE MarkerInv'
  <2>1. /\ cpc = "markScanned" /\ cpc' = "next" /\ cur' = None /\ UNCHANGED <<day, todo>>
    BY <1>8 DEF MarkScanned
  <2>c. PICK c \in Logins : c = cur.login /\ cur # None BY <2>1, CurIsLogin
  <2>2. /\ \A m \in Logins \ {c} : sub'[m] = sub[m]
        /\ sub'[c].lastScanned = day
        /\ sub'[c].lastRun = sub[c].lastRun
    BY <1>8, <2>c, MarkScannedRows
  <2>o. \A l \in Logins \ {c} : sub'[l] = sub[l] /\ outcome'[l] = outcome[l]
    BY <1>8, <2>2
  <2>3. Told(c)' BY <1>o, <1>8, <2>c, <2>1, <2>2, <2>o DEF Scanning, Told
  <2>4. sub'[c].lastRun <= day' /\ sub'[c].lastScanned <= day'
    BY <1>t, <2>1, <2>2 DEF MarkerInv
  <2> QED BY <1>o, <1>p, <2>c, <2>o, <2>1, <2>3, <2>4
<1>9. CASE UNCHANGED vars
  <2>1. \A l \in Logins : (Told(l)' <=> Told(l)) /\ (Scanning(l)' <=> Scanning(l))
    BY <1>9 DEF vars, cronVars, storeVars, Told, Scanning, Older
  <2> QED BY <1>9, <2>1 DEF vars, cronVars, storeVars, MarkerInv, InRun
<1>10. ASSUME \/ \E valid \in BOOLEAN : ProbeAccepted(valid) \/ ProbeRefused(valid)
              \/ TokenUnusable \/ Search \/ Diff \/ Record \/ SendAlert \/ SendFails
       PROVE  ScanOnly /\ cpc' # "markScanned"
  <2>1. \A valid : ProbeAccepted(valid) => cpc' \in {"markRun", "search"}
    BY DEF ProbeAccepted, Proceed
  <2>2. Diff => cpc' \in {"markRun", "record"} BY DEF Diff, Proceed
  <2> QED BY <1>10, <2>1, <2>2
          DEF ScanOnly, ProbeRefused, TokenUnusable, Search, Record, SendAlert, SendFails, Proceed
<1> QED BY <1>1, <1>2, <1>3, <1>4, <1>5, <1>6, <1>7, <1>8, <1>9, <1>10, Cases

LEMMA FoundStep == TypeInv /\ FoundInv /\ [Next]_vars => FoundInv'
<1> SUFFICES ASSUME TypeInv, FoundInv, [Next]_vars PROVE FoundInv'
  OBVIOUS
<1> USE DEF FoundInv
<1>1. ASSUME StartRun \/ NextSubscriber PROVE FoundInv'
  BY <1>1 DEF StartRun, NextSubscriber
<1>2. ASSUME BudgetStop \/ RunDone PROVE FoundInv'
  BY <1>2 DEF BudgetStop, RunDone, EndOfRun
<1>3. ASSUME NEW valid, ProbeAccepted(valid) \/ ProbeRefused(valid) PROVE FoundInv'
  BY <1>3 DEF ProbeAccepted, ProbeRefused, Proceed, storeVars
<1>4. ASSUME TokenUnusable \/ Search \/ SendFails PROVE FoundInv'
  BY <1>4 DEF TokenUnusable, Search, SendFails, Proceed, storeVars
<1>5. CASE Diff
  <2>1. /\ cpc' = IF found \subseteq known[cur.login] THEN "markRun" ELSE "record"
        /\ found' = found \ known[cur.login] /\ UNCHANGED <<known, cur>>
    BY <1>5 DEF Diff, Proceed, storeVars
  <2> QED BY <2>1
<1>6. CASE Record
  <2>1. /\ cpc' = "send" /\ UNCHANGED <<found, cur>> /\ cur.login \in Logins
        /\ known' = [known EXCEPT ![cur.login] = known[cur.login] \cup found]
    BY <1>6, CurIsLogin DEF Record, RecordClones, Proceed, TypeInv, TypeOK, StoreTypeOK
  <2> QED BY <2>1 DEF TypeInv, TypeOK, StoreTypeOK
<1>7. CASE SendAlert
  BY <1>7 DEF SendAlert, Proceed
<1>8. ASSUME ProbeFails \/ RecordFails \/ SendThrows PROVE FoundInv'
  BY <1>8 DEF ProbeFails, RecordFails, SendThrows, Abort, Proceed
<1>9. CASE Deactivate
  BY <1>9 DEF Deactivate
<1>10. ASSUME MarkRun \/ MarkScanned PROVE FoundInv'
  BY <1>10 DEF MarkRun, MarkScanned, Proceed
<1>11. CASE UNCHANGED vars
  BY <1>11 DEF vars, cronVars, storeVars
<1> QED BY <1>1, <1>2, <1>3, <1>4, <1>5, <1>6, <1>7, <1>8, <1>9, <1>10, <1>11, Cases

LEMMA ServedStep == TypeInv /\ MarkerInv /\ ServedInv /\ [Next]_vars => ServedInv'
<1> SUFFICES ASSUME TypeInv, MarkerInv, ServedInv, [Next]_vars PROVE ServedInv'
  OBVIOUS
<1> USE DEF ServedInv
<1>1. CASE StartRun
  BY <1>1 DEF StartRun
<1>2. ASSUME NextSubscriber \/ BudgetStop \/ RunDone PROVE ServedInv'
  BY <1>2 DEF NextSubscriber, BudgetStop, RunDone, EndOfRun
<1>3. CASE ScanOnly
  BY <1>3, ScanOnlyKeeps
<1>4. ASSUME Deactivate, Note("off") PROVE ServedInv'
  <2>1. cur.login \in Logins /\ cpc \notin {"idle", "next"} BY <1>4, CurIsLogin DEF Deactivate
  <2>2. outcome'[cur.login] # "none" BY <1>4, <2>1, NoteStep DEF Outcomes
  <2> QED BY <2>1, <2>2
<1>5. CASE MarkRun
  BY <1>5 DEF MarkRun, Proceed
<1>6. ASSUME MarkScanned, UNCHANGED outcome PROVE ServedInv'
  <2>1. cur.login \in Logins /\ cur # None /\ cpc = "markScanned"
    BY <1>6, CurIsLogin DEF MarkScanned
  <2>2. outcome[cur.login] # "none" BY <2>1 DEF MarkerInv, Scanning
  <2> QED BY <1>6, <2>1, <2>2
<1>7. CASE UNCHANGED vars
  BY <1>7 DEF vars, cronVars
<1> QED BY <1>1, <1>2, <1>3, <1>4, <1>5, <1>6, <1>7, Cases DEF ScanOnly

RunInv == MarkerInv /\ FoundInv /\ ServedInv

LEMMA RunInvariant == Spec => []RunInv
<1>1. Init => RunInv
  <2> SUFFICES ASSUME Init PROVE RunInv
    OBVIOUS
  <2>1. \A l \in Logins : sub[l].lastRun = 0 /\ sub[l].lastScanned = 0
    BY DEF Init, Never
  <2> QED BY <2>1 DEF Init, CronInit, RunInv, MarkerInv, FoundInv, ServedInv, InRun, Told
<1>2. TypeInv /\ RunInv /\ [Next]_vars => RunInv'
  BY MarkerStep, FoundStep, ServedStep DEF RunInv
<1> QED BY <1>1, <1>2, TypeInvariant, PTL DEF Spec

\* The three outcomes of runImpersonationScan are told apart by the two markers
\* of a row, and the clean-run marker moves only over a complete baseline.
THEOREM MarkersAreTruthful == Spec => []MarkersTellTheOutcome
<1>1. TypeInv /\ RunInv => MarkersTellTheOutcome
  <2> SUFFICES ASSUME TypeInv, RunInv PROVE MarkersTellTheOutcome
    OBVIOUS
  <2>1. Between => cur = None BY DEF Between, TypeInv, TypeOK, CronTypeOK
  <2> QED BY <2>1 DEF MarkersTellTheOutcome, RunInv, MarkerInv, FoundInv, Told, Older
<1> QED BY <1>1, RunInvariant, TypeInvariant, PTL

\* The budget never stops a run before it has served somebody
\* (cron.ts, `consumed > 0').
THEOREM RunsServeSomeone == Spec => EveryRunServesSomeone
<1>1. TypeInv /\ RunInv /\ [Next]_vars => [BudgetStop => \E l \in Logins : outcome[l] # "none"]_vars
  BY DEF RunInv, ServedInv, BudgetStop, OverBudget
<1> QED BY <1>1, RunInvariant, TypeInvariant, PTL DEF Spec, EveryRunServesSomeone

-----------------------------------------------------------------------------
(* 3. What is in the baseline has been mailed once *)

\* The suspects of the alert that is under way are new and nothing has become of
\* their mail yet; what is not in the baseline has no history.
MailInv ==
  /\ \A l \in Logins : \A s \in Suspects \ known[l] : told[l][s] = 0 /\ s \notin unsent[l]
  /\ cpc = "record" => found \cap known[cur.login] = {}
  /\ cpc = "send" => found \subseteq promised[cur.login] /\ found \cap unsent[cur.login] = {}

Untouched == UNCHANGED <<known, told, promised, unsent>>

\* Between scans and before the baseline is compared, the suspects do not matter.
LEMMA MailQuiet ==
  ASSUME MailInv, AlertsAreLostOnlyInTheMail, Untouched,
         cpc \notin {"record", "send"}, cpc' \notin {"record", "send"}
  PROVE  MailInv' /\ AlertsAreLostOnlyInTheMail'
BY DEF MailInv, AlertsAreLostOnlyInTheMail, Untouched, Sending

LEMMA MailStep ==
  TypeInv /\ MailInv /\ FoundInv /\ AlertsAreLostOnlyInTheMail /\ [Next]_vars
    => MailInv' /\ AlertsAreLostOnlyInTheMail'
<1> SUFFICES ASSUME TypeInv, MailInv, FoundInv, AlertsAreLostOnlyInTheMail, [Next]_vars
             PROVE  MailInv' /\ AlertsAreLostOnlyInTheMail'
  OBVIOUS
<1> DEFINE Goal == MailInv' /\ AlertsAreLostOnlyInTheMail'
<1>t. /\ known \in [Logins -> SUBSET Suspects] /\ promised \in [Logins -> SUBSET Suspects]
      /\ told \in [Logins -> [Suspects -> Nat]] /\ found \subseteq Suspects
  BY DEF TypeInv, TypeOK, StoreTypeOK, CronTypeOK
<1>1. ASSUME StartRun \/ NextSubscriber \/ BudgetStop \/ RunDone \/ MarkRun \/ MarkScanned,
             UNCHANGED unsent
      PROVE  Goal
  <2>1. /\ cpc \notin {"record", "send"}
        /\ cpc' \notin {"record", "send"}
        /\ UNCHANGED <<known, told, promised>>
    BY <1>1 DEF StartRun, NextSubscriber, BudgetStop, RunDone, EndOfRun, MarkRun, MarkScanned,
                Proceed, storeVars
  <2> QED BY <1>1, <2>1, MailQuiet DEF Untouched
<1>2. ASSUME \/ \E valid \in BOOLEAN : ProbeAccepted(valid) \/ ProbeRefused(valid)
             \/ TokenUnusable \/ ProbeFails \/ Search,
             UNCHANGED unsent
      PROVE  Goal
  <2>p. \A valid : ProbeAccepted(valid) => cpc' \in {"markRun", "search"}
    BY DEF ProbeAccepted, Proceed
  <2>1. /\ cpc \notin {"record", "send"}
        /\ cpc' \notin {"record", "send"}
        /\ UNCHANGED <<known, told, promised>>
    BY <1>2, <2>p DEF ProbeAccepted, ProbeRefused, TokenUnusable, ProbeFails, Search, Abort, Proceed,
                storeVars
  <2> QED BY <1>2, <2>1, MailQuiet DEF Untouched
<1>3. ASSUME Diff, UNCHANGED unsent PROVE Goal
  <2>1. /\ cpc = "diff" /\ cpc' \in {"markRun", "record"} /\ found' = found \ known[cur.login]
        /\ UNCHANGED <<known, told, promised, cur>>
    BY <1>3 DEF Diff, Proceed, storeVars
  <2> QED BY <1>3, <2>1 DEF MailInv, AlertsAreLostOnlyInTheMail, Sending
<1>4. ASSUME Record, UNCHANGED unsent PROVE Goal
  <2>c. /\ cur.login \in Logins /\ cpc = "record" /\ cpc' = "send"
        /\ UNCHANGED <<told, found, cur>>
    BY <1>4, CurIsLogin DEF Record, Proceed
  <2>1. \A l \in Logins : known'[l] = IF l = cur.login THEN known[l] \cup found ELSE known[l]
    BY <1>4, <1>t, <2>c DEF Record, RecordClones
  <2>2. promised'[cur.login] = promised[cur.login] \cup found
    BY <1>4, <1>t, <2>c DEF Record
  <2>3. found \cap unsent[cur.login] = {}
    BY <1>t, <2>c DEF MailInv
  <2>5. MailInv' BY <1>4, <1>t, <2>c, <2>1, <2>2, <2>3 DEF MailInv
  <2>6. ASSUME NEW l \in Logins, NEW s \in known'[l]
        PROVE  told'[l][s] = IF s \in unsent'[l] \/ Sending(l, s)' THEN 0 ELSE 1
    <3>1. CASE l = cur.login /\ s \in found
      BY <1>t, <2>c, <3>1 DEF MailInv, Sending
    <3>2. CASE ~(l = cur.login /\ s \in found)
      <4>1. s \in known[l] BY <2>1, <3>2
      <4>2. ~Sending(l, s) /\ ~Sending(l, s)' BY <2>c, <3>2 DEF Sending
      <4> QED BY <1>4, <2>c, <4>1, <4>2 DEF AlertsAreLostOnlyInTheMail
    <3> QED BY <3>1, <3>2
  <2> QED BY <2>5, <2>6 DEF AlertsAreLostOnlyInTheMail
<1>5. ASSUME RecordFails, UNCHANGED unsent PROVE Goal
  <2>1. /\ cpc = "record" /\ cpc' = "markScanned" /\ UNCHANGED <<known, told, promised>>
    BY <1>5 DEF RecordFails, Abort, Proceed, storeVars
  <2> QED BY <1>5, <2>1 DEF MailInv, AlertsAreLostOnlyInTheMail, Sending
<1>6. ASSUME SendAlert, UNCHANGED unsent PROVE Goal
  <2>c. /\ cur.login \in Logins /\ cpc = "send" /\ cpc' = "markRun"
        /\ UNCHANGED <<known, found, cur>>
    BY <1>6, CurIsLogin DEF SendAlert, Proceed
  <2>1. \A l \in Logins : \A s \in Suspects :
          told'[l][s] = IF l = cur.login /\ s \in found \cap promised[l]
                        THEN told[l][s] + 1 ELSE told[l][s]
    BY <1>6, <1>t, <2>c DEF SendAlert
  <2> QED BY <1>6, <1>t, <2>c, <2>1
          DEF MailInv, FoundInv, AlertsAreLostOnlyInTheMail, Sending
<1>7. ASSUME SendFails \/ SendThrows,
             \A l \in Logins : unsent'[l] = IF l = cur.login THEN unsent[l] \cup found
                                            ELSE unsent[l]
      PROVE  Goal
  <2>c. /\ cur.login \in Logins /\ cpc = "send" /\ cpc' \notin {"record", "send"}
        /\ UNCHANGED <<known, told, promised, found, cur>>
    BY <1>7, CurIsLogin DEF SendFails, SendThrows, Abort, Proceed, storeVars
  <2>1. MailInv' BY <1>7, <2>c DEF MailInv, FoundInv
  <2>2. \A l \in Logins : \A s \in known[l] :
          s \in unsent'[l] \/ Sending(l, s)' <=> s \in unsent[l] \/ Sending(l, s)
    BY <1>7, <2>c DEF Sending
  <2> QED BY <2>c, <2>1, <2>2 DEF AlertsAreLostOnlyInTheMail
<1>8. ASSUME Deactivate,
             \A l \in Logins : unsent'[l] = IF l = cur.login THEN {} ELSE unsent[l]
      PROVE  Goal
  <2>c. cur.login \in Logins /\ cpc = "deactivate" /\ cpc' = "next"
    BY <1>8, CurIsLogin DEF Deactivate
  <2>1. \A l \in Logins : /\ known'[l] = IF l = cur.login THEN {} ELSE known[l]
                          /\ \A s \in Suspects :
                               told'[l][s] = IF l = cur.login THEN 0 ELSE told[l][s]
    BY <1>8, <1>t, <2>c DEF Deactivate, DeactivateSubscription, ClearChildren
  <2> QED BY <1>8, <1>t, <2>c, <2>1 DEF MailInv, AlertsAreLostOnlyInTheMail, Sending
<1>9. CASE UNCHANGED vars
  BY <1>9 DEF vars, cronVars, storeVars, MailInv, AlertsAreLostOnlyInTheMail, Sending
<1> QED BY <1>1, <1>2, <1>3, <1>4, <1>5, <1>6, <1>7, <1>8, <1>9, UnsentStep

\* Retries neither repeat an alert nor drop one: what the baseline holds was
\* mailed once, unless the mail itself failed (recordClones before
\* sendImpersonationAlert in scanSubscriber).
THEOREM BaselineIsMailedOnce == Spec => []AlertsAreLostOnlyInTheMail
<1>1. Init => MailInv /\ AlertsAreLostOnlyInTheMail
  BY DEF Init, CronInit, MailInv, AlertsAreLostOnlyInTheMail
<1>2. RunInv => FoundInv BY DEF RunInv
<1> QED BY <1>1, <1>2, MailStep, RunInvariant, TypeInvariant, PTL DEF Spec

-----------------------------------------------------------------------------
(* 4. Nobody starves *)

Scanned(l) == sub[l].lastScanned
Old(x) == {l \in ScannableLogins : Scanned(l) <= x}

\* The rows that were last scanned on day x or before are the fewer the longer
\* ago x is: of a population of N, N - (day - x), and slack more of them.
Within(slack) ==
  \A x \in 0..day :
    Old(x) # {} => Cardinality(Old(x)) + day <= Cardinality(Logins) + x + slack

\* A login nobody waits longer than.
Furthest(l) == l \in ScannableLogins /\ \A m \in ScannableLogins : Scanned(l) <= Scanned(m)

\* A run that has not served its first subscriber is about to serve such a one.
AtStart ==
  /\ cpc = "next" => /\ consumed = 0
                     /\ todo = {} => ScannableLogins = {}
                     /\ \A s \in todo : Ahead(s) => Furthest(s.login)
  /\ cur # None => Furthest(cur.login)

\* Every run sets the oldest rows back by one: until it has, the rows may be one
\* too many.
RotationInv == Within(0) \/ (cpc # "idle" /\ Within(1) /\ AtStart)

LEMMA Counts ==
  ASSUME NEW S \in SUBSET Logins
  PROVE  /\ IsFiniteSet(S) /\ Cardinality(S) \in Nat /\ Cardinality(Logins) \in Nat
         /\ Cardinality(S) <= Cardinality(Logins)
         /\ \A T \in SUBSET S :
              /\ Cardinality(T) \in Nat /\ Cardinality(T) <= Cardinality(S)
              /\ T # S => Cardinality(T) < Cardinality(S)
<1>1. IsFiniteSet(S) BY PopulationAssumption, FS_Subset
<1>2. Cardinality(S) \in Nat /\ Cardinality(Logins) \in Nat /\ Cardinality(S) <= Cardinality(Logins)
  BY <1>1, PopulationAssumption, FS_Subset, FS_CardinalityType
<1>3. ASSUME NEW T \in SUBSET S
      PROVE  /\ Cardinality(T) \in Nat /\ Cardinality(T) <= Cardinality(S)
             /\ T # S => Cardinality(T) < Cardinality(S)
  <2>1. IsFiniteSet(T) /\ Cardinality(T) <= Cardinality(S)
        /\ (Cardinality(T) = Cardinality(S) => S = T)
    BY <1>1, FS_Subset
  <2>2. Cardinality(T) \in Nat BY <2>1, FS_CardinalityType
  <2> QED BY <1>2, <2>1, <2>2
<1> QED BY <1>1, <1>2, <1>3

LEMMA DaysAndRows ==
  ASSUME TypeInv
  PROVE  /\ day \in Nat
         /\ ScannableLogins \subseteq Logins
         /\ \A l \in Logins : Scanned(l) \in Nat
         /\ \A l \in Logins :
              l \in ScannableLogins <=> sub[l].active /\ sub[l].verified /\ users[l] # "suspended"
BY RowIsSomething
   DEF TypeInv, TypeOK, CronTypeOK, RowsOK, SubRow, Scanned, ScannableLogins, Scannable, Active, HasRow

\* No step of a scan makes a row older than it was.
LEMMA RowsCatchUp ==
  ASSUME TypeInv, UNCHANGED day, ScannableLogins' \subseteq ScannableLogins,
         \A l \in ScannableLogins' : Scanned(l)' \in {Scanned(l), day}
  PROVE  Within(0) => Within(0)'
<1> SUFFICES ASSUME Within(0), NEW x \in 0..day', Old(x)' # {}
             PROVE  Cardinality(Old(x)') + day' <= Cardinality(Logins) + x + 0
  BY DEF Within
<1>d. x \in 0..day /\ day' = day OBVIOUS
<1>1. Old(x)' \subseteq Logins /\ Old(x) \subseteq Logins
  BY DaysAndRows DEF Old
<1>2. CASE x = day
  <2>1. /\ Cardinality(Old(x)') \in Nat /\ Cardinality(Logins) \in Nat
        /\ Cardinality(Old(x)') <= Cardinality(Logins)
    BY <1>1, Counts
  <2> QED BY <1>d, <1>2, <2>1, DaysAndRows
<1>3. CASE x # day
  <2>1. ~(day <= x) BY <1>d, <1>3, DaysAndRows
  <2>2. Old(x)' \subseteq Old(x) BY <2>1 DEF Old
  <2>3. Cardinality(Old(x)') <= Cardinality(Old(x)) /\ Cardinality(Old(x)') \in Nat
        /\ Cardinality(Old(x)) \in Nat /\ Cardinality(Logins) \in Nat
    BY <1>1, <2>2, Counts
  <2>4. Old(x) # {} BY <2>2
  <2>5. Cardinality(Old(x)) + day <= Cardinality(Logins) + x + 0
    BY <1>d, <2>4 DEF Within
  <2> QED BY <1>d, <2>3, <2>5, DaysAndRows
<1> QED BY <1>2, <1>3

\* And the first scan of a run takes one row from each of the old sets.
LEMMA FirstCatchesUp ==
  ASSUME TypeInv, UNCHANGED day, ScannableLogins' \subseteq ScannableLogins,
         \A l \in ScannableLogins' : Scanned(l)' \in {Scanned(l), day},
         NEW c \in Logins, Furthest(c), c \in ScannableLogins' => Scanned(c)' = day
  PROVE  Within(1) => Within(0)'
<1> SUFFICES ASSUME Within(1), NEW x \in 0..day', Old(x)' # {}
             PROVE  Cardinality(Old(x)') + day' <= Cardinality(Logins) + x + 0
  BY DEF Within
<1>d. x \in 0..day /\ day' = day OBVIOUS
<1>1. Old(x)' \subseteq Logins /\ Old(x) \subseteq Logins
  BY DaysAndRows DEF Old
<1>2. CASE x = day
  <2>1. /\ Cardinality(Old(x)') \in Nat /\ Cardinality(Logins) \in Nat
        /\ Cardinality(Old(x)') <= Cardinality(Logins)
    BY <1>1, Counts
  <2> QED BY <1>d, <1>2, <2>1, DaysAndRows
<1>3. CASE x # day
  <2>1. ~(day <= x) BY <1>d, <1>3, DaysAndRows
  <2>2. Old(x)' \subseteq Old(x) BY <2>1 DEF Old
  <2>3. Old(x) # {} BY <2>2
  <2>4. c \in Old(x)
    <3>1. PICK m \in ScannableLogins : Scanned(m) <= x BY <2>3 DEF Old
    <3>2. Scanned(c) <= Scanned(m) /\ c \in ScannableLogins BY DEF Furthest
    <3>3. Scanned(c) \in Nat /\ Scanned(m) \in Nat BY DaysAndRows
    <3> HIDE DEF Scanned
    <3> QED BY <3>1, <3>2, <3>3 DEF Old
  <2>5. c \notin Old(x)' BY <2>1 DEF Old
  <2>6. Cardinality(Old(x)') < Cardinality(Old(x)) /\ Cardinality(Old(x)') \in Nat
        /\ Cardinality(Old(x)) \in Nat /\ Cardinality(Logins) \in Nat
    BY <1>1, <2>2, <2>4, <2>5, Counts
  <2>7. Cardinality(Old(x)) + day <= Cardinality(Logins) + x + 1
    BY <1>d, <2>3 DEF Within
  <2> QED BY <1>d, <2>6, <2>7, DaysAndRows
<1> QED BY <1>2, <1>3

\* A day passes.
LEMMA StartStep ==
  ASSUME TypeInv, Within(0), StartRun
  PROVE  Within(1)' /\ AtStart' /\ cpc' # "idle"
<1>1. /\ day' = day + 1 /\ cpc' = "next" /\ consumed' = 0 /\ UNCHANGED <<cur, sub, users>>
      /\ cur = None
  BY DEF StartRun, storeVars, TypeInv, TypeOK, CronTypeOK
<1>2. UNCHANGED ScannableLogins /\ \A l \in Logins : Scanned(l)' = Scanned(l)
  BY <1>1 DEF ScannableLogins, Scannable, Active, HasRow, Scanned
<1>3. Within(1)'
  <2> SUFFICES ASSUME NEW x \in 0..day + 1, Old(x)' # {}
               PROVE  Cardinality(Old(x)') + (day + 1) <= Cardinality(Logins) + x + 1
    BY <1>1 DEF Within
  <2>1. Old(x)' = Old(x) /\ Old(x) \subseteq Logins BY <1>2, DaysAndRows DEF Old
  <2>2. /\ Cardinality(Old(x)) \in Nat /\ Cardinality(Logins) \in Nat
        /\ Cardinality(Old(x)) <= Cardinality(Logins)
    BY <2>1, Counts
  <2>3. CASE x = day + 1 BY <2>1, <2>2, <2>3, DaysAndRows
  <2>4. CASE x # day + 1
    <3>1. x \in 0..day BY <2>4, DaysAndRows
    <3>2. Cardinality(Old(x)) + day <= Cardinality(Logins) + x + 0
      BY <2>1, <3>1 DEF Within
    <3> QED BY <2>1, <2>2, <3>1, <3>2, DaysAndRows
  <2> QED BY <2>3, <2>4
<1>4. PICK B \in SUBSET ScannableLogins :
        Shard(B, MaxSubsPerRun) /\ todo' = {SnapshotOf(l) : l \in B}
  BY DEF StartRun
<1>5. todo' = {} => ScannableLogins' = {}
  <2>1. ASSUME B = {} PROVE ScannableLogins = {}
    BY <1>4, <2>1, FS_EmptySet, CronAssumption DEF Shard
  <2> QED BY <1>2, <1>4, <2>1
<1>6. ASSUME NEW s \in todo', Ahead(s)' PROVE Furthest(s.login)'
  <2>1. PICK l \in B : s = SnapshotOf(l) BY <1>4
  <2>2. l \in Logins /\ s.login = l /\ s.scannedAt = Scanned(l)
    BY <2>1, SnapshotType DEF ScannableLogins, Scanned
  <2>3. \A m \in B : Scanned(l) <= Scanned(m)
    <3> SUFFICES ASSUME NEW m \in B PROVE Scanned(l) <= Scanned(m)
      OBVIOUS
    <3>1. SnapshotOf(m) \in todo' BY <1>4
    <3>2. SnapshotOf(m).scannedAt = Scanned(m)
      BY SnapshotType DEF ScannableLogins, Scanned
    <3>3. s.scannedAt <= SnapshotOf(m).scannedAt BY <1>6, <3>1 DEF Ahead
    <3> QED BY <2>2, <3>2, <3>3
  <2>4. \A m \in ScannableLogins \ B : Scanned(l) <= Scanned(m)
    BY <1>4 DEF Shard, Scanned
  <2>5. Furthest(l) BY <2>3, <2>4 DEF Furthest
  <2>6. Furthest(l)' BY <1>2, <2>5, DaysAndRows DEF Furthest
  <2> QED BY <2>2, <2>6
<1> QED BY <1>1, <1>3, <1>5, <1>6 DEF AtStart

LEMMA RotationStep == TypeInv /\ RotationInv /\ [Next]_vars => RotationInv'
<1> SUFFICES ASSUME TypeInv, RotationInv, [Next]_vars PROVE RotationInv'
  OBVIOUS
<1>t. cur = None <=> cpc \in {"idle", "next"} BY DEF TypeInv, TypeOK, CronTypeOK
\* What a step does not change that writes no row.
<1>k. ASSUME UNCHANGED <<sub, users, day>>
      PROVE  /\ \A slack : Within(slack)' <=> Within(slack)
             /\ \A l \in Logins : Furthest(l)' <=> Furthest(l)
             /\ UNCHANGED ScannableLogins
  <2>1. UNCHANGED ScannableLogins
    BY <1>k DEF ScannableLogins, Scannable, Active, HasRow
  <2>2. \A l : Scanned(l)' = Scanned(l) BY <1>k DEF Scanned
  <2>3. \A x : Old(x)' = Old(x) BY <2>1, <2>2 DEF Old
  <2> QED BY <1>k, <2>1, <2>2, <2>3 DEF Within, Furthest
<1>1. CASE StartRun
  <2>1. Within(0) BY <1>1 DEF RotationInv, StartRun
  <2> QED BY <1>1, <2>1, StartStep DEF RotationInv
<1>2. CASE NextSubscriber
  <2>1. UNCHANGED <<sub, users, day>> BY <1>2 DEF NextSubscriber, storeVars
  <2>2. PICK s \in todo : Ahead(s) /\ cur' = s BY <1>2 DEF NextSubscriber
  <2>3. s.login \in Logins BY DEF TypeInv, TypeOK, CronTypeOK, Snapshot
  <2>4. cpc = "next" /\ cpc' = "probe" BY <1>2 DEF NextSubscriber
  <2>5. AtStart => AtStart'
    BY <1>k, <2>1, <2>2, <2>3, <2>4 DEF AtStart
  <2> QED BY <1>k, <2>1, <2>4, <2>5 DEF RotationInv
<1>3. CASE BudgetStop \/ RunDone
  <2>1. UNCHANGED <<sub, users, day>> BY <1>3 DEF BudgetStop, RunDone, EndOfRun, storeVars
  <2>2. Within(0) \/ ScannableLogins = {}
    BY <1>3 DEF RotationInv, AtStart, BudgetStop, RunDone, OverBudget
  <2>3. ScannableLogins = {} => Within(0) BY DEF Within, Old
  <2> QED BY <1>k, <2>1, <2>2, <2>3 DEF RotationInv
<1>4. CASE ScanOnly
  <2>1. /\ cpc \notin {"idle", "next"} /\ cpc' \notin {"idle", "next"}
        /\ UNCHANGED <<sub, users, day, cur>>
    BY <1>4, ScanOnlyKeeps
  <2>2. cur.login \in Logins BY <2>1, CurIsLogin
  <2>3. AtStart => AtStart' BY <1>k, <1>t, <2>1, <2>2 DEF AtStart
  <2> QED BY <1>k, <2>1, <2>3 DEF RotationInv
<1>5. CASE MarkRun
  <2>1. /\ UNCHANGED <<day, cur, users>> /\ cpc = "markRun" /\ cpc' = "markScanned"
    BY <1>5 DEF MarkRun, Proceed
  <2>c. PICK c \in Logins : c = cur.login /\ cur # None BY <2>1, CurIsLogin
  <2>2. \A l \in Logins : /\ sub'[l] \in SubRow
                         /\ sub'[l].lastScanned = sub[l].lastScanned
                         /\ sub'[l].active = sub[l].active
                         /\ sub'[l].verified = sub[l].verified
    BY <1>5, <2>c, MarkRunRows
  <2>3. \A l \in Logins : sub[l] # None /\ sub'[l] # None
    BY <2>2, RowIsSomething DEF TypeInv, RowsOK
  <2>4. UNCHANGED ScannableLogins
    BY <2>1, <2>2, <2>3 DEF ScannableLogins, Scannable, Active, HasRow
  <2>5. \A l \in Logins : Scanned(l)' = Scanned(l) BY <2>2 DEF Scanned
  <2>6. \A x : Old(x)' = Old(x) BY <2>4, <2>5, DaysAndRows DEF Old
  <2>7. \A slack : Within(slack)' <=> Within(slack) BY <2>1, <2>6 DEF Within
  <2>8. Furthest(c)' <=> Furthest(c) BY <2>4, <2>5, DaysAndRows DEF Furthest
  <2>9. AtStart => AtStart' BY <2>1, <2>c, <2>8 DEF AtStart
  <2> QED BY <2>1, <2>7, <2>9 DEF RotationInv
<1>6. CASE MarkScanned \/ Deactivate
  <2>1. /\ UNCHANGED <<day, users>> /\ cpc \notin {"idle", "next"}
    BY <1>6 DEF MarkScanned, Deactivate
  <2>c. PICK c \in Logins : c = cur.login /\ cur # None BY <2>1, CurIsLogin
  <2>2. /\ \A l \in Logins : sub'[l] \in SubRow
        /\ \A l \in Logins \ {c} : sub'[l] = sub[l]
        /\ sub'[c].active => /\ sub'[c].lastScanned = day
                             /\ sub'[c].active = sub[c].active
                             /\ sub'[c].verified = sub[c].verified
    BY <1>6, <2>c, MarkScannedRows, DeactivateRows
  <2>3. \A l \in Logins : sub[l] # None /\ sub'[l] # None
    BY <2>2, RowIsSomething DEF TypeInv, RowsOK
  <2>4. ScannableLogins' \subseteq ScannableLogins
    BY <2>1, <2>2, <2>3 DEF ScannableLogins, Scannable, Active, HasRow
  <2>5. c \in ScannableLogins' => Scanned(c)' = day
    BY <2>2, <2>3 DEF ScannableLogins, Scannable, Active, HasRow, Scanned
  <2>6. \A l \in ScannableLogins' : Scanned(l)' \in {Scanned(l), day}
    BY <2>2, <2>4, <2>5, DaysAndRows DEF Scanned
  <2>7. Within(0) \/ (Within(1) /\ Furthest(c)) BY <2>c DEF RotationInv, AtStart
  <2> QED BY <2>1, <2>4, <2>5, <2>6, <2>7, RowsCatchUp, FirstCatchesUp DEF RotationInv
<1>7. CASE UNCHANGED vars
  <2>1. UNCHANGED <<sub, users, day, cpc, todo, cur, consumed>>
    BY <1>7 DEF vars, storeVars, cronVars
  <2>2. \A s \in todo : s.login \in Logins /\ (Ahead(s)' <=> Ahead(s))
    BY <2>1 DEF TypeInv, TypeOK, CronTypeOK, Snapshot, Ahead
  <2>3. cur # None => cur.login \in Logins
    BY DEF TypeInv, TypeOK, CronTypeOK, Snapshot
  <2>4. AtStart => AtStart' BY <1>k, <2>1, <2>2, <2>3 DEF AtStart
  <2> QED BY <1>k, <2>1, <2>4 DEF RotationInv
<1> QED BY <1>1, <1>2, <1>3, <1>4, <1>5, <1>6, <1>7, Cases DEF ScanOnly

\* Whatever the shard, the budget, the estimates and the failures: no confirmed
\* subscriber waits more runs than there are subscribers (store.ts:258-260, "so
\* the batch rotates and one stuck sub can't starve the rest").  With runs that
\* die half-way it is false.
THEOREM EverybodysTurnComes == Spec => []NobodyStarves
<1>1. Init => RotationInv
  <2> SUFFICES ASSUME Init PROVE Within(0)
    BY DEF RotationInv
  <2>1. day = 0 BY DEF Init, CronInit
  <2> SUFFICES ASSUME NEW x \in 0..0
               PROVE  Cardinality(Old(x)) + 0 <= Cardinality(Logins) + x + 0
    BY <2>1 DEF Within
  <2>2. Old(x) \subseteq Logins BY DEF Old, ScannableLogins
  <2>3. /\ Cardinality(Old(x)) \in Nat /\ Cardinality(Logins) \in Nat
        /\ Cardinality(Old(x)) <= Cardinality(Logins)
    BY <2>2, Counts
  <2> QED BY <2>3
<1>2. TypeInv /\ RotationInv => NobodyStarves
  <2> SUFFICES ASSUME TypeInv, Within(0), NEW l \in ScannableLogins
               PROVE  sub[l].lastScanned + Cardinality(Logins) > day
    BY DEF RotationInv, NobodyStarves
  <2> DEFINE x == Scanned(l)
  <2>1. x \in Nat /\ day \in Nat /\ Cardinality(Logins) \in Nat
    BY DaysAndRows, Counts
  <2>2. CASE x > day
    BY <2>1, <2>2 DEF Scanned
  <2>3. CASE x <= day
    <3>1. l \in Old(x) /\ Old(x) \subseteq Logins BY <2>1, DaysAndRows DEF Old
    <3>2. Cardinality(Old(x)) \in Nat /\ Cardinality(Old(x)) # 0
      BY <3>1, Counts, FS_EmptySet
    <3>3. Cardinality(Old(x)) + day <= Cardinality(Logins) + x + 0
      BY <2>1, <2>3, <3>1 DEF Within
    <3> QED BY <2>1, <3>2, <3>3 DEF Scanned
  <2> QED BY <2>1, <2>2, <2>3
<1> QED BY <1>1, <1>2, RotationStep, TypeInvariant, PTL DEF Spec
=============================================================================
