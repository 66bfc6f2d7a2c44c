-------------------------- MODULE AdminConsoleProofs --------------------------
(***************************************************************************)
(* Proofs about AdminConsole, for any accounts, suspects, messages,        *)
(* reports, texts, filters, requests and faults.                           *)
(*                                                                         *)
(*   1. types, and what a step does to a request                           *)
(*   2. what is on the audit trail                                         *)
(*   3. what administrators decided of a report                            *)
(*   4. one request about a message at a time, and its text                *)
(***************************************************************************)
EXTENDS AdminConsole, TLAPS

Patch ==
  [status : MessageStatuses \cup ReportStatuses \cup {None},
   text : Texts \cup {None}]
Answers == UNION {[S -> Message \cup Report] : S \in SUBSET Rows}

Closed == {"shown", "refused"}
Open == Running \cup {"answered", "failed"}

Request ==
  [pc : Open \cup Closed, id : Rows \cup Filters, patch : Patch,
   address : BOOLEAN, target : Messages \cup Suspects \cup {None},
   rows : Answers]

\* What a request that has left the console may ask of what.
RequestOK(r) ==
  /\ r \in Request
  /\ r.id \in Messages => r.patch.status \in MessageStatuses \cup {None}
  /\ r.id \in Reports => r.patch.status \in ReportStatuses \cup {None}
  /\ r.id \in Filters => DOMAIN r.rows \subseteq Messages
  /\ r.id \in Filters => r.pc \in {"list", "answered", "failed"} \cup Closed

CallsOK ==
  /\ call \in [Calls -> Request \cup {Idle}]
  /\ \A c \in Calls : call[c] # Idle => RequestOK(call[c])

TablesOK ==
  /\ messages \in [Messages -> Message \cup {NoRow}]
  /\ reports \in [Reports -> Report \cup {NoRow}]
  /\ writer \in [Rows -> Logins \cup Calls \cup {None}]
  /\ decision \in [Logins \X Suspects -> ReportStatuses]
  /\ outbox \cup mailed \subseteq Calls

PanelOK ==
  /\ DOMAIN shown \subseteq Messages
  /\ drafts \in [Messages -> Texts]
  /\ busy \in Messages \cup {None}
  /\ noteDrafts \in [Reports -> Texts]
  /\ typed \in [Messages -> Texts]

TypeInv == CallsOK /\ TablesOK /\ PanelOK

\* What a step does to the requests: it leaves the others alone, and what c is
\* about and asks for.
Others(c) == \A d \in Calls \ {c} : call'[d] = call[d]
Follows(c) ==
  /\ call[c] # Idle /\ call'[c] # Idle
  /\ call'[c].id = call[c].id
  /\ call'[c].patch = call[c].patch
KeepsTarget(c) ==
  call'[c].address = call[c].address /\ call'[c].target = call[c].target
Advances(c) ==
  /\ Others(c) /\ Follows(c)
  /\ call[c].pc \in Open /\ call'[c].pc \in Open
  /\ call[c].pc # "lookup" => KeepsTarget(c)

-----------------------------------------------------------------------------
(* 1. Types, and what a step does to a request *)

LEMMA AnswerType ==
  ASSUME NEW S \in SUBSET Rows, NEW f \in [S -> Message \cup Report]
  PROVE  f \in Answers
BY DEF Answers

LEMMA AnswerRows ==
  ASSUME NEW f \in Answers
  PROVE  /\ DOMAIN f \subseteq Rows
         /\ \A i \in DOMAIN f : f[i] \in Message \cup Report
BY DEF Answers

LEMMA NoRowsType == NoRows \in Answers /\ DOMAIN NoRows = {}
<1>1. NoRows \in [{} -> Message \cup Report] BY DEF NoRows
<1> QED BY <1>1, AnswerType DEF NoRows

LEMMA AskedCall ==
  ASSUME CallsOK, NEW c \in Calls, call[c].pc # "idle"
  PROVE  call[c] # Idle /\ RequestOK(call[c]) /\ call[c] \in Request
BY DEF CallsOK, Idle, RequestOK

LEMMA IdleCall ==
  ASSUME CallsOK, NEW c \in Calls, call[c].pc = "idle"
  PROVE  call[c] = Idle
BY DEF CallsOK, RequestOK, Request, Open, Running, Closed

LEMMA OneCall ==
  ASSUME CallsOK, NEW c \in Calls, NEW r, RequestOK(r),
         call' = [call EXCEPT ![c] = r]
  PROVE  CallsOK' /\ Others(c) /\ call'[c] = r /\ r # Idle
<1>1. r \in Request BY DEF RequestOK
<1>2. r # Idle BY <1>1 DEF Request, Idle, Open, Running, Closed
<1> QED BY <1>1, <1>2 DEF CallsOK, Others

\* A request goes on, or fails.
LEMMA BecomesStep ==
  ASSUME CallsOK, NEW c \in Calls, call[c].pc \in Open, NEW pc \in Open, Becomes(c, pc),
         pc \in {"answered", "failed"} \/ call[c].id \notin Filters
  PROVE  CallsOK' /\ Advances(c) /\ call'[c].pc = pc /\ KeepsTarget(c)
<1>1. call[c] # Idle /\ RequestOK(call[c]) /\ call[c] \in Request
  BY AskedCall DEF Open, Running
<1> DEFINE r == [call[c] EXCEPT !.pc = pc]
<1>2. r \in Request /\ r.pc = pc /\ r.id = call[c].id /\ r.patch = call[c].patch
      /\ r.address = call[c].address /\ r.target = call[c].target /\ r.rows = call[c].rows
  BY <1>1 DEF Request
<1>3. call' = [call EXCEPT ![c] = r] BY DEF Becomes, CallsOK
<1> HIDE DEF r
<1>4. RequestOK(r) BY <1>1, <1>2 DEF RequestOK
<1> QED BY <1>1, <1>2, <1>3, <1>4, OneCall DEF Advances, Follows, KeepsTarget

LEMMA SentStep ==
  ASSUME CallsOK, NEW c \in Calls, NEW pc \in {"lookup", "list"}, NEW i \in Rows \cup Filters,
         NEW patch \in Patch, Sent(c, pc, i, patch),
         i \in Messages => patch.status \in MessageStatuses \cup {None},
         i \in Reports => patch.status \in ReportStatuses \cup {None},
         i \in Filters => pc = "list"
  PROVE  /\ CallsOK' /\ Others(c) /\ call[c] = Idle /\ call'[c] # Idle
         /\ call'[c].pc = pc /\ call'[c].id = i /\ call'[c].patch = patch
<1> DEFINE r == [pc |-> pc, id |-> i, patch |-> patch, address |-> FALSE, target |-> None,
                 rows |-> NoRows]
<1>1. r \in Request BY NoRowsType DEF Request, Open, Running
<1>2. RequestOK(r) BY <1>1, NoRowsType DEF RequestOK
<1>3. call[c] = Idle
  BY IdleCall, InboxAssumption DEF Sent, At, Calls
<1>4. call' = [call EXCEPT ![c] = r] BY DEF Sent
<1>5. CallsOK' /\ Others(c) /\ call'[c] = r /\ r # Idle
  <2> HIDE DEF r
  <2> QED BY <1>2, <1>4, OneCall
<1> QED BY <1>3, <1>5

LEMMA SettledStep ==
  ASSUME CallsOK, NEW c \in Calls, call[c].pc \in {"answered", "failed"}, Settled(c)
  PROVE  /\ CallsOK' /\ Others(c) /\ Follows(c) /\ KeepsTarget(c)
         /\ call'[c].pc = IF At(c, "answered") THEN "shown" ELSE "refused"
<1>1. call[c] # Idle /\ RequestOK(call[c]) /\ call[c] \in Request
  BY AskedCall
<1> DEFINE pc == IF At(c, "answered") THEN "shown" ELSE "refused"
           r == [[call[c] EXCEPT !.rows = NoRows] EXCEPT !.pc = pc]
<1>2. pc \in Closed BY DEF Closed
<1>3. call' = [call EXCEPT ![c] = r] BY <1>1 DEF Settled, CallsOK, Request
<1> HIDE DEF pc
<1>4. r \in Request /\ r.pc = pc /\ r.id = call[c].id /\ r.patch = call[c].patch
      /\ r.address = call[c].address /\ r.target = call[c].target /\ r.rows = NoRows
  BY <1>1, <1>2, NoRowsType DEF Request
<1> HIDE DEF r
<1>5. RequestOK(r) BY <1>1, <1>2, <1>4, NoRowsType DEF RequestOK
<1> QED BY <1>1, <1>3, <1>4, <1>5, OneCall DEF Follows, KeepsTarget, pc

LEMMA RowTypes ==
  ASSUME TablesOK
  PROVE  /\ \A i \in Messages : messages[i] # NoRow => messages[i] \in Message
         /\ \A i \in Reports : reports[i] # NoRow => reports[i] \in Report
         /\ NoRow \notin Message \cup Report
BY InboxAssumption DEF TablesOK, NoRow, Message, Report

\* The handler of a request takes it from one of its statements to the next.
LEMMA LookupStep ==
  ASSUME CallsOK, TablesOK, NEW c \in Calls, Lookup(c)
  PROVE  CallsOK' /\ Advances(c)
<1>1. call[c] # Idle /\ RequestOK(call[c]) /\ call[c] \in Request /\ call[c].pc = "lookup"
  BY AskedCall DEF Lookup, At
<1> DEFINE i == call[c].id
           row == RowOf(i)
           asked == call[c].patch.status # None \/ call[c].patch.text # None
<1>2. i \in Rows BY <1>1 DEF RequestOK, Request, Closed
<1>3. CASE row = NoRow \/ ~asked
  <2>1. Becomes(c, "failed") BY <1>3 DEF Lookup, Becomes, CallsOK
  <2> QED BY <1>1, <2>1, BecomesStep DEF Open, Running
<1>4. CASE ~(row = NoRow \/ ~asked)
  <2> DEFINE address == i \in Messages /\ row.email
             target == IF i \in Messages THEN i ELSE row.suspect
             r == [call[c] EXCEPT !.pc = "write", !.address = address, !.target = target]
  <2>1. call' = [call EXCEPT ![c] = r] BY <1>4 DEF Lookup, CallsOK
  <2>2. address \in BOOLEAN /\ target \in Messages \cup Suspects
    <3>1. CASE i \in Messages
      <4>1. row \in Message BY <1>4, <3>1, RowTypes DEF RowOf
      <4> QED BY <3>1, <4>1 DEF Message
    <3>2. CASE i \notin Messages
      <4>1. i \in Reports BY <1>2, <3>2 DEF Rows
      <4>2. row \in Report BY <1>4, <3>2, <4>1, RowTypes DEF RowOf
      <4> QED BY <3>2, <4>2 DEF Report
    <3> QED BY <3>1, <3>2
  <2> HIDE DEF address, target
  <2>3. r \in Request /\ r.pc = "write" /\ r.id = i /\ r.patch = call[c].patch
        /\ r.rows = call[c].rows
    BY <1>1, <2>2 DEF Request, Open, Running
  <2> HIDE DEF r
  <2>4. RequestOK(r) BY <1>1, <1>2, <2>3, InboxAssumption DEF RequestOK
  <2> QED BY <1>1, <2>1, <2>3, <2>4, OneCall DEF Advances, Follows, Open, Running
<1> QED BY <1>3, <1>4

LEMMA AnswerStep ==
  ASSUME CallsOK, NEW c \in Calls, call[c].pc \in {"reread", "list"}, NEW rows \in Answers,
         call[c].id \in Filters => DOMAIN rows \subseteq Messages,
         call' = [call EXCEPT ![c] = Answer(c, rows)]
  PROVE  CallsOK' /\ Advances(c) /\ call'[c].pc = "answered" /\ KeepsTarget(c)
<1>1. call[c] # Idle /\ RequestOK(call[c]) /\ call[c] \in Request
  BY AskedCall
<1> DEFINE r == Answer(c, rows)
<1>2. r \in Request /\ r.pc = "answered" /\ r.id = call[c].id /\ r.patch = call[c].patch
      /\ r.address = call[c].address /\ r.target = call[c].target /\ r.rows = rows
  BY <1>1 DEF Answer, Request, Open
<1> HIDE DEF r
<1>3. RequestOK(r) BY <1>1, <1>2 DEF RequestOK
<1>4. call' = [call EXCEPT ![c] = r] BY DEF r
<1> QED BY <1>1, <1>2, <1>3, <1>4, OneCall DEF Advances, Follows, KeepsTarget, Open, Running

LEMMA RereadStep ==
  ASSUME CallsOK, TablesOK, NEW c \in Calls, Reread(c)
  PROVE  CallsOK' /\ Advances(c) /\ KeepsTarget(c) /\ call'[c].pc \in {"answered", "failed"}
<1>1. call[c] # Idle /\ RequestOK(call[c]) /\ call[c] \in Request /\ call[c].pc = "reread"
  BY AskedCall DEF Reread, At
<1> DEFINE i == call[c].id
           row == RowOf(i)
<1>2. i \in Rows BY <1>1 DEF RequestOK, Request, Closed
<1>3. CASE row = NoRow
  <2>1. Becomes(c, "failed") BY <1>3 DEF Reread, Becomes, CallsOK
  <2> QED BY <1>1, <2>1, BecomesStep DEF Open, Running
<1>4. CASE row # NoRow
  <2> DEFINE rows == [j \in {i} |-> row]
  <2>1. row \in Message \cup Report BY <1>2, <1>4, RowTypes DEF RowOf, Rows
  <2>2. rows \in Answers
    <3>1. rows \in [{i} -> Message \cup Report] BY <2>1
    <3> QED BY <1>2, <3>1, AnswerType
  <2>3. call' = [call EXCEPT ![c] = Answer(c, rows)] BY <1>4 DEF Reread
  <2>4. i \notin Filters BY <1>2, InboxAssumption
  <2> HIDE DEF rows
  <2> QED BY <1>1, <2>2, <2>3, <2>4, AnswerStep
<1> QED BY <1>3, <1>4

LEMMA ListStep ==
  ASSUME CallsOK, TablesOK, NEW c \in Calls, List(c)
  PROVE  CallsOK' /\ Advances(c) /\ KeepsTarget(c) /\ call'[c].pc = "answered"
<1> DEFINE listed == {i \in Present(messages) : call[c].id \in {"all", messages[i].status}}
           rows == [i \in listed |-> messages[i]]
<1>1. listed \subseteq Messages /\ \A i \in listed : messages[i] \in Message
  BY RowTypes DEF Present, TablesOK
<1>2. call' = [call EXCEPT ![c] = Answer(c, rows)] /\ call[c].pc = "list"
  BY DEF List, At
<1>3. rows \in Answers /\ DOMAIN rows \subseteq Messages
  <2> HIDE DEF listed
  <2>1. rows \in [listed -> Message \cup Report] BY <1>1
  <2>2. listed \in SUBSET Rows BY <1>1 DEF Rows
  <2> QED BY <1>1, <2>1, <2>2, AnswerType
<1> HIDE DEF rows
<1> QED BY <1>2, <1>3, AnswerStep

LEMMA WriteStep ==
  ASSUME CallsOK, NEW c \in Calls, Write(c)
  PROVE  CallsOK' /\ Advances(c) /\ KeepsTarget(c) /\ call'[c].pc = "audit"
<1>1. call[c].id \notin Filters
  BY AskedCall DEF Write, At, RequestOK, Closed
<1> QED BY <1>1, BecomesStep DEF Write, At, Open, Running

LEMMA WriteAuditStep ==
  ASSUME CallsOK, NEW c \in Calls, WriteAudit(c)
  PROVE  CallsOK' /\ Advances(c) /\ KeepsTarget(c) /\ call'[c].pc = "reread"
<1>1. call[c].id \notin Filters
  BY AskedCall DEF WriteAudit, At, RequestOK, Closed
<1> QED BY <1>1, BecomesStep DEF WriteAudit, At, Open, Running

LEMMA FaultStep ==
  ASSUME CallsOK, NEW c \in Calls, Fault(c)
  PROVE  CallsOK' /\ Advances(c) /\ KeepsTarget(c) /\ call'[c].pc = "failed"
BY BecomesStep DEF Fault, Open

LEMMA LoseAnswerStep ==
  ASSUME CallsOK, NEW c \in Calls, LoseAnswer(c)
  PROVE  CallsOK' /\ Advances(c) /\ KeepsTarget(c) /\ call'[c].pc = "failed"
<1>1. call[c] # Idle /\ RequestOK(call[c]) /\ call[c] \in Request /\ call[c].pc = "answered"
  BY AskedCall DEF LoseAnswer, At
<1> DEFINE r == [call[c] EXCEPT !.pc = "failed", !.rows = NoRows]
<1>2. call' = [call EXCEPT ![c] = r] BY <1>1 DEF LoseAnswer, CallsOK, Request
<1>3. r \in Request /\ r.pc = "failed" /\ r.id = call[c].id /\ r.patch = call[c].patch
      /\ r.address = call[c].address /\ r.target = call[c].target /\ r.rows = NoRows
  BY <1>1, NoRowsType DEF Request, Open
<1> HIDE DEF r
<1>4. RequestOK(r) BY <1>1, <1>3, NoRowsType DEF RequestOK
<1> QED BY <1>1, <1>2, <1>3, <1>4, OneCall DEF Advances, Follows, KeepsTarget, Open

LEMMA LoadStep ==
  ASSUME CallsOK, NEW c \in Calls, NEW f \in Filters, Load(c, f)
  PROVE  /\ CallsOK' /\ Others(c) /\ call[c] = Idle /\ call'[c] # Idle
         /\ call'[c].id = f /\ call'[c].pc = "list"
<1>1. Asks(None, None) \in Patch /\ Asks(None, None).status = None
  BY DEF Asks, Patch
<1>2. Sent(c, "list", f, Asks(None, None)) BY DEF Load
<1> QED BY <1>1, <1>2, SentStep

LEMMA MutateStep ==
  ASSUME CallsOK, NEW c \in Calls, NEW i \in Messages, NEW patch \in Patch,
         patch.status \in MessageStatuses \cup {None}, Mutate(c, i, patch)
  PROVE  /\ CallsOK' /\ Others(c) /\ call[c] = Idle /\ call'[c] # Idle
         /\ call'[c].id = i /\ call'[c].pc = "lookup" /\ call'[c].patch = patch
<1>1. i \in Rows \cup Filters /\ i \notin Filters /\ i \notin Reports
  BY InboxAssumption DEF Rows
<1>2. Sent(c, "lookup", i, patch) BY DEF Mutate
<1> QED BY <1>1, <1>2, SentStep

\* Clicks in the inbox: a reply carries the draft, a mark a status.
LEMMA MessageClick ==
  ASSUME TypeInv, NEW c \in Calls, NEW i \in Messages, SendReply(c, i) \/ Mark(c, i)
  PROVE  \E patch \in Patch :
           /\ Mutate(c, i, patch)
           /\ patch.status \in MessageStatuses \cup {None}
           /\ patch.text \in {None, drafts[i]}
           /\ patch.text # None => drafts[i] # 0
<1>1. CASE SendReply(c, i)
  <2> DEFINE patch == Asks(None, drafts[i])
  <2>1. patch \in Patch /\ patch.status = None /\ patch.text = drafts[i]
    BY DEF Asks, Patch, TypeInv, PanelOK
  <2>2. Mutate(c, i, patch) /\ drafts[i] # 0 BY <1>1 DEF SendReply
  <2> QED BY <2>1, <2>2
<1>2. CASE Mark(c, i)
  <2>1. PICK status \in Marks \cap MessageStatuses : Mutate(c, i, Asks(status, None))
    BY <1>2 DEF Mark
  <2>2. Asks(status, None) \in Patch /\ Asks(status, None).status = status
        /\ Asks(status, None).text = None
    BY <2>1 DEF Asks, Patch
  <2> QED BY <2>1, <2>2
<1> QED BY <1>1, <1>2

\* Clicks in the reports panel.
LEMMA ReportClick ==
  ASSUME TypeInv, NEW c \in Calls, NEW i \in Reports, ChangeStatus(c, i) \/ SaveNotes(c, i)
  PROVE  /\ CallsOK' /\ Others(c) /\ call[c] = Idle /\ call'[c] # Idle
         /\ call'[c].id = i /\ call'[c].pc = "lookup"
         /\ UNCHANGED <<messages, reports, audit, outbox, mailed, faults, writer, decision>>
<1>1. i \in Rows \cup Filters /\ i \notin Filters /\ i \notin Messages
  BY InboxAssumption DEF Rows
<1>2. ASSUME NEW patch \in Patch, patch.status \in ReportStatuses \cup {None},
             Sent(c, "lookup", i, patch)
      PROVE  /\ CallsOK' /\ Others(c) /\ call[c] = Idle /\ call'[c] # Idle
             /\ call'[c].id = i /\ call'[c].pc = "lookup"
             /\ UNCHANGED <<messages, reports, audit, outbox, mailed, faults, writer, decision>>
  <2>1. UNCHANGED <<messages, reports, audit, outbox, mailed, faults, writer, decision>>
    BY <1>2 DEF Sent
  <2> QED BY <1>1, <1>2, <2>1, SentStep DEF TypeInv
<1>3. CASE ChangeStatus(c, i)
  <2>1. PICK status \in Marks \cap ReportStatuses : Sent(c, "lookup", i, Asks(status, None))
    BY <1>3 DEF ChangeStatus
  <2>2. Asks(status, None) \in Patch /\ Asks(status, None).status = status
    BY <2>1 DEF Asks, Patch
  <2> QED BY <1>2, <2>1, <2>2
<1>4. CASE SaveNotes(c, i)
  <2>1. Asks(None, noteDrafts[i]) \in Patch /\ Asks(None, noteDrafts[i]).status = None
    BY DEF Asks, Patch, TypeInv, PanelOK
  <2> QED BY <1>2, <1>4, <2>1 DEF SaveNotes
<1> QED BY <1>3, <1>4

LEMMA PatchedType ==
  ASSUME NEW patch \in Patch
  PROVE  /\ \A row \in Message : patch.status \in MessageStatuses \cup {None} =>
              Patched(row, patch, TRUE) \in Message
         /\ \A row \in Report : patch.status \in ReportStatuses \cup {None} =>
              /\ Patched(row, patch, FALSE) \in Report
              /\ Patched(row, patch, FALSE).login = row.login
              /\ Patched(row, patch, FALSE).suspect = row.suspect
BY DEF Patched, Patch, Message, Report, MessageStatuses

\* What a write does: nothing, or one row and its writer; of a report also
\* what was decided.
LEMMA WriteTables ==
  ASSUME TypeInv, NEW c \in Calls, Write(c)
  PROVE  LET i == call[c].id
             row == RowOf(i)
             new == Patched(row, call[c].patch, i \in Messages) IN
         /\ i \in Rows
         /\ UNCHANGED <<audit, outbox, mailed, faults>>
         /\ \/ row = NoRow /\ UNCHANGED <<messages, reports, writer, decision>>
            \/ /\ i \in Messages /\ row \in Message /\ new \in Message
               /\ writer' = [writer EXCEPT ![i] = c]
               /\ messages' = [messages EXCEPT ![i] = new]
               /\ UNCHANGED <<reports, decision>>
            \/ /\ i \in Reports /\ row = reports[i] /\ row \in Report /\ new \in Report
               /\ new.login = row.login /\ new.suspect = row.suspect
               /\ writer' = [writer EXCEPT ![i] = c]
               /\ reports' = [reports EXCEPT ![i] = new]
               /\ decision' = [decision EXCEPT ![<<row.login, row.suspect>>] = new.status]
               /\ UNCHANGED messages
<1> DEFINE i == call[c].id
           row == RowOf(i)
           patch == call[c].patch
<1>1. call[c] # Idle /\ RequestOK(call[c]) /\ call[c] \in Request /\ call[c].pc = "write"
  BY AskedCall DEF Write, At, TypeInv
<1>2. i \in Rows /\ patch \in Patch BY <1>1 DEF RequestOK, Request, Closed
<1>3. UNCHANGED <<audit, outbox, mailed, faults>> BY DEF Write
<1>4. CASE row = NoRow
  BY <1>2, <1>3, <1>4 DEF Write
<1>5. CASE row # NoRow /\ i \in Messages
  <2>1. row \in Message BY <1>5, RowTypes DEF RowOf, TypeInv
  <2>2. patch.status \in MessageStatuses \cup {None} BY <1>1, <1>5 DEF RequestOK
  <2>3. Patched(row, patch, TRUE) \in Message BY <1>2, <2>1, <2>2, PatchedType
  <2>4. (i \in Messages) = TRUE BY <1>5
  <2> HIDE DEF row, patch
  <2> QED BY <1>2, <1>3, <1>5, <2>1, <2>3, <2>4 DEF Write, row, patch
<1>6. CASE row # NoRow /\ i \notin Messages
  <2>1. i \in Reports /\ row = reports[i] BY <1>2, <1>6 DEF RowOf, Rows
  <2>2. row \in Report BY <1>6, <2>1, RowTypes DEF TypeInv
  <2>3. patch.status \in ReportStatuses \cup {None} BY <1>1, <2>1 DEF RequestOK
  <2>4. Patched(row, patch, FALSE) \in Report
        /\ Patched(row, patch, FALSE).login = row.login
        /\ Patched(row, patch, FALSE).suspect = row.suspect
    BY <1>2, <2>2, <2>3, PatchedType
  <2>5. (i \in Messages) = FALSE BY <1>6
  <2> HIDE DEF row, patch
  <2> QED BY <1>2, <1>3, <1>6, <2>1, <2>2, <2>4, <2>5 DEF Write, row, patch
<1> QED BY <1>4, <1>5, <1>6

LEMMA TypeInit == Init => TypeInv
<1> SUFFICES ASSUME Init PROVE TypeInv
  OBVIOUS
<1>1. CallsOK BY DEF Init, ServerInit, CallsOK
<1>2. messages \in [Messages -> Message \cup {NoRow}]
  <2> DEFINE some == UNION {Waiting(i) : i \in Messages}
  <2>1. some \subseteq Message BY DEF Waiting
  <2>2. messages \in [Messages -> some \cup {NoRow}]
    BY DEF Init, ServerInit
  <2> HIDE DEF some
  <2> QED BY <2>1, <2>2
<1>3. writer \in [Rows -> Logins \cup Calls \cup {None}]
  <2>1. \A i \in Present(messages) : messages[i].login \in Logins
    BY <1>2 DEF Present, Message
  <2> QED BY <2>1 DEF Init, ServerInit
<1>4. TablesOK
  BY <1>2, <1>3 DEF Init, ServerInit, TablesOK, ReportStatuses
<1>5. PanelOK
  BY <1>2, InboxAssumption DEF Init, PanelOK, Present, Texts
<1> QED BY <1>1, <1>4, <1>5 DEF TypeInv

LEMMA TablesStay ==
  ASSUME TablesOK, UNCHANGED <<messages, reports, writer, decision>>, outbox' \cup mailed' \subseteq Calls
  PROVE  TablesOK'
BY DEF TablesOK

LEMMA PanelStays ==
  ASSUME PanelOK, UNCHANGED <<inbox, noteDrafts>>
  PROVE  PanelOK'
BY DEF PanelOK, inbox

LEMMA HandlerType ==
  ASSUME TypeInv, NEW c \in Calls, Handler(c) \/ Fault(c) \/ SettleMail(c)
  PROVE  CallsOK' /\ TablesOK'
<1> USE DEF TypeInv
<1>1. CASE Lookup(c)
  BY <1>1, LookupStep, TablesStay DEF Lookup, TablesOK
<1>2. CASE Write(c)
  <2>1. CallsOK' BY <1>2, WriteStep
  <2>2. TablesOK'
    <3> DEFINE i == call[c].id
               new == Patched(RowOf(i), call[c].patch, i \in Messages)
    <3>1. /\ i \in Rows
          /\ UNCHANGED <<audit, outbox, mailed, faults>>
      BY <1>2, WriteTables
    <3>2. \/ UNCHANGED <<messages, reports, writer, decision>>
          \/ /\ i \in Messages /\ new \in Message
             /\ writer' = [writer EXCEPT ![i] = c]
             /\ messages' = [messages EXCEPT ![i] = new]
             /\ UNCHANGED <<reports, decision>>
          \/ /\ i \in Reports /\ new \in Report
             /\ writer' = [writer EXCEPT ![i] = c]
             /\ reports' = [reports EXCEPT ![i] = new]
             /\ \E d : decision' = [decision EXCEPT ![d] = new.status]
             /\ UNCHANGED messages
      BY <1>2, WriteTables
    <3> HIDE DEF new
    <3>3. new \in Report => new.status \in ReportStatuses BY DEF Report
    <3> QED BY <3>1, <3>2, <3>3 DEF TablesOK, Rows
  <2> QED BY <2>1, <2>2
<1>3. CASE WriteAudit(c)
  BY <1>3, WriteAuditStep, TablesStay DEF WriteAudit, TablesOK
<1>4. CASE Reread(c)
  BY <1>4, RereadStep, TablesStay DEF Reread, TablesOK
<1>5. CASE List(c)
  BY <1>5, ListStep, TablesStay DEF List, TablesOK
<1>6. CASE Fault(c)
  BY <1>6, FaultStep, TablesStay DEF Fault, TablesOK
<1>7. CASE SettleMail(c)
  BY <1>7 DEF SettleMail, TablesOK, CallsOK
<1> QED BY <1>1, <1>2, <1>3, <1>4, <1>5, <1>6, <1>7 DEF Handler

LEMMA TypeStep == TypeInv /\ [Next]_vars => TypeInv'
<1> SUFFICES ASSUME TypeInv, [Next]_vars PROVE TypeInv'
  OBVIOUS
<1> USE DEF TypeInv
<1>c. UNCHANGED call => CallsOK' BY DEF CallsOK
<1>1. ASSUME ServerNext \/ Opens, UNCHANGED <<inbox, noteDrafts>> PROVE TypeInv'
  <2>1. PanelOK' BY <1>1, PanelStays
  <2>2. ASSUME NEW l \in Logins, Erase(l) PROVE TablesOK' /\ UNCHANGED call
    BY <2>2 DEF Erase, TablesOK, ReportStatuses
  <2>3. ASSUME NEW l \in Logins, NEW i \in Messages, Contact(i, l)
        PROVE  TablesOK' /\ UNCHANGED call
    <3>1. [login |-> l, email |-> i \in Addressed, status |-> "open", text |-> 0] \in Message
      BY InboxAssumption DEF Message, MessageStatuses, Texts
    <3> QED BY <2>3, <3>1 DEF Contact, TablesOK
  <2>4. ASSUME NEW l \in Logins, NEW i \in Reports, NEW s \in Suspects, NEW k \in Categories,
               ReportSuspect(i, l, s, k)
        PROVE  TablesOK' /\ UNCHANGED call
    <3>1. [login |-> l, suspect |-> s, category |-> k, status |-> "reported", text |-> 0] \in Report
      BY InboxAssumption DEF Report, ReportStatuses, Texts
    <3>2. reports[i] # NoRow => [reports[i] EXCEPT !.category = k] \in Report
      BY DEF TablesOK, Report
    <3>3. UNCHANGED <<messages, call, decision, outbox, mailed>> /\ writer' \in {writer, [writer EXCEPT ![i] = l]}
      BY <2>4 DEF ReportSuspect
    <3>4. \/ reports' = [reports EXCEPT ![i] = [reports[i] EXCEPT !.category = k]] /\ reports[i] # NoRow
          \/ reports' = [reports EXCEPT ![i] = [login |-> l, suspect |-> s, category |-> k,
                                                status |-> "reported", text |-> 0]]
      BY <2>4 DEF ReportSuspect, TablesOK
    <3>5. reports' \in [Reports -> Report \cup {NoRow}]
      BY <3>1, <3>2, <3>4 DEF TablesOK
    <3> QED BY <3>3, <3>5 DEF TablesOK
  <2> QED BY <1>1, <1>c, <2>1, <2>2, <2>3, <2>4, HandlerType
          DEF ServerNext, Opens, Writes, Accuses
<1>2. ASSUME NEW c \in Calls, NEW f \in Filters, Load(c, f) PROVE TypeInv'
  <2>1. PanelOK' BY <1>2, NoRowsType DEF Load, PanelOK
  <2> QED BY <1>2, <2>1, LoadStep, TablesStay DEF Load, Sent, TablesOK
<1>3. ASSUME NEW c \in Calls, NEW i \in Messages, SendReply(c, i) \/ Mark(c, i) PROVE TypeInv'
  <2>1. PICK patch \in Patch : /\ Mutate(c, i, patch)
                              /\ patch.status \in MessageStatuses \cup {None}
    BY <1>3, MessageClick
  <2>2. PanelOK' BY <2>1 DEF Mutate, PanelOK
  <2>3. CallsOK' BY <2>1, MutateStep
  <2> QED BY <2>1, <2>2, <2>3, TablesStay DEF Mutate, Sent, TablesOK
<1>4. ASSUME NEW c \in Calls, NEW i \in Reports, ChangeStatus(c, i) \/ SaveNotes(c, i)
      PROVE  TypeInv'
  <2>1. UNCHANGED <<inbox, noteDrafts>> BY <1>4 DEF ChangeStatus, SaveNotes
  <2> QED BY <1>4, <2>1, ReportClick, PanelStays, TablesStay DEF TablesOK
<1>5. ASSUME NEW c \in Calls, Settle(c) PROVE TypeInv'
  <2>1. CallsOK' BY <1>5, SettledStep DEF Settle
  <2>2. TablesOK' BY <1>5, TablesStay DEF Settle, TablesOK
  <2>3. RequestOK(call[c]) BY <1>5, AskedCall DEF Settle
  <2>4. PanelOK'
    <3>1. call[c].id \notin Rows => DOMAIN call[c].rows \subseteq Messages
      BY <2>3 DEF RequestOK, Request
    <3>2. DOMAIN shown' \subseteq Messages
      BY <1>5, <3>1 DEF Settle, ShowAnswer, KeepPage, PanelOK
    <3>3. drafts' \in [Messages -> Texts]
      BY <1>5, InboxAssumption DEF Settle, ShowAnswer, KeepPage, PanelOK, Texts
    <3> QED BY <1>5, <3>2, <3>3 DEF Settle, PanelOK
  <2> QED BY <2>1, <2>2, <2>4
<1>6. ASSUME NEW c \in Calls, LoseAnswer(c) PROVE TypeInv'
  BY <1>6, LoseAnswerStep, TablesStay, PanelStays DEF LoseAnswer, TablesOK
<1>7. ASSUME NEW c \in Calls, ApplyUpdate(c) PROVE TypeInv'
  <2>1. CallsOK' BY <1>7, SettledStep DEF ApplyUpdate
  <2>2. TablesOK' BY <1>7, TablesStay DEF ApplyUpdate, TablesOK
  <2>3. call[c].rows \in Answers BY <1>7, AskedCall DEF ApplyUpdate, Request
  <2>4. \A i \in DOMAIN call[c].rows : call[c].rows[i].text \in Texts
    BY <2>3, AnswerRows DEF Message, Report
  <2>5. PanelOK' BY <1>7, <2>4 DEF ApplyUpdate, PanelOK, inbox
  <2> QED BY <2>1, <2>2, <2>5
<1>8. ASSUME NEW i \in Messages, TypeReply(i) PROVE TypeInv'
  <2>1. typed[i] + 1 \in Texts BY <1>8, InboxAssumption DEF TypeReply, PanelOK, Texts
  <2>2. PanelOK' BY <1>8, <2>1 DEF TypeReply, PanelOK
  <2> QED BY <1>8, <1>c, <2>2, TablesStay DEF TypeReply, server, TablesOK
<1>9. ASSUME NEW i \in Reports, NEW t \in {0, 1}, TypeNote(i, t) PROVE TypeInv'
  <2>1. t \in Texts BY InboxAssumption DEF Texts
  <2>2. PanelOK' BY <1>9, <2>1 DEF TypeNote, PanelOK, inbox
  <2> QED BY <1>9, <1>c, <2>2, TablesStay DEF TypeNote, server, TablesOK
<1>10. CASE UNCHANGED vars
  BY <1>10, <1>c, TablesStay, PanelStays DEF vars, server, TablesOK
<1> QED BY <1>1, <1>2, <1>3, <1>4, <1>5, <1>6, <1>7, <1>8, <1>9, <1>10
        DEF Next, Click

LEMMA TypeInvariant == Spec => []TypeInv
BY TypeInit, TypeStep, PTL DEF Spec

\* The two tables hold whole rows (messages/store.ts, reports/store.ts), and the
\* panel shows messages, drafts and one busy thread (AdminInbox.tsx).
THEOREM ConsoleTypeCorrect == Spec => []TypeOK
<1>1. TypeInv => TypeOK
  BY DEF TypeInv, TablesOK, PanelOK, TypeOK
<1> QED BY <1>1, TypeInvariant, PTL

-----------------------------------------------------------------------------
(* 2. What is on the audit trail *)

Past == {"reread", "answered", "failed", "shown", "refused"}

\* An audit row names what its request is about, and the request is past it.
AuditInv ==
  \A a \in audit :
    /\ a.call \in Calls
    /\ call[a.call].pc \in Past
    /\ a.target = call[a.call].target

\* A reply in waitUntil or mailed is on the trail, for a sender with an address.
Replies(c) == call[c].id \in Messages /\ call[c].patch.text # None
MailInv ==
  \A c \in outbox \cup mailed :
    /\ \E a \in audit : a.call = c /\ a.action = "reply_message"
    /\ call[c].address
    /\ Replies(c)

\* A request that changed a row has its audit row, or is at it, or failed.
WriterInv ==
  \A i \in Rows :
    writer[i] \in Calls =>
      \/ Audited(writer[i])
      \/ At(writer[i], "audit")
      \/ call[writer[i]].pc \in {"failed", "refused"}

RecordInv == AuditInv /\ MailInv /\ WriterInv

\* What a step on one request may do to it: nothing that loses its record.
LEMMA RecordStays ==
  ASSUME TypeInv, RecordInv, NEW c \in Calls, Others(c), UNCHANGED <<audit, outbox, mailed, writer>>,
         call[c].pc \in Past => KeepsTarget(c) /\ Follows(c) /\ call'[c].pc \in Past,
         At(c, "audit") => call'[c].pc = "failed",
         call[c].pc \in {"failed", "refused"} => call'[c].pc = "refused"
  PROVE  RecordInv'
<1>1. \A d \in Calls : call[d].pc \in Past =>
        /\ call'[d].pc \in Past /\ call'[d].target = call[d].target
        /\ call'[d].address = call[d].address
        /\ call'[d].id = call[d].id /\ call'[d].patch = call[d].patch
  BY DEF Others, KeepsTarget, Follows
<1>2. AuditInv' BY <1>1 DEF RecordInv, AuditInv
<1>3. MailInv' BY <1>1 DEF RecordInv, AuditInv, MailInv, Replies
<1>4. WriterInv'
  <2>1. \A d \in Calls : Audited(d) => Audited(d)'
    BY <1>1 DEF Audited, RecordInv, AuditInv
  <2>2. \A d \in Calls : At(d, "audit") => call'[d].pc \in {"audit", "failed"}
    BY DEF At, Others
  <2>3. \A d \in Calls : call[d].pc \in {"failed", "refused"} =>
                           call'[d].pc \in {"failed", "refused"}
    BY DEF Others
  <2> QED BY <2>1, <2>2, <2>3 DEF RecordInv, WriterInv, At
<1> QED BY <1>2, <1>3, <1>4 DEF RecordInv

LEMMA AuditStep ==
  ASSUME TypeInv, RecordInv, NEW c \in Calls, WriteAudit(c)
  PROVE  RecordInv'
<1>1. /\ Others(c) /\ Follows(c) /\ KeepsTarget(c)
      /\ call'[c].pc = "reread" /\ call[c].pc = "audit"
  BY WriteAuditStep DEF TypeInv, Advances, WriteAudit, At
<1> DEFINE replies == call[c].id \in Messages /\ call[c].patch.text # None
           a == [call |-> c, target |-> call[c].target,
                 action |-> IF replies THEN "reply_message"
                            ELSE IF call[c].id \in Messages THEN "update_message"
                            ELSE "update_report"]
<1>2. audit' = audit \cup {a} /\ UNCHANGED <<mailed, writer>>
  BY DEF WriteAudit
<1>3. outbox' \subseteq outbox \cup {c} /\ (c \in outbox' \ outbox => replies /\ call[c].address)
  BY DEF WriteAudit
<1>4. a.call = c /\ a.target = call[c].target /\ (replies => a.action = "reply_message")
  OBVIOUS
<1> HIDE DEF a
<1>5. AuditInv'
  BY <1>1, <1>2, <1>4 DEF RecordInv, AuditInv, Others, KeepsTarget, Past
<1>6. \A d \in outbox \cup mailed : d # c
  BY <1>1 DEF RecordInv, MailInv, AuditInv, Past
<1>7. MailInv'
  <2>1. \A d \in outbox \cup mailed : d \in Calls /\ call'[d] = call[d]
    BY <1>1, <1>6 DEF Others, TypeInv, TablesOK
  <2>2. c \in outbox' \ outbox => call'[c].address /\ Replies(c)'
    BY <1>1, <1>3 DEF KeepsTarget, Follows, Replies
  <2> QED BY <1>2, <1>3, <1>4, <2>1, <2>2 DEF RecordInv, MailInv, Replies
<1>8. WriterInv'
  <2>1. Audited(c)' BY <1>1, <1>2, <1>4 DEF Audited, KeepsTarget
  <2>2. \A d \in Calls \ {c} : Audited(d) => Audited(d)'
    BY <1>1, <1>2 DEF Audited, Others
  <2> QED BY <1>1, <1>2, <2>1, <2>2 DEF RecordInv, WriterInv, At, Others
<1> QED BY <1>5, <1>7, <1>8 DEF RecordInv

LEMMA RecordStep == TypeInv /\ RecordInv /\ [Next]_vars => RecordInv'
<1> SUFFICES ASSUME TypeInv, RecordInv, [Next]_vars PROVE RecordInv'
  OBVIOUS
<1>0. CallsOK /\ TablesOK BY DEF TypeInv
<1>s. ASSUME UNCHANGED <<audit, outbox, mailed, call>>,
             \A i \in Rows : writer'[i] = writer[i] \/ writer'[i] \in Logins
      PROVE  RecordInv'
  <2>1. \A i \in Rows : writer'[i] \in Calls => writer'[i] = writer[i]
    BY <1>s, InboxAssumption
  <2> QED BY <1>s, <2>1 DEF RecordInv, AuditInv, MailInv, Replies, WriterInv, Audited, At
\* A click: the request was idle, and nothing is on record of it.
<1>i. ASSUME NEW c \in Calls, Others(c), call[c] = Idle,
             UNCHANGED <<audit, outbox, mailed, writer>>
      PROVE  RecordInv'
  BY <1>i, RecordStays DEF Idle, Past, At
<1>1. ASSUME NEW c \in Calls, Handler(c) \/ Fault(c) \/ LoseAnswer(c) PROVE RecordInv'
  <2>1. CASE Lookup(c)
    BY <1>0, <2>1, LookupStep, RecordStays DEF Lookup, At, Advances, Past
  <2>2. CASE Write(c)
    <3>1. /\ Others(c) /\ call'[c].pc = "audit" /\ call[c].pc = "write"
      BY <1>0, <2>2, WriteStep DEF Write, At, Advances
    <3>2. UNCHANGED <<audit, outbox, mailed>> BY <2>2 DEF Write
    <3>3. \A i \in Rows : writer'[i] \in {writer[i], c}
      <4>1. writer' = writer \/ writer' = [writer EXCEPT ![call[c].id] = c]
        BY <2>2, WriteTables
      <4> QED BY <4>1 DEF TypeInv, TablesOK
    <3>4. AuditInv' /\ MailInv'
      BY <3>1, <3>2 DEF RecordInv, AuditInv, MailInv, Replies, Others, Past
    <3>5. \A d \in Calls \ {c} : Audited(d) => Audited(d)'
      BY <3>1, <3>2 DEF Audited, Others
    <3>6. WriterInv'
      <4>1. ASSUME NEW i \in Rows, NEW d \in Calls, writer'[i] = d, d # c
            PROVE  \/ Audited(d)' \/ At(d, "audit")'
                   \/ call'[d].pc \in {"failed", "refused"}
        <5>1. writer[i] = d BY <3>3, <4>1
        <5> QED BY <3>1, <3>5, <4>1, <5>1 DEF RecordInv, WriterInv, At, Others
      <4>2. ASSUME NEW i \in Rows, writer'[i] = c PROVE At(c, "audit")'
        BY <3>1 DEF At
      <4> QED BY <4>1, <4>2 DEF WriterInv, At, Audited
    <3> QED BY <3>4, <3>6 DEF RecordInv
  <2>3. CASE WriteAudit(c) BY <2>3, AuditStep
  <2>4. CASE Reread(c)
    BY <1>0, <2>4, RereadStep, RecordStays DEF Reread, At, Advances, Past
  <2>5. CASE List(c)
    BY <1>0, <2>5, ListStep, RecordStays DEF List, At, Advances, Past
  <2>6. CASE Fault(c)
    BY <1>0, <2>6, FaultStep, RecordStays DEF Fault, At, Advances, Past, Running
  <2>7. CASE LoseAnswer(c)
    BY <1>0, <2>7, LoseAnswerStep, RecordStays DEF LoseAnswer, At, Advances, Past, inbox
  <2> QED BY <1>1, <2>1, <2>2, <2>3, <2>4, <2>5, <2>6, <2>7 DEF Handler
<1>2. ASSUME NEW c \in Calls, SettleMail(c) PROVE RecordInv'
  BY <1>2 DEF SettleMail, RecordInv, AuditInv, MailInv, Replies, WriterInv, Audited, At
<1>3. ASSUME NEW c \in Calls, Settle(c) \/ ApplyUpdate(c) PROVE RecordInv'
  <2>1. /\ call[c].pc \in {"answered", "failed"} /\ Settled(c)
        /\ UNCHANGED <<audit, outbox, mailed, writer>>
    BY <1>3 DEF Settle, ApplyUpdate
  <2>2. /\ Others(c) /\ Follows(c) /\ KeepsTarget(c)
        /\ call'[c].pc = IF At(c, "answered") THEN "shown" ELSE "refused"
    BY <1>0, <2>1, SettledStep
  <2> QED BY <2>1, <2>2, RecordStays DEF At, Past
<1>4. ASSUME NEW c \in Calls, Click(c) PROVE RecordInv'
  <2>1. ASSUME NEW f \in Filters, Load(c, f) PROVE RecordInv'
    BY <1>0, <1>i, <2>1, LoadStep DEF Load, Sent
  <2>2. ASSUME NEW i \in Messages, SendReply(c, i) \/ Mark(c, i) PROVE RecordInv'
    <3>1. PICK patch \in Patch : /\ Mutate(c, i, patch)
                                /\ patch.status \in MessageStatuses \cup {None}
      BY <2>2, MessageClick
    <3> QED BY <1>0, <1>i, <3>1, MutateStep DEF Mutate, Sent
  <2>3. ASSUME NEW i \in Reports, ChangeStatus(c, i) \/ SaveNotes(c, i) PROVE RecordInv'
    BY <1>i, <2>3, ReportClick
  <2> QED BY <1>4, <2>1, <2>2, <2>3 DEF Click
<1>5. ASSUME NEW l \in Logins, Erase(l) PROVE RecordInv'
  BY <1>5, <1>s DEF Erase
<1>6. CASE Opens
  <2>1. UNCHANGED <<audit, outbox, mailed, call>> /\
        \E i \in Rows, l \in Logins : writer' \in {writer, [writer EXCEPT ![i] = l]}
    BY <1>6 DEF Opens, Writes, Accuses, Contact, ReportSuspect, Rows
  <2>2. \A i \in Rows : writer'[i] = writer[i] \/ writer'[i] \in Logins
    BY <2>1 DEF TypeInv, TablesOK
  <2> QED BY <1>s, <2>1, <2>2
<1>7. CASE UNCHANGED <<audit, outbox, mailed, call, writer>>
  BY <1>7, <1>s
<1> QED BY <1>1, <1>2, <1>3, <1>4, <1>5, <1>6, <1>7
        DEF Next, ServerNext, TypeReply, TypeNote, vars, server

LEMMA RecordInvariant == Spec => []RecordInv
<1>1. Init => RecordInv
  <2> SUFFICES ASSUME Init PROVE RecordInv
    OBVIOUS
  <2>1. \A i \in Rows : writer[i] \in Logins \cup {None}
    <3>1. TypeInv BY TypeInit
    <3>2. \A i \in Present(messages) : messages[i].login \in Logins
      BY <3>1, RowTypes DEF TypeInv, Present, TablesOK, Message
    <3> QED BY <3>2 DEF Init, ServerInit
  <2> QED BY <2>1, InboxAssumption
          DEF Init, ServerInit, RecordInv, AuditInv, MailInv, WriterInv
<1> QED BY <1>1, RecordStep, TypeInvariant, PTL DEF Spec

\* "A failed write surfaces as an error rather than silently dropping the
\* accountability row" (admin.ts:46): whatever requests, mails and faults there
\* are, a change that was not answered with an error is on the audit trail or
\* about to be, and a reply is mailed only after its row.
THEOREM ChangesStayOnRecord == Spec => []ChangesAreOnRecord
<1>1. RecordInv => ChangesAreOnRecord
  BY DEF RecordInv, WriterInv, MailInv, ChangesAreOnRecord
<1> QED BY <1>1, RecordInvariant, PTL

-----------------------------------------------------------------------------
(* 3. What administrators decided of a report *)

Filed(i, l, s) == reports[i] # NoRow /\ reports[i].login = l /\ reports[i].suspect = s

\* One row to a reporter and a suspect: it has the status that was decided, and
\* a suspect without a row nothing was decided of.
TriageInv ==
  \A l \in Logins, s \in Suspects :
    /\ \A i, j \in Reports : Filed(i, l, s) /\ Filed(j, l, s) => i = j
    /\ \A i \in Reports : Filed(i, l, s) => reports[i].status = decision[<<l, s>>]
    /\ (\A i \in Reports : ~Filed(i, l, s)) => decision[<<l, s>>] = "reported"

LEMMA EraseTriage ==
  ASSUME TypeInv, TriageInv, NEW l \in Logins, Erase(l)
  PROVE  TriageInv'
<1>1. \A i \in Reports : reports'[i] = IF reports[i] # NoRow /\ reports[i].login = l
                                      THEN NoRow ELSE reports[i]
  BY DEF Erase
<1>2. \A k \in Logins, s \in Suspects :
        decision'[<<k, s>>] = IF k = l THEN "reported" ELSE decision[<<k, s>>]
  BY DEF Erase
<1>3. \A i \in Reports, k \in Logins, s \in Suspects :
        Filed(i, k, s)' <=> Filed(i, k, s) /\ k # l
  BY <1>1 DEF Filed
<1>4. \A i \in Reports, k \in Logins, s \in Suspects :
        Filed(i, k, s)' => reports'[i].status = reports[i].status
  BY <1>1 DEF Filed
<1> SUFFICES ASSUME NEW m \in Logins, NEW s \in Suspects
             PROVE  /\ \A i, j \in Reports : Filed(i, m, s)' /\ Filed(j, m, s)' => i = j
                    /\ \A i \in Reports : Filed(i, m, s)' => reports'[i].status = decision'[<<m, s>>]
                    /\ (\A i \in Reports : ~Filed(i, m, s)') => decision'[<<m, s>>] = "reported"
  BY DEF TriageInv
<1>5. CASE m = l BY <1>2, <1>3, <1>5
<1>6. CASE m # l BY <1>2, <1>3, <1>4, <1>6 DEF TriageInv
<1> QED BY <1>5, <1>6

LEMMA ReportTriage ==
  ASSUME TypeInv, TriageInv, NEW l \in Logins, NEW i \in Reports, NEW s \in Suspects,
         NEW k \in Categories, ReportSuspect(i, l, s, k)
  PROVE  TriageInv'
<1>1. UNCHANGED decision BY DEF ReportSuspect
<1>2. CASE \E j \in Present(reports) : reports[j].login = l /\ reports[j].suspect = s
  <2>1. reports[i] \in Report BY <1>2, RowTypes DEF ReportSuspect, TypeInv
  <2> DEFINE new == [reports[i] EXCEPT !.category = k]
  <2>2. reports' = [reports EXCEPT ![i] = new] BY <1>2 DEF ReportSuspect, TypeInv, TablesOK
  <2>3. new \in Report /\ new.login = reports[i].login /\ new.suspect = reports[i].suspect
        /\ new.status = reports[i].status
    BY <2>1 DEF Report
  <2>4. reports[i] # NoRow /\ new # NoRow BY <2>1, <2>3, RowTypes DEF TypeInv
  <2> HIDE DEF new
  <2>5. \A j \in Reports, m \in Logins, t \in Suspects : Filed(j, m, t)' <=> Filed(j, m, t)
    BY <2>2, <2>3, <2>4 DEF Filed, TypeInv, TablesOK
  <2>6. \A j \in Reports : reports'[j].status = reports[j].status
    BY <2>2, <2>3 DEF TypeInv, TablesOK
  <2> QED BY <1>1, <2>5, <2>6 DEF TriageInv
<1>3. CASE ~\E j \in Present(reports) : reports[j].login = l /\ reports[j].suspect = s
  <2> DEFINE new == [login |-> l, suspect |-> s, category |-> k, status |-> "reported", text |-> 0]
  <2>1. reports[i] = NoRow /\ reports' = [reports EXCEPT ![i] = new]
    BY <1>3 DEF ReportSuspect
  <2>2. new \in Report BY InboxAssumption DEF Report, ReportStatuses, Texts
  <2>3. new # NoRow BY <2>2, RowTypes DEF TypeInv
  <2>4. new.login = l /\ new.suspect = s /\ new.status = "reported" OBVIOUS
  <2> HIDE DEF new
  <2>5. \A j \in Reports : ~Filed(j, l, s)
    BY <1>3 DEF Filed, Present, TypeInv, TablesOK
  <2>6. \A j \in Reports : reports'[j] = IF j = i THEN new ELSE reports[j]
    BY <2>1 DEF TypeInv, TablesOK
  <2>7. \A j \in Reports, m \in Logins, t \in Suspects :
          Filed(j, m, t)' <=> Filed(j, m, t) \/ (j = i /\ m = l /\ t = s)
    BY <2>1, <2>3, <2>4, <2>6 DEF Filed
  <2>8. decision[<<l, s>>] = "reported" BY <2>5 DEF TriageInv
  <2>9. \A j \in Reports \ {i} : reports'[j].status = reports[j].status
    BY <2>6
  <2>10. reports'[i].status = "reported" BY <2>4, <2>6
  <2> SUFFICES ASSUME NEW m \in Logins, NEW t \in Suspects
               PROVE  /\ \A a, b \in Reports : Filed(a, m, t)' /\ Filed(b, m, t)' => a = b
                      /\ \A a \in Reports : Filed(a, m, t)' => reports'[a].status = decision'[<<m, t>>]
                      /\ (\A a \in Reports : ~Filed(a, m, t)') => decision'[<<m, t>>] = "reported"
    BY DEF TriageInv
  <2>11. ~Filed(i, m, t) BY <2>1 DEF Filed
  <2>12. CASE m = l /\ t = s
    BY <1>1, <2>5, <2>7, <2>8, <2>10, <2>12
  <2>13. CASE ~(m = l /\ t = s)
    BY <1>1, <2>7, <2>9, <2>11, <2>13 DEF TriageInv
  <2> QED BY <2>12, <2>13
<1> QED BY <1>2, <1>3

LEMMA WriteTriage ==
  ASSUME TypeInv, TriageInv, NEW c \in Calls, Write(c)
  PROVE  TriageInv'
<1> DEFINE i == call[c].id
           row == RowOf(i)
           new == Patched(row, call[c].patch, i \in Messages)
<1>1. CASE UNCHANGED <<reports, decision>>
  BY <1>1 DEF TriageInv, Filed
<1>2. CASE /\ i \in Reports /\ row = reports[i] /\ row \in Report /\ new \in Report
           /\ new.login = row.login /\ new.suspect = row.suspect
           /\ reports' = [reports EXCEPT ![i] = new]
           /\ decision' = [decision EXCEPT ![<<row.login, row.suspect>>] = new.status]
  <2> DEFINE l == row.login
             s == row.suspect
  <2>1. i \in Reports /\ l \in Logins /\ s \in Suspects /\ <<l, s>> \in Logins \X Suspects
    BY <1>2 DEF Report
  <2>2. row # NoRow /\ new # NoRow BY <1>2, RowTypes DEF TypeInv
  <2>3. \A j \in Reports : reports'[j] = IF j = i THEN new ELSE reports[j]
    BY <1>2 DEF TypeInv, TablesOK
  <2>4. Filed(i, l, s) BY <1>2, <2>2 DEF Filed
  <2>5. \A m \in Logins, t \in Suspects :
          decision'[<<m, t>>] = IF m = l /\ t = s THEN new.status ELSE decision[<<m, t>>]
    BY <1>2, <2>1 DEF TypeInv, TablesOK
  <2> HIDE DEF new
  <2>6. \A j \in Reports, m \in Logins, t \in Suspects : Filed(j, m, t)' <=> Filed(j, m, t)
    BY <1>2, <2>2, <2>3 DEF Filed
  <2> HIDE DEF i, row
  <2>7. ASSUME NEW m \in Logins, NEW t \in Suspects, NEW j \in Reports, Filed(j, m, t)
        PROVE  reports'[j].status = decision'[<<m, t>>]
    <3>1. CASE j = i
      <4>1. m = l /\ t = s BY <2>4, <2>7, <3>1 DEF Filed
      <4> QED BY <2>3, <2>5, <3>1, <4>1
    <3>2. CASE j # i
      <4>1. ~(m = l /\ t = s) BY <2>1, <2>4, <2>7, <3>2 DEF TriageInv
      <4> QED BY <2>3, <2>5, <2>7, <3>2, <4>1 DEF TriageInv
    <3> QED BY <3>1, <3>2
  <2>8. ASSUME NEW m \in Logins, NEW t \in Suspects, \A j \in Reports : ~Filed(j, m, t)
        PROVE  decision'[<<m, t>>] = "reported"
    BY <2>1, <2>4, <2>5, <2>8 DEF TriageInv
  <2> QED BY <2>6, <2>7, <2>8 DEF TriageInv
<1> QED BY <1>1, <1>2, WriteTables

LEMMA TriageStep == TypeInv /\ TriageInv /\ [Next]_vars => TriageInv'
<1> SUFFICES ASSUME TypeInv, TriageInv, [Next]_vars PROVE TriageInv'
  OBVIOUS
<1>1. CASE UNCHANGED <<reports, decision>>
  BY <1>1 DEF TriageInv, Filed
<1>2. ASSUME NEW c \in Calls, Handler(c) \/ Fault(c) \/ SettleMail(c) PROVE TriageInv'
  BY <1>1, <1>2, WriteTriage
     DEF Handler, Lookup, WriteAudit, Reread, List, Fault, SettleMail
<1>3. CASE Opens
  BY <1>1, <1>3, ReportTriage DEF Opens, Writes, Accuses, Contact
<1>4. ASSUME NEW c \in Calls, Click(c) \/ Settle(c) \/ LoseAnswer(c) \/ ApplyUpdate(c)
      PROVE  UNCHANGED <<reports, decision>>
  BY <1>4 DEF Click, Load, SendReply, Mark, Mutate, ChangeStatus, SaveNotes, Sent, Settle,
              LoseAnswer, ApplyUpdate
<1> QED BY <1>1, <1>2, <1>3, <1>4, EraseTriage
        DEF Next, ServerNext, TypeReply, TypeNote, vars, server

\* Whoever reports a repository again, and whenever, leaves the status the
\* administrators gave it (reports/store.ts, the upsert).
THEOREM TriageOutlivesReports == Spec => []TriageSurvivesReports
<1>1. Init => TriageInv
  BY DEF Init, ServerInit, TriageInv, Filed
<1>2. TypeInv /\ TriageInv => TriageSurvivesReports
  BY RowTypes DEF TypeInv, TablesOK, TriageInv, Filed, TriageSurvivesReports, Present, Report
<1> QED BY <1>1, <1>2, TriageStep, TypeInvariant, PTL DEF Spec

-----------------------------------------------------------------------------
(* 4. One request about a message at a time, and its text *)

About(c, i) == call[c] # Idle /\ call[c].id = i
InFlight(c) == call[c] # Idle /\ call[c].pc \in Open
Text(c) == call[c].patch.text

\* Unless requests about two messages were under way together: one is under way
\* at most, and its thread is the busy one; its text is the draft; a draft is
\* the text typed last, newer than every reply that went through; and of two
\* requests with one text, one failed.
OneAtATime ==
  \A c, d \in Calls, i, j \in Messages :
    About(c, i) /\ About(d, j) /\ InFlight(c) /\ InFlight(d) => c = d /\ busy = i

DraftIsLast == \A i \in Messages : drafts[i] \in {0, typed[i]}

TextInv ==
  \A c \in Calls, i \in Messages :
    About(c, i) /\ Text(c) # None =>
      /\ Text(c) \in Texts /\ 0 < Text(c) /\ Text(c) <= typed[i]
      /\ InFlight(c) => drafts[i] = Text(c)
      /\ At(c, "shown") => drafts[i] = 0 \/ drafts[i] > Text(c)

PairInv ==
  \A c, d \in Calls, i \in Messages :
    About(c, i) /\ About(d, i) /\ c # d /\ Text(c) # None /\ Text(c) = Text(d)
      => At(c, "refused") \/ At(d, "refused")

TypedInv ==
  \A i \in Messages :
    \/ drafts[i] = typed[i]
    \/ \E c \in Calls : About(c, i) /\ Text(c) = typed[i]

Threads == OneAtATime /\ DraftIsLast /\ TextInv /\ PairInv /\ TypedInv
ThreadInv == crossed \/ Threads

\* A step that takes requests about messages no further than to an answer.
LEMMA ThreadsStay ==
  ASSUME TypeInv, Threads, UNCHANGED <<drafts, busy, typed>>,
         \A c \in Calls :
           \/ call'[c] = call[c]
           \/ /\ Follows(c)
              /\ call[c].pc \in Open /\ call'[c].pc \in Open
           \/ Follows(c) /\ call[c].id \notin Messages
           \/ call[c] = Idle /\ call'[c].id \notin Messages
  PROVE  Threads'
<1>1. \A c \in Calls, i \in Messages :
        About(c, i)' => /\ About(c, i) /\ Text(c)' = Text(c)
                        /\ InFlight(c)' <=> InFlight(c)
                        /\ At(c, "shown")' <=> At(c, "shown")
                        /\ At(c, "refused")' <=> At(c, "refused")
  BY DEF About, InFlight, Text, At, Follows, Open, Running
<1>2. \A c \in Calls, i \in Messages : About(c, i) => About(c, i)' /\ Text(c)' = Text(c)
  BY DEF About, Text, Follows, Idle
<1>3. OneAtATime' BY <1>1 DEF Threads, OneAtATime
<1>4. DraftIsLast' BY DEF Threads, DraftIsLast
<1>5. TextInv' BY <1>1 DEF Threads, TextInv
<1>6. PairInv' BY <1>1 DEF Threads, PairInv
<1>7. TypedInv' BY <1>2 DEF Threads, TypedInv
<1> QED BY <1>3, <1>4, <1>5, <1>6, <1>7 DEF Threads

\* A reply or a mark leaves while no request about a message is under way.
LEMMA MutateThreads ==
  ASSUME TypeInv, Threads, NEW c \in Calls, NEW i \in Messages, NEW patch \in Patch,
         Mutate(c, i, patch), patch.status \in MessageStatuses \cup {None},
         patch.text \in {None, drafts[i]}, patch.text # None => drafts[i] # 0,
         ~crossed'
  PROVE  Threads'
<1>0. /\ Others(c) /\ call[c] = Idle /\ call'[c] # Idle
      /\ call'[c].id = i /\ call'[c].pc = "lookup" /\ call'[c].patch = patch
  BY MutateStep DEF TypeInv
<1>1. busy # i /\ busy' = i /\ UNCHANGED <<drafts, typed>> BY DEF Mutate, Enabled
<1>2. \A d \in Calls, j \in Messages : ~(About(d, j) /\ InFlight(d))
  <2> SUFFICES ASSUME NEW d \in Calls, NEW j \in Messages, About(d, j), InFlight(d) PROVE FALSE
    OBVIOUS
  <2>1. busy = j BY DEF Threads, OneAtATime
  <2>2. d \in FlyingAbout(j)
    BY DEF About, InFlight, FlyingAbout, Flying, Open, Running
  <2>3. \A k \in Messages \ {i} : FlyingAbout(k) = {} BY DEF Mutate
  <2> QED BY <1>1, <2>1, <2>2, <2>3
<1>3. \A d \in Calls \ {c} :
        /\ \A j \in Messages : About(d, j)' <=> About(d, j)
        /\ Text(d)' = Text(d)
        /\ InFlight(d)' <=> InFlight(d)
        /\ At(d, "shown")' <=> At(d, "shown")
        /\ At(d, "refused")' <=> At(d, "refused")
  BY <1>0 DEF About, Text, InFlight, At, Others
<1>4. \A j \in Messages : About(c, j)' <=> j = i
  BY <1>0 DEF About
<1>5. /\ Text(c)' = patch.text /\ ~At(c, "shown")' /\ ~At(c, "refused")'
      /\ \A j \in Messages : ~About(c, j)
  BY <1>0 DEF About, Text, At
<1>6. drafts[i] \in Texts /\ typed[i] \in Texts /\ drafts[i] \in {0, typed[i]}
  BY DEF TypeInv, PanelOK, Threads, DraftIsLast
<1>7. OneAtATime' BY <1>1, <1>2, <1>3, <1>4 DEF OneAtATime
<1>8. DraftIsLast' BY <1>1 DEF Threads, DraftIsLast
<1>9. TextInv'
  BY <1>1, <1>2, <1>3, <1>4, <1>5, <1>6, InboxAssumption DEF Threads, TextInv, Texts
<1>10. PairInv'
  <2>1. ASSUME NEW d \in Calls \ {c}, About(d, i), Text(d) = patch.text, Text(d) # None
        PROVE  At(d, "refused")
    <3>1. call[d] # Idle /\ ~InFlight(d) BY <1>2, <2>1 DEF About
    <3>2. call[d].pc \in Closed
      BY <3>1 DEF InFlight, TypeInv, CallsOK, RequestOK, Request
    <3>3. ~At(d, "shown")
      BY <1>6, <2>1, InboxAssumption DEF Threads, TextInv, Texts
    <3> QED BY <3>2, <3>3 DEF Closed, At
  <2> QED BY <1>3, <1>4, <1>5, <2>1 DEF Threads, PairInv
<1>11. TypedInv'
  BY <1>1, <1>3, <1>5 DEF Threads, TypedInv
<1> QED BY <1>7, <1>8, <1>9, <1>10, <1>11 DEF Threads

LEMMA SettleThreads ==
  ASSUME TypeInv, Threads, NEW c \in Calls, Settle(c)
  PROVE  Threads'
<1>0. /\ Others(c) /\ Follows(c) /\ call[c].pc \in {"answered", "failed"}
      /\ call'[c].pc = IF At(c, "answered") THEN "shown" ELSE "refused"
  BY SettledStep DEF TypeInv, Settle
<1>1. /\ UNCHANGED typed
      /\ busy' = IF call[c].id \in Messages THEN None ELSE busy
  BY DEF Settle
<1>2. \A i \in Messages :
        drafts'[i] = IF At(c, "answered") /\ About(c, i) /\ Text(c) # None THEN 0 ELSE drafts[i]
  BY <1>0 DEF Settle, ShowAnswer, KeepPage, About, Text, Follows
<1>3. \A d \in Calls, i \in Messages : About(d, i)' <=> About(d, i)
  BY <1>0 DEF About, Others, Follows
<1>4. \A d \in Calls : call[d] # Idle => Text(d)' = Text(d)
  BY <1>0 DEF Text, Others, Follows
<1>5. \A d \in Calls \ {c} :
        /\ InFlight(d)' <=> InFlight(d)
        /\ At(d, "shown")' <=> At(d, "shown")
        /\ At(d, "refused")' <=> At(d, "refused")
  BY <1>0 DEF InFlight, At, Others
<1>6. /\ InFlight(c) /\ ~InFlight(c)' /\ ~At(c, "refused")
      /\ At(c, "shown")' <=> At(c, "answered")
  BY <1>0 DEF InFlight, Open, Running, At, Follows
<1>7. OneAtATime'
  <2> SUFFICES ASSUME NEW d \in Calls, NEW e \in Calls, NEW i \in Messages, NEW j \in Messages,
                      About(d, i)', About(e, j)', InFlight(d)', InFlight(e)'
               PROVE  d = e /\ busy' = i
    BY DEF OneAtATime
  <2>1. d # c /\ About(d, i) /\ InFlight(d) /\ About(e, j) /\ InFlight(e)
    BY <1>3, <1>5, <1>6
  <2>2. d = e /\ busy = i BY <2>1 DEF Threads, OneAtATime
  <2>3. call[c].id \notin Messages
    BY <1>6, <2>1 DEF Threads, OneAtATime, About, InFlight
  <2> QED BY <1>1, <2>2, <2>3
<1>8. DraftIsLast' BY <1>1, <1>2 DEF Threads, DraftIsLast
<1>9. TextInv'
  <2> SUFFICES ASSUME NEW d \in Calls, NEW i \in Messages, About(d, i), Text(d) # None
               PROVE  /\ Text(d) \in Texts /\ 0 < Text(d) /\ Text(d) <= typed[i]
                      /\ InFlight(d)' => drafts'[i] = Text(d)
                      /\ At(d, "shown")' => drafts'[i] = 0 \/ drafts'[i] > Text(d)
    BY <1>1, <1>3, <1>4 DEF TextInv, About
  <2>1. /\ Text(d) \in Texts /\ 0 < Text(d) /\ Text(d) <= typed[i]
        /\ InFlight(d) => drafts[i] = Text(d)
        /\ At(d, "shown") => drafts[i] = 0 \/ drafts[i] > Text(d)
    BY DEF Threads, TextInv
  <2>2. CASE d = c
    BY <1>2, <1>6, <2>1, <2>2
  <2>3. CASE d # c
    <3>1. InFlight(d) => ~About(c, i)
      BY <1>6, <2>3 DEF Threads, OneAtATime
    <3> QED BY <1>2, <1>5, <2>1, <2>3, <3>1
  <2> QED BY <2>2, <2>3
<1>10. PairInv'
  <2>1. \A d \in Calls : At(d, "refused") => At(d, "refused")'
    BY <1>5, <1>6
  <2> QED BY <1>3, <1>4, <2>1 DEF Threads, PairInv, About
<1>11. TypedInv'
  <2> SUFFICES ASSUME NEW i \in Messages
               PROVE  \/ drafts'[i] = typed[i]
                      \/ \E d \in Calls : About(d, i)' /\ Text(d)' = typed[i]
    BY <1>1 DEF TypedInv
  <2>1. \/ drafts[i] = typed[i]
        \/ \E d \in Calls : About(d, i) /\ Text(d) = typed[i]
    BY DEF Threads, TypedInv
  <2>2. ASSUME NEW d \in Calls, About(d, i), Text(d) = typed[i]
        PROVE  About(d, i)' /\ Text(d)' = typed[i]
    BY <1>3, <1>4, <2>2 DEF About
  <2>3. CASE drafts'[i] # drafts[i]
    <3>1. About(c, i) /\ drafts[i] = Text(c)
      BY <1>2, <1>6, <2>3 DEF Threads, TextInv
    <3> QED BY <2>1, <2>2, <3>1
  <2> QED BY <2>1, <2>2, <2>3
<1> QED BY <1>7, <1>8, <1>9, <1>10, <1>11 DEF Threads

LEMMA TypeReplyThreads ==
  ASSUME TypeInv, Threads, NEW i \in Messages, TypeReply(i)
  PROVE  Threads'
<1>1. /\ UNCHANGED <<call, busy>> /\ busy # i
      /\ typed' = [typed EXCEPT ![i] = typed[i] + 1]
      /\ drafts' = [drafts EXCEPT ![i] = typed[i] + 1]
  BY DEF TypeReply, Enabled, server, TypeInv, PanelOK
<1>2. \A j \in Messages : /\ typed'[j] = IF j = i THEN typed[i] + 1 ELSE typed[j]
                         /\ drafts'[j] = IF j = i THEN typed[i] + 1 ELSE drafts[j]
  BY <1>1 DEF TypeInv, PanelOK
<1>n. \A j \in Messages : typed[j] \in Nat
  BY InboxAssumption DEF TypeInv, PanelOK, Texts
<1>3. \A c \in Calls : ~(About(c, i) /\ InFlight(c))
  BY <1>1 DEF Threads, OneAtATime
<1>4. \A c \in Calls :
        /\ \A j \in Messages : About(c, j)' <=> About(c, j)
        /\ Text(c)' = Text(c)
        /\ InFlight(c)' <=> InFlight(c)
        /\ At(c, "shown")' <=> At(c, "shown")
        /\ At(c, "refused")' <=> At(c, "refused")
  BY <1>1 DEF About, Text, InFlight, At
<1>5. OneAtATime' BY <1>1, <1>4 DEF Threads, OneAtATime
<1>6. DraftIsLast' BY <1>2 DEF Threads, DraftIsLast
<1>7. TextInv'
  <2> SUFFICES ASSUME NEW c \in Calls, NEW j \in Messages, About(c, j), Text(c) # None
               PROVE  /\ Text(c) \in Texts /\ 0 < Text(c) /\ Text(c) <= typed'[j]
                      /\ InFlight(c) => drafts'[j] = Text(c)
                      /\ At(c, "shown") => drafts'[j] = 0 \/ drafts'[j] > Text(c)
    BY <1>4 DEF TextInv
  <2>1. /\ Text(c) \in Texts /\ 0 < Text(c) /\ Text(c) <= typed[j]
        /\ InFlight(c) => drafts[j] = Text(c)
        /\ At(c, "shown") => drafts[j] = 0 \/ drafts[j] > Text(c)
    BY DEF Threads, TextInv
  <2>2. Text(c) \in Nat BY <2>1, InboxAssumption DEF Texts
  <2>3. CASE j = i
    <3>1. ~InFlight(c) BY <1>3, <2>3
    <3>2. typed'[j] = typed[j] + 1 /\ drafts'[j] = typed[j] + 1 /\ typed[j] \in Nat
      BY <1>2, <1>n, <2>3
    <3> HIDE DEF Text
    <3> QED BY <2>1, <2>2, <3>1, <3>2
  <2>4. CASE j # i BY <1>2, <2>1, <2>4
  <2> QED BY <2>3, <2>4
<1>8. PairInv' BY <1>4 DEF Threads, PairInv
<1>9. TypedInv' BY <1>2, <1>4 DEF Threads, TypedInv
<1> QED BY <1>5, <1>6, <1>7, <1>8, <1>9 DEF Threads

LEMMA ThreadStep == TypeInv /\ ThreadInv /\ [Next]_vars => ThreadInv'
<1> SUFFICES ASSUME TypeInv, ThreadInv, [Next]_vars, ~crossed' PROVE Threads'
  BY DEF ThreadInv
<1>s. ASSUME crossed PROVE crossed'
  BY <1>s DEF Next, Opens, Click, Load, SendReply, Mark, Mutate, Settle, LoseAnswer, TypeReply,
              ChangeStatus, SaveNotes, ApplyUpdate, TypeNote, inbox, vars
<1>t. Threads BY <1>s DEF ThreadInv
<1>c. CallsOK /\ TablesOK BY DEF TypeInv
<1>u. ASSUME UNCHANGED <<call, inbox>> PROVE Threads'
  BY <1>t, <1>u, ThreadsStay DEF inbox
<1>1. ASSUME NEW c \in Calls, Handler(c) \/ Fault(c) \/ LoseAnswer(c), UNCHANGED inbox
      PROVE  Threads'
  <2>1. Advances(c)
    BY <1>1, <1>c, LookupStep, WriteStep, WriteAuditStep, RereadStep, ListStep, FaultStep,
       LoseAnswerStep DEF Handler
  <2> QED BY <1>t, <1>1, <2>1, ThreadsStay DEF Advances, Others, inbox
<1>2. ASSUME NEW c \in Calls, NEW f \in Filters, Load(c, f) PROVE Threads'
  <2>1. Others(c) /\ call[c] = Idle /\ call'[c].id \notin Messages
    BY <1>2, <1>c, LoadStep, InboxAssumption DEF Rows
  <2> QED BY <1>t, <1>2, <2>1, ThreadsStay DEF Load, Others
<1>3. ASSUME NEW c \in Calls, NEW i \in Messages, SendReply(c, i) \/ Mark(c, i) PROVE Threads'
  BY <1>t, <1>3, MessageClick, MutateThreads
<1>4. ASSUME NEW c \in Calls, NEW i \in Reports, ChangeStatus(c, i) \/ SaveNotes(c, i)
      PROVE  Threads'
  <2>1. Others(c) /\ call[c] = Idle /\ call'[c].id \notin Messages
    BY <1>4, ReportClick, InboxAssumption
  <2>2. UNCHANGED inbox BY <1>4 DEF ChangeStatus, SaveNotes
  <2> QED BY <1>t, <2>1, <2>2, ThreadsStay DEF Others, inbox
<1>5. ASSUME NEW c \in Calls, ApplyUpdate(c) PROVE Threads'
  <2>1. Others(c) /\ Follows(c) /\ call[c].id \notin Messages
    BY <1>5, <1>c, SettledStep, InboxAssumption DEF ApplyUpdate
  <2> QED BY <1>t, <1>5, <2>1, ThreadsStay DEF ApplyUpdate, Others, inbox
<1>6. CASE ServerNext /\ UNCHANGED inbox
  <2>1. ASSUME NEW l \in Logins, Erase(l) PROVE UNCHANGED call
    BY <2>1 DEF Erase
  <2>2. ASSUME NEW c \in Calls, SettleMail(c) PROVE UNCHANGED call
    BY <2>2 DEF SettleMail
  <2> QED BY <1>1, <1>u, <1>6, <2>1, <2>2 DEF ServerNext
<1>7. CASE Opens /\ UNCHANGED inbox
  BY <1>u, <1>7 DEF Opens, Writes, Accuses, Contact, ReportSuspect
<1>8. CASE UNCHANGED <<call, inbox>>
  BY <1>u, <1>8
<1>9. ASSUME NEW c \in Calls, LoseAnswer(c) PROVE Threads'
  BY <1>1, <1>9 DEF LoseAnswer
<1>10. ASSUME NEW i \in Reports, NEW t \in {0, 1}, TypeNote(i, t) PROVE UNCHANGED <<call, inbox>>
  BY <1>10 DEF TypeNote, server
<1> QED BY <1>t, <1>2, <1>3, <1>4, <1>5, <1>6, <1>7, <1>8, <1>9, <1>10, SettleThreads, TypeReplyThreads
        DEF Next, Click, vars, server

LEMMA ThreadInvariant == Spec => []ThreadInv
<1>1. Init => ThreadInv
  BY DEF Init, ServerInit, ThreadInv, Threads, OneAtATime, DraftIsLast, TextInv, PairInv,
         TypedInv, About
<1> QED BY <1>1, ThreadStep, TypeInvariant, PTL DEF Spec

\* Two mails with one reply have a cause that the console showed: an error for
\* the first, or requests about two messages under way together
\* (AdminInbox.tsx, the one `busy').
THEOREM SecondMailIsExplained == Spec => []SecondMailHasACause
<1>1. RecordInv /\ ThreadInv /\ TypeInv => SecondMailHasACause
  <2> SUFFICES ASSUME RecordInv, ThreadInv, TypeInv, NEW c \in mailed, NEW d \in mailed,
                      c # d, call[c].id = call[d].id, call[c].patch = call[d].patch, ~crossed
               PROVE  \E e \in {c, d} : At(e, "refused")
    BY DEF SecondMailHasACause
  <2>1. c \in Calls /\ d \in Calls BY DEF TypeInv, TablesOK
  <2>2. \A e \in {c, d} : call[e] # Idle /\ Replies(e)
    BY DEF RecordInv, MailInv, AuditInv, Past, Idle
  <2>3. PairInv BY DEF ThreadInv, Threads
  <2> DEFINE i == call[c].id
  <2>4. i \in Messages /\ About(c, i) /\ About(d, i)
    BY <2>2 DEF Replies, About
  <2>5. Text(c) # None /\ Text(c) = Text(d)
    BY <2>2 DEF Replies, Text
  <2> HIDE DEF i
  <2> QED BY <2>1, <2>3, <2>4, <2>5 DEF PairInv
<1> QED BY <1>1, RecordInvariant, ThreadInvariant, TypeInvariant, PTL

\* What was typed last into a thread is in its text area or in a request
\* (AdminInbox.tsx clears a draft only with the answer to its own reply).
THEOREM TypedTextsAreKept == Spec => []NothingTypedIsLost
<1>1. TypeInv /\ ThreadInv => NothingTypedIsLost
  <2> SUFFICES ASSUME TypeInv, Threads, NEW i \in Messages
               PROVE  \/ drafts[i] = typed[i]
                      \/ \E c \in Calls :
                           ~At(c, "idle") /\ call[c].id = i /\ call[c].patch.text = typed[i]
    BY DEF ThreadInv, NothingTypedIsLost
  <2>1. \A c \in Calls : About(c, i) => ~At(c, "idle")
    BY IdleCall DEF TypeInv, About, At
  <2> QED BY <2>1 DEF Threads, TypedInv, About, Text
<1> QED BY <1>1, ThreadInvariant, TypeInvariant, PTL
=============================================================================
