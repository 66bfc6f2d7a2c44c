------------------------------- MODULE Inbox -------------------------------
(***************************************************************************)
(* The server half of support and triage (routes/contact.ts,               *)
(* routes/admin.ts:149-236, messages/store.ts, reports/store.ts,           *)
(* admin/audit.ts).  A user's writes are single statements.  An            *)
(* administrator's update is four awaited ones - look the row up, change   *)
(* it, write the audit row, read the row again - with anybody's statements *)
(* between them, and any of the four may fail; the mail that carries a     *)
(* reply runs in waitUntil, beside the rest.                               *)
(*                                                                         *)
(* The console's requests are numbered as they leave it.  `writer' and     *)
(* `decision' are history: the user or the request that last changed a     *)
(* row, and what administrators last made of a reporter's suspect.         *)
(***************************************************************************)
EXTENDS Naturals, FiniteSets

CONSTANTS
  Logins, Suspects,
  Messages, Reports,        \* the random ids of the two tables
  MaxTexts,                 \* explored replies and notes, numbered
  Addressed,                \* the messages whose sender leaves an address
  Categories,               \* what a report takes its suspect for
  Filters,                  \* the lists explored: "all" or a status
  Marks,                    \* the statuses explored that a click can set
  MaxCalls,                 \* explored requests of the console
  MaxFaults,                \* explored failures of a statement, mail or fetch
  None

VARIABLES messages, reports, audit, call, outbox, mailed, faults,
          writer, decision

server == <<messages, reports, audit, call, outbox, mailed, faults, writer,
            decision>>

Calls == 1 .. MaxCalls
Texts == 0 .. MaxTexts      \* 0 is the empty text, and none at all in a row
Rows == Messages \cup Reports
MessageStatuses == {"open", "read", "resolved"}
ReportStatuses ==
  {"reported", "reviewing", "confirmed", "dismissed", "takendown"}

Message == [login : Logins, email : BOOLEAN, status : MessageStatuses,
            text : Texts]
Report == [login : Logins, suspect : Suspects, category : Categories,
           status : ReportStatuses, text : Texts]

NoRow == [login |-> None]
Present(table) == {i \in DOMAIN table : table[i] # NoRow}
RowOf(i) == IF i \in Messages THEN messages[i] ELSE reports[i]

\* Ids and names of one kind are not of another, and a filter is no row.
ASSUME InboxAssumption ==
  /\ MaxTexts \in Nat \ {0}
  /\ MaxCalls \in Nat
  /\ Messages \cap Reports = {}
  /\ Filters \cap Rows = {}
  /\ Logins \cap Calls = {}
  /\ None \notin Logins \cup Calls \cup Rows \cup Texts
  /\ None \notin MessageStatuses \cup ReportStatuses

\* One request: the row it is about (or the filter of a list), what it asks
\* of it (None is a field left out of the body), whether the row that was
\* looked up has an address and what the audit trail calls it, and, once
\* answered, the rows of the answer.
Idle == [pc |-> "idle"]
NoRows == [i \in {} |-> NoRow]
At(c, pc) == call[c].pc = pc
Becomes(c, pc) == call' = [call EXCEPT ![c].pc = pc]
Running == {"lookup", "write", "audit", "reread", "list"}

\* Messages may be waiting when the console opens.
Waiting(i) ==
  {m \in Message : /\ m.status = "open" /\ m.text = 0
                   /\ m.email <=> i \in Addressed}

ServerInit ==
  /\ messages \in [Messages -> (UNION {Waiting(i) : i \in Messages})
                               \cup {NoRow}]
  /\ \A i \in Present(messages) : messages[i] \in Waiting(i)
  /\ reports = [i \in Reports |-> NoRow]
  /\ audit = {}
  /\ call = [c \in Calls |-> Idle]
  /\ outbox = {}
  /\ mailed = {}
  /\ faults = 0
  /\ writer = [i \in Rows |-> IF i \in Present(messages)
                              THEN messages[i].login ELSE None]
  /\ decision = [d \in Logins \X Suspects |-> "reported"]

-----------------------------------------------------------------------------
\* What signed-in users do

\* POST /contact: the row; the notice to the operator says nothing a property
\* looks at.  The id is random, so one that was deleted does not come back.
Contact(i, l) ==
  /\ messages[i] = NoRow /\ writer[i] = None
  /\ messages' = [messages EXCEPT ![i] =
       [login |-> l, email |-> i \in Addressed, status |-> "open", text |-> 0]]
  /\ writer' = [writer EXCEPT ![i] = l]
  /\ UNCHANGED <<reports, audit, call, outbox, mailed, faults, decision>>

\* Mutant: a report filed again is as good as new.
ReopenOnConflict(i, l, s, category) ==
  /\ IF \E j \in Present(reports) :
          reports[j].login = l /\ reports[j].suspect = s
     THEN /\ reports[i] # NoRow
          /\ reports[i].login = l /\ reports[i].suspect = s
          /\ reports' = [reports EXCEPT ![i].category = category,
                                        ![i].status = "reported"]
          /\ UNCHANGED writer
     ELSE /\ reports[i] = NoRow /\ writer[i] = None
          /\ reports' = [reports EXCEPT ![i] =
               [login |-> l, suspect |-> s, category |-> category,
                status |-> "reported", text |-> 0]]
          /\ writer' = [writer EXCEPT ![i] = l]
  /\ UNCHANGED <<messages, audit, call, outbox, mailed, faults, decision>>

\* POST /reports: an insert, or on (reporter, suspect) a refresh that leaves
\* the id and the administrators' status and notes alone.
ReportSuspect(i, l, s, category) ==
  /\ IF \E j \in Present(reports) :
          reports[j].login = l /\ reports[j].suspect = s
     THEN /\ reports[i] # NoRow
          /\ reports[i].login = l /\ reports[i].suspect = s
          /\ reports' = [reports EXCEPT ![i].category = category]
          /\ UNCHANGED writer
     ELSE /\ reports[i] = NoRow /\ writer[i] = None
          /\ reports' = [reports EXCEPT ![i] =
               [login |-> l, suspect |-> s, category |-> category,
                status |-> "reported", text |-> 0]]
          /\ writer' = [writer EXCEPT ![i] = l]
  /\ UNCHANGED <<messages, audit, call, outbox, mailed, faults, decision>>

\* DELETE /me, as far as these tables go: one batch.
Erase(l) ==
  /\ messages' = [i \in Messages |->
       IF messages[i] # NoRow /\ messages[i].login = l THEN NoRow
                                                       ELSE messages[i]]
  /\ reports' = [i \in Reports |->
       IF reports[i] # NoRow /\ reports[i].login = l THEN NoRow
                                                     ELSE reports[i]]
  /\ decision' = [d \in Logins \X Suspects |->
       IF d[1] = l THEN "reported" ELSE decision[d]]
  /\ UNCHANGED <<audit, call, outbox, mailed, faults, writer>>

-----------------------------------------------------------------------------
\* POST /messages/:id and POST /reports/:id, statement by statement

Answer(c, rows) == [call[c] EXCEPT !.pc = "answered", !.rows = rows]

\* A row that is gone answers 404, a body that asks for nothing 400.
Lookup(c) ==
  /\ At(c, "lookup")
  /\ LET row == RowOf(call[c].id)
         asked == call[c].patch.status # None \/ call[c].patch.text # None
     IN  call' = [call EXCEPT ![c] =
           IF row = NoRow \/ ~asked
           THEN [@ EXCEPT !.pc = "failed"]
           ELSE [@ EXCEPT !.pc = "write",
                   !.address = call[c].id \in Messages /\ row.email,
                   !.target = IF call[c].id \in Messages THEN call[c].id
                              ELSE row.suspect]]
  /\ UNCHANGED <<messages, reports, audit, outbox, mailed, faults, writer,
                 decision>>

\* A reply resolves its thread; a report takes the fields that are there.
Patched(row, patch, isMessage) ==
  [row EXCEPT
     !.text = IF patch.text # None THEN patch.text ELSE @,
     !.status = IF isMessage /\ patch.text # None THEN "resolved"
                ELSE IF patch.status # None THEN patch.status ELSE @]

\* UPDATE ... WHERE id: no row, no change, no error.
Write(c) ==
  LET i == call[c].id
      row == RowOf(i)
      new == Patched(row, call[c].patch, i \in Messages)
  IN  /\ At(c, "write")
      /\ Becomes(c, "audit")
      /\ IF row = NoRow THEN UNCHANGED <<messages, reports, writer, decision>>
         ELSE /\ writer' = [writer EXCEPT ![i] = c]
              /\ IF i \in Messages
                 THEN /\ messages' = [messages EXCEPT ![i] = new]
                      /\ UNCHANGED <<reports, decision>>
                 ELSE /\ reports' = [reports EXCEPT ![i] = new]
                      /\ decision' = [decision EXCEPT
                           ![<<row.login, row.suspect>>] = new.status]
                      /\ UNCHANGED messages
      /\ UNCHANGED <<audit, outbox, mailed, faults>>

\* The audit row, awaited: a message is on it by id, a report by its suspect;
\* then a reply with an address on file goes to
\* waitUntil, with the address that was looked up.
WriteAudit(c) ==
  LET i == call[c].id
      replies == i \in Messages /\ call[c].patch.text # None
  IN  /\ At(c, "audit")
      /\ audit' = audit \cup
           {[call |-> c, target |-> call[c].target,
             action |-> IF replies THEN "reply_message"
                        ELSE IF i \in Messages THEN "update_message"
                        ELSE "update_report"]}
      /\ outbox' = IF replies /\ call[c].address
                   THEN outbox \cup {c} ELSE outbox
      /\ Becomes(c, "reread")
      /\ UNCHANGED <<messages, reports, mailed, faults, writer, decision>>

\* The answer is the row as it is now, 404 if it has gone meanwhile.
Reread(c) ==
  LET i == call[c].id IN
  /\ At(c, "reread")
  /\ call' = [call EXCEPT ![c] =
       IF RowOf(i) = NoRow THEN [@ EXCEPT !.pc = "failed"]
                           ELSE Answer(c, [j \in {i} |-> RowOf(i)])]
  /\ UNCHANGED <<messages, reports, audit, outbox, mailed, faults, writer,
                 decision>>

\* GET /messages: one statement, under the filter the console asked with.
List(c) ==
  /\ At(c, "list")
  /\ LET listed == {i \in Present(messages) :
                      call[c].id \in {"all", messages[i].status}}
     IN  call' = [call EXCEPT ![c] =
           Answer(c, [i \in listed |-> messages[i]])]
  /\ UNCHANGED <<messages, reports, audit, outbox, mailed, faults, writer,
                 decision>>

\* Mutant: the audit row is not awaited, its failure is nobody's business.
SwallowedAudit(c) ==
  /\ call[c].pc \in Running
  /\ faults < MaxFaults
  /\ faults' = faults + 1
  /\ Becomes(c, IF At(c, "audit") THEN "reread" ELSE "failed")
  /\ UNCHANGED <<messages, reports, audit, outbox, mailed, writer, decision>>

\* The statement the handler is at fails, or its isolate goes: 500, and what
\* was written stays written.
Fault(c) ==
  /\ call[c].pc \in Running
  /\ faults < MaxFaults
  /\ faults' = faults + 1
  /\ Becomes(c, "failed")
  /\ UNCHANGED <<messages, reports, audit, outbox, mailed, writer, decision>>

\* The promise in waitUntil settles; a failure is logged and nothing else.
SettleMail(c) ==
  /\ c \in outbox
  /\ outbox' = outbox \ {c}
  /\ \/ mailed' = mailed \cup {c} /\ UNCHANGED faults
     \/ /\ faults < MaxFaults
        /\ faults' = faults + 1
        /\ UNCHANGED mailed
  /\ UNCHANGED <<messages, reports, audit, call, writer, decision>>

Handler(c) ==
  Lookup(c) \/ Write(c) \/ WriteAudit(c) \/ Reread(c) \/ List(c)

Writes == \E l \in Logins, i \in Messages : Contact(i, l)
Accuses ==
  \E l \in Logins, i \in Reports, s \in Suspects, k \in Categories :
    ReportSuspect(i, l, s, k)

ServerNext ==
  \/ \E l \in Logins : Erase(l)
  \/ \E c \in Calls : Handler(c) \/ Fault(c) \/ SettleMail(c)
=============================================================================
