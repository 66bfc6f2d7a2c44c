---------------------------- MODULE AdminConsole ----------------------------
(***************************************************************************)
(* The administrator's half: the inbox and the reports panel of the        *)
(* single-page application (AdminInbox.tsx, AdminReports.tsx, api.ts) in   *)
(* one browser, over the server of Inbox.  A click sends a request and     *)
(* returns; its promise settles whenever the answer arrives, in any order, *)
(* and the page then shows what the answer carries.                        *)
(*                                                                         *)
(* AdminPanel mounts one panel at a time, and an explored session stays in *)
(* the one it opens: the tables of the two meet only in an erasure.        *)
(*                                                                         *)
(* The inbox remembers one busy message, not one per request: `crossed'    *)
(* records that requests about two messages were under way together.       *)
(* `typed' is the number of the text typed last into a thread; each text   *)
(* is typed once.                                                          *)
(***************************************************************************)
EXTENDS Inbox

VARIABLES panel, loaded, shown, drafts, busy, noteDrafts, typed,
          crossed

inbox == <<panel, loaded, shown, drafts, busy, typed, crossed>>
vars == <<server, inbox, noteDrafts>>

Flying == {c \in Calls : call[c].pc \notin {"idle", "shown", "refused"}}
FlyingAbout(i) == {c \in Flying : call[c].id = i}

\* The panel has just shown its first list.
Init ==
  /\ ServerInit
  /\ panel \in {"inbox", "reports"}
  /\ panel = "reports" => Present(messages) = {}
  /\ loaded = TRUE
  /\ shown = [i \in Present(messages) |-> messages[i]]
  /\ drafts = [i \in Messages |-> 0]
  /\ busy = None
  /\ noteDrafts = [i \in Reports |-> 0]
  /\ typed = [i \in Messages |-> 0]
  /\ crossed = FALSE

\* fetch: a request leaves the browser.
Sent(c, pc, id, patch) ==
  /\ \A d \in Calls : At(d, "idle") <=> d >= c
  /\ call' = [call EXCEPT ![c] =
       [pc |-> pc, id |-> id, patch |-> patch, address |-> FALSE,
        target |-> None, rows |-> NoRows]]
  /\ UNCHANGED <<messages, reports, audit, outbox, mailed, faults, writer,
                 decision>>

Asks(status, text) == [status |-> status, text |-> text]

\* load: the list is taken away and asked for again.  A load still under way
\* is not cancelled.
Load(c, f) ==
  /\ panel = "inbox"
  /\ Sent(c, "list", f, Asks(None, None))
  /\ loaded' = FALSE
  /\ shown' = NoRows
  /\ UNCHANGED <<panel, drafts, busy, typed, crossed, noteDrafts>>

\* Mutant: a thread stays enabled while its request runs.
EnabledWhileBusy(i) == loaded /\ i \in DOMAIN shown

\* The text area and the buttons of a thread are disabled while it is busy.
Enabled(i) == loaded /\ i \in DOMAIN shown /\ busy # i

TypeReply(i) ==
  /\ Enabled(i)
  /\ typed[i] < MaxTexts
  /\ typed' = [typed EXCEPT ![i] = @ + 1]
  /\ drafts' = [drafts EXCEPT ![i] = typed[i] + 1]
  /\ UNCHANGED <<server, panel, loaded, shown, busy, noteDrafts, crossed>>

Mutate(c, i, patch) ==
  /\ Enabled(i)
  /\ Sent(c, "lookup", i, patch)
  /\ busy' = i
  /\ crossed' = (crossed \/ \E j \in Messages \ {i} : FlyingAbout(j) # {})
  /\ UNCHANGED <<panel, loaded, shown, drafts, noteDrafts, typed>>

SendReply(c, i) == drafts[i] # 0 /\ Mutate(c, i, Asks(None, drafts[i]))
Mark(c, i) ==
  \E status \in Marks \cap MessageStatuses : Mutate(c, i, Asks(status, None))

\* A settled promise leaves nothing behind but whether it was a success.
Settled(c) ==
  call' = [call EXCEPT ![c].rows = NoRows,
             ![c].pc = IF At(c, "answered") THEN "shown" ELSE "refused"]

\* Mutant: a change of status empties the text area as well.
ClearOnAnyAnswer(c) ==
  /\ loaded' = (loaded \/ call[c].id \notin Rows)
  /\ shown' = IF call[c].id \notin Rows THEN call[c].rows
              ELSE [i \in DOMAIN shown |->
                      IF i \in DOMAIN call[c].rows THEN call[c].rows[i]
                                                   ELSE shown[i]]
  /\ drafts' = [i \in Messages |-> IF i = call[c].id THEN 0 ELSE drafts[i]]

\* What the inbox shows once a request of it has settled.  A list answer fills
\* the page whatever filter is chosen by then; a row replaces the row on
\* screen, if there is one; a reply that went through empties its text area;
\* and `finally' frees the one busy slot.
ShowAnswer(c) ==
  /\ loaded' = (loaded \/ call[c].id \notin Rows)
  /\ shown' = IF call[c].id \notin Rows THEN call[c].rows
              ELSE [i \in DOMAIN shown |->
                      IF i \in DOMAIN call[c].rows THEN call[c].rows[i]
                                                   ELSE shown[i]]
  /\ drafts' = [i \in Messages |->
       IF i = call[c].id /\ call[c].patch.text # None THEN 0 ELSE drafts[i]]

KeepPage == UNCHANGED <<loaded, shown, drafts>>

\* ApiError or a network error: the banner says so, and nothing changes.
Settle(c) ==
  /\ call[c].pc \in {"answered", "failed"}
  /\ call[c].id \notin Reports
  /\ Settled(c)
  /\ IF At(c, "answered") THEN ShowAnswer(c) ELSE KeepPage
  /\ busy' = IF call[c].id \in Messages THEN None ELSE busy
  /\ UNCHANGED <<messages, reports, audit, outbox, mailed, faults, writer,
                 decision, panel, noteDrafts, typed, crossed>>

\* The answer is lost on the way back: the console sees a failed fetch.
LoseAnswer(c) ==
  /\ At(c, "answered")
  /\ faults < MaxFaults
  /\ faults' = faults + 1
  /\ call' = [call EXCEPT ![c].pc = "failed", ![c].rows = NoRows]
  /\ UNCHANGED <<messages, reports, audit, outbox, mailed, writer, decision,
                 inbox, noteDrafts>>

-----------------------------------------------------------------------------
\* The reports panel: a row once filed may still be on screen when it is gone.
\* Nothing is disabled while a request runs, and every answer resets the note
\* of its row.

TypeNote(i, t) ==
  /\ panel = "reports"
  /\ writer[i] # None
  /\ noteDrafts[i] # t
  /\ noteDrafts' = [noteDrafts EXCEPT ![i] = t]
  /\ UNCHANGED <<server, inbox>>

ChangeStatus(c, i) ==
  /\ panel = "reports"
  /\ writer[i] # None
  /\ \E status \in Marks \cap ReportStatuses :
       Sent(c, "lookup", i, Asks(status, None))
  /\ UNCHANGED <<inbox, noteDrafts>>

SaveNotes(c, i) ==
  /\ panel = "reports"
  /\ writer[i] # None
  /\ Sent(c, "lookup", i, Asks(None, noteDrafts[i]))
  /\ UNCHANGED <<inbox, noteDrafts>>

ApplyUpdate(c) ==
  /\ call[c].pc \in {"answered", "failed"}
  /\ call[c].id \in Reports
  /\ Settled(c)
  /\ noteDrafts' = [i \in Reports |->
       IF i \in DOMAIN call[c].rows THEN call[c].rows[i].text
                                    ELSE noteDrafts[i]]
  /\ UNCHANGED <<messages, reports, audit, outbox, mailed, faults, writer,
                 decision, inbox>>

-----------------------------------------------------------------------------
Click(c) ==
  \/ \E f \in Filters : Load(c, f)
  \/ \E i \in Messages : SendReply(c, i) \/ Mark(c, i)
  \/ \E i \in Reports : ChangeStatus(c, i) \/ SaveNotes(c, i)

Opens ==
  \/ panel = "inbox" /\ Writes
  \/ panel = "reports" /\ Accuses

Next ==
  \/ (ServerNext \/ Opens) /\ UNCHANGED <<inbox, noteDrafts>>
  \/ \E c \in Calls :
       Click(c) \/ Settle(c) \/ LoseAnswer(c) \/ ApplyUpdate(c)
  \/ \E i \in Messages : TypeReply(i)
  \/ \E i \in Reports, t \in {0, 1} : TypeNote(i, t)

Spec == Init /\ [][Next]_vars

-----------------------------------------------------------------------------
TypeOK ==
  /\ messages \in [Messages -> Message \cup {NoRow}]
  /\ reports \in [Reports -> Report \cup {NoRow}]
  /\ outbox \cup mailed \subseteq Calls
  /\ DOMAIN shown \subseteq Messages
  /\ drafts \in [Messages -> Texts]
  /\ busy \in Messages \cup {None}

Audited(c) == \E a \in audit : a.call = c /\ a.target = call[c].target

\* What administrators did is on record.  A change of a message or a report is
\* on the audit trail, or its handler is on the way there, or it was answered
\* with an error (admin.ts:46-50: "a failed write surfaces as an error rather
\* than silently dropping the accountability row"); and a reply is mailed only
\* after its audit row, to a sender who left an address.
ChangesAreOnRecord ==
  /\ \A i \in Rows :
       writer[i] \in Calls =>
         \/ Audited(writer[i])
         \/ At(writer[i], "audit")
         \/ call[writer[i]].pc \in {"failed", "refused"}
  /\ \A c \in mailed :
       /\ \E a \in audit : a.call = c /\ a.action = "reply_message"
       /\ call[c].address

\* Reporting a repository again never reopens what the administrators decided
\* of it, whichever requests of theirs are under way.
TriageSurvivesReports ==
  \A i \in Present(reports) :
    reports[i].status = decision[<<reports[i].login, reports[i].suspect>>]

\* A reply that is typed once is mailed twice only if the console was told
\* that the first attempt failed, or if requests about two messages crossed
\* and the one busy slot freed the wrong thread.
SecondMailHasACause ==
  \A c, d \in mailed :
    /\ c # d
    /\ call[c].id = call[d].id
    /\ call[c].patch = call[d].patch
    => \/ crossed
       \/ \E e \in {c, d} : At(e, "refused")

\* What the administrator typed last is still in the text area or has been
\* sent, unless requests crossed.
NothingTypedIsLost ==
  \A i \in Messages :
    \/ drafts[i] = typed[i]
    \/ \E c \in Calls :
         ~At(c, "idle") /\ call[c].id = i /\ call[c].patch.text = typed[i]
    \/ crossed
=============================================================================
