---------------------------- MODULE Attachments ----------------------------
(***************************************************************************)
(* Files in object storage and the rows that point at them: attachments of *)
(* the lines of one report (budget service), and screenshots of bug        *)
(* reports (users service), which the worker then announces in a channel.  *)
(* Storage and database commit apart; between any two steps the storage,   *)
(* the database, the broker or the process may fail.                       *)
(***************************************************************************)
EXTENDS Naturals

CONSTANTS Lines,     \* lines of the report
          Uploads,   \* uploads, each with a storage key of its own
          Deleters,  \* requests that delete an attachment or a line
          BugReports,\* bug reports, with or without a screenshot
          MaxTries,  \* posts of a notice: one and max_retries
          MaxFaults, \* failures (a bound)
          none

\* What is assumed of the constants.
AttachmentsAssumption ==
  /\ none \notin Lines \cup Uploads /\ Uploads \cap BugReports = {}
  /\ MaxTries \in Nat \ {0} /\ MaxFaults \in Nat

VARIABLES draft,   \* the report is a draft
          lines,   \* its lines
          rows,    \* attachments: their line
          blobs,   \* keys in storage
          upload,  \* what each upload has done
          deleter, \* what each deletion holds
          doomed,  \* attachments whose file a deletion of their line removed (history)
          bug,     \* how far each bug report is
          shown,   \* those with a screenshot
          stored,  \* those whose row is committed
          tries,   \* how often the worker tried to post it
          posted,  \* those that were announced
          faults

reportVars == <<draft, lines, rows, upload, deleter, doomed>>
bugVars == <<bug, shown, stored, tries, posted>>
vars == <<reportVars, bugVars, blobs, faults>>

Deleter == [pc : {"idle", "row", "blob", "list", "line"}, of : Uploads \cup Lines \cup {none},
            listed : SUBSET Uploads]
Idle == [pc |-> "idle", of |-> none, listed |-> {}]

TypeOK ==
  /\ draft \in BOOLEAN /\ lines \subseteq Lines
  /\ rows \in [Uploads -> Lines \cup {none}]
  /\ blobs \subseteq Uploads \cup BugReports
  /\ upload \in [Uploads -> [pc : {"new", "saved", "over"}, line : Lines \cup {none}]]
  /\ deleter \in [Deleters -> Deleter]
  /\ doomed \subseteq Uploads
  /\ bug \in [BugReports -> {"new", "saved", "committed", "queued", "over"}]
  /\ shown \subseteq BugReports /\ stored \subseteq BugReports /\ posted \subseteq BugReports
  /\ tries \in [BugReports -> 0 .. MaxTries]
  /\ faults \in 0 .. MaxFaults

\* A draft report with its lines.
Init ==
  /\ draft = TRUE /\ lines = Lines
  /\ rows = [u \in Uploads |-> none] /\ blobs = {}
  /\ upload = [u \in Uploads |-> [pc |-> "new", line |-> none]]
  /\ deleter = [d \in Deleters |-> Idle]
  /\ doomed = {}
  /\ bug = [b \in BugReports |-> "new"] /\ shown = {} /\ stored = {}
  /\ tries = [b \in BugReports |-> 0] /\ posted = {}
  /\ faults = 0

Fault == faults < MaxFaults /\ faults' = faults + 1
NoFault == UNCHANGED faults
Of(l) == {u \in Uploads : rows[u] = l}
Without(us) == [u \in Uploads |-> IF u \in us THEN none ELSE rows[u]]

-----------------------------------------------------------------------------
(* The report (see BudgetReports). *)

Turn ==
  /\ lines # {}
  /\ draft' = ~draft
  /\ UNCHANGED <<lines, rows, upload, deleter, doomed, bugVars, blobs, faults>>

\* Deleted, or by a budget that is reverted: its rows go, the files stay.
DeleteReport ==
  /\ draft
  /\ lines' = {} /\ rows' = Without(Uploads)
  /\ UNCHANGED <<draft, upload, deleter, doomed, bugVars, blobs, faults>>

-----------------------------------------------------------------------------
(* upload_attachment_service *)

\* The report is checked and the file saved with no await between.
SaveFile(u, l) ==
  /\ upload[u].pc = "new" /\ l \in lines /\ draft
  /\ \/ /\ blobs' = blobs \cup {u}
        /\ upload' = [upload EXCEPT ![u] = [pc |-> "saved", line |-> l]]
        /\ NoFault
     \/ upload' = [upload EXCEPT ![u].pc = "over"] /\ UNCHANGED blobs /\ Fault
  /\ UNCHANGED <<draft, lines, rows, deleter, doomed, bugVars>>

\* The foreign key refuses a line that is gone: the file has no row.
InsertAttachment(u) ==
  /\ upload[u].pc = "saved"
  /\ upload' = [upload EXCEPT ![u].pc = "over"]
  /\ \/ /\ rows' = IF upload[u].line \in lines THEN [rows EXCEPT ![u] = upload[u].line] ELSE rows
        /\ NoFault
     \/ UNCHANGED rows /\ Fault
  /\ UNCHANGED <<draft, lines, deleter, doomed, bugVars, blobs>>

-----------------------------------------------------------------------------
(* delete_attachment_service, delete_report_line_service *)

Set(d, pc, of, listed) ==
  deleter' = [deleter EXCEPT ![d] = [pc |-> pc, of |-> of, listed |-> listed]]
Retire(d) == deleter' = [deleter EXCEPT ![d] = Idle]

BeginDelete(d) ==
  /\ deleter[d].pc = "idle" /\ draft
  /\ \/ \E u \in Uploads : rows[u] # none /\ Set(d, "row", u, {})
     \/ \E l \in lines : Set(d, "list", l, {})
  /\ UNCHANGED <<draft, lines, rows, upload, doomed, bugVars, blobs, faults>>

\* Mutant: the file is deleted first.
DeleteRowLast(d) ==
  LET u == deleter[d].of
  IN  /\ deleter[d].pc = "row"
      /\ \/ Set(d, "blob", u, {}) /\ blobs' = blobs \ {u} /\ NoFault
         \/ Retire(d) /\ UNCHANGED blobs /\ Fault
      /\ UNCHANGED <<draft, lines, rows, upload, doomed, bugVars>>

\* The row's deletion is committed before the file is touched.
DeleteRow(d) ==
  LET u == deleter[d].of
  IN  /\ deleter[d].pc = "row"
      /\ \/ Set(d, "blob", u, {}) /\ rows' = Without({u}) /\ NoFault
         \/ Retire(d) /\ UNCHANGED rows /\ Fault
      /\ UNCHANGED <<draft, lines, upload, doomed, bugVars, blobs>>

DeleteBlob(d) ==
  /\ deleter[d].pc = "blob"
  /\ \/ blobs' = blobs \ {deleter[d].of} /\ NoFault
     \/ UNCHANGED blobs /\ Fault
  /\ Retire(d)
  /\ UNCHANGED <<draft, lines, rows, upload, doomed, bugVars>>

\* The attachments of the line are listed and their files deleted one by one, with no
\* await between; when storage fails, some are.
DeleteFiles(d) ==
  LET l == deleter[d].of
  IN  /\ deleter[d].pc = "list"
      /\ \/ /\ blobs' = blobs \ Of(l) /\ doomed' = doomed \cup Of(l)
            /\ Set(d, "line", l, Of(l)) /\ NoFault
         \/ \E us \in SUBSET Of(l) :
              /\ us # Of(l)
              /\ blobs' = blobs \ us /\ doomed' = doomed \cup us
              /\ Retire(d) /\ Fault
      /\ UNCHANGED <<draft, lines, rows, upload, bugVars>>

\* The rows that the cascade loads go with the line; one inserted after that fails the
\* commit, and so does the database.
DeleteLine(d) ==
  LET l == deleter[d].of
  IN  /\ deleter[d].pc = "line"
      /\ \/ lines' = lines \ {l} /\ rows' = Without(Of(l)) /\ NoFault
         \/ Of(l) \ deleter[d].listed # {} /\ UNCHANGED <<lines, rows>> /\ NoFault
         \/ UNCHANGED <<lines, rows>> /\ Fault
      /\ Retire(d)
      /\ UNCHANGED <<draft, upload, doomed, bugVars, blobs>>

-----------------------------------------------------------------------------
(* submit_bug_report_service, and post_notification in the worker. *)

Advance(b, pc) == bug' = [bug EXCEPT ![b] = pc]

SaveScreenshot(b) ==
  /\ bug[b] = "new"
  /\ \/ Advance(b, "saved") /\ NoFault
        /\ \/ blobs' = blobs \cup {b} /\ shown' = shown \cup {b}
           \/ UNCHANGED <<blobs, shown>>
     \/ Advance(b, "over") /\ UNCHANGED <<blobs, shown>> /\ Fault
  /\ UNCHANGED <<reportVars, stored, tries, posted>>

CreateBugReport(b) ==
  /\ bug[b] = "saved"
  /\ \/ Advance(b, "committed") /\ stored' = stored \cup {b} /\ NoFault
     \/ Advance(b, "over") /\ UNCHANGED stored /\ Fault
  /\ UNCHANGED <<reportVars, shown, tries, posted, blobs>>

\* "Notification failure must not fail the request": it is logged, and not repeated.
Enqueue(b) ==
  /\ bug[b] = "committed"
  /\ \/ Advance(b, "queued") /\ NoFault
     \/ Advance(b, "over") /\ Fault
  /\ UNCHANGED <<reportVars, shown, stored, tries, posted, blobs>>

\* Posted; or failed, whether the post arrived or not: it is retried a number of times,
\* unless the channel says that it never will be.
Post(b) ==
  /\ bug[b] = "queued" /\ tries[b] < MaxTries
  /\ tries' = [tries EXCEPT ![b] = @ + 1]
  /\ \/ posted' = posted \cup {b} /\ Advance(b, "over") /\ NoFault
     \/ /\ posted' \in {posted, posted \cup {b}}
        /\ Advance(b, IF tries'[b] = MaxTries THEN "over" ELSE "queued")
        /\ Fault
     \/ UNCHANGED posted /\ Advance(b, "over") /\ Fault
  /\ UNCHANGED <<reportVars, shown, stored, blobs>>

Next ==
  \/ Turn \/ DeleteReport
  \/ \E u \in Uploads : InsertAttachment(u) \/ \E l \in Lines : SaveFile(u, l)
  \/ \E d \in Deleters :
       BeginDelete(d) \/ DeleteRow(d) \/ DeleteBlob(d) \/ DeleteFiles(d) \/ DeleteLine(d)
  \/ \E b \in BugReports : SaveScreenshot(b) \/ CreateBugReport(b) \/ Enqueue(b) \/ Post(b)

Spec == Init /\ [][Next]_vars
-----------------------------------------------------------------------------
(* Properties. *)

\* An attachment that is listed can be downloaded, "never a dangling row that still looks
\* downloadable" (delete_attachment_service), however deletions overlap, repeat and fail.
\* Not so for the attachments of a line that somebody began to delete: its files go first.
RowsHaveFiles == \A u \in Uploads : rows[u] # none => u \in blobs \cup doomed

\* A notice in the channel is about a bug report that is stored, and its link works.
NoticesAreReal == \A b \in posted : b \in stored /\ (b \in shown => b \in blobs)

FilesAreThere == RowsHaveFiles /\ NoticesAreReal
=============================================================================
