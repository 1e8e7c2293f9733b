--------------------------- MODULE BudgetReports ---------------------------
(***************************************************************************)
(* One budget and its reports (services/budget): the budget is confirmed,  *)
(* reverted, archived and restored, reports are written against it by its  *)
(* owner and reviewed by its funder.  Every request loads what it checks,  *)
(* checks it, and commits in a later step against rows that others may     *)
(* have changed: no row is locked and no version is compared.  The ORM     *)
(* writes only the attributes that differ from what the session loaded.    *)
(***************************************************************************)
EXTENDS Integers

CONSTANTS
    Owners,     \* sessions of the budget's owner, one request at a time each
    Funders,    \* sessions of its funder; empty when it has no funder
    Creators,   \* those of either that create reports
    MaxReports, \* how many reports are ever inserted (a bound)
    Days,       \* days of the reporting calendar
    MaxEdits    \* how often figures and report contents change (a bound)

Sessions == Owners \cup Funders
Ids == 1 .. MaxReports

ASSUME SessionsAssumption == Owners \cap Funders = {} /\ Creators \subseteq Sessions
ASSUME DaysAssumption == Days \subseteq Int /\ Days # {}
ASSUME BoundsAssumption == MaxReports \in Nat /\ MaxEdits \in Nat

VARIABLES
    budget,   \* status, confirmed_at set, start_date set
    figures,  \* version of the budget's metadata, lines and categories
    reports,  \* the reports table: state, period and version of the content
    nReports, \* reports ever inserted
    op,       \* what each session is in the middle of
    id,       \* the report it works on
    goal,     \* the status it asked for
    span,     \* the period it asked for
    base,     \* the budget as it loaded it
    seen,     \* the report as it loaded it
    listed,   \* the reports it loaded with the budget
    since,    \* history: the reports whose period others wrote behind its back
    crowded   \* history: a side has had two requests under way at a time

budgetVars == <<budget, figures>>
reportVars == <<reports, nReports>>
sessionVars == <<op, id, goal, span, base, seen, listed, since, crowded>>
vars == <<budgetVars, reportVars, sessionVars>>

Statuses == {"draft", "ai_draft", "confirmed", "archived"}
States == {"none", "draft", "submitted", "approved", "rejected"}
Period == [from : Days, to : Days]
Report == [state : States, period : Period, text : Nat]
Budget == [status : Statuses \cup {"deleted"}, stamped : BOOLEAN, dated : BOOLEAN]
Ops == {"none", "confirm", "patch", "revert", "restore", "edit", "create",
        "insert", "update", "move", "rename", "remove", "turn"}

ADay == CHOOSE d \in Days : TRUE
NoPeriod == [from |-> ADay, to |-> ADay]
NoReport == [state |-> "none", period |-> NoPeriod, text |-> 0]
NewBudget == [status |-> "draft", stamped |-> FALSE, dated |-> FALSE]

TypeOK ==
    /\ budget \in Budget
    /\ figures \in Nat
    /\ reports \in [Ids -> Report]
    /\ nReports \in 0 .. MaxReports
    /\ op \in [Sessions -> Ops]
    /\ id \in [Sessions -> 0 .. MaxReports]
    /\ goal \in [Sessions -> Statuses \cup States]
    /\ span \in [Sessions -> Period]
    /\ base \in [Sessions -> Budget]
    /\ seen \in [Sessions -> Report]
    /\ listed \in [Sessions -> SUBSET Ids]
    /\ since \in [Sessions -> SUBSET Ids]
    /\ crowded \in BOOLEAN

\* A new budget, typed in by hand or drafted by the assistant.
Init ==
    /\ budget \in {NewBudget, [NewBudget EXCEPT !.status = "ai_draft"]}
    /\ figures = 0
    /\ reports = [i \in Ids |-> NoReport]
    /\ nReports = 0
    /\ op = [s \in Sessions |-> "none"]
    /\ id = [s \in Sessions |-> 0]
    /\ goal = [s \in Sessions |-> "none"]
    /\ span = [s \in Sessions |-> NoPeriod]
    /\ base = [s \in Sessions |-> NewBudget]
    /\ seen = [s \in Sessions |-> NoReport]
    /\ listed = [s \in Sessions |-> {}]
    /\ since = [s \in Sessions |-> {}]
    /\ crowded = FALSE

-----------------------------------------------------------------------------
(* A request loads the budget and its reports, checks them and goes on. *)

Exists(i) == reports[i].state # "none"
Existing == {i \in Ids : Exists(i)}

Side(s) == IF s \in Owners THEN Owners ELSE Funders

\* The session's identity map after loading; `to` is what it will commit.
Load(s, do, i, to, p) ==
    /\ op[s] = "none"
    /\ op' = [op EXCEPT ![s] = do]
    /\ id' = [id EXCEPT ![s] = i]
    /\ goal' = [goal EXCEPT ![s] = to]
    /\ span' = [span EXCEPT ![s] = p]
    /\ base' = [base EXCEPT ![s] = budget]
    /\ seen' = [seen EXCEPT ![s] = IF i \in Ids THEN reports[i] ELSE NoReport]
    /\ listed' = [listed EXCEPT ![s] = Existing]
    /\ since' = [since EXCEPT ![s] = {}]
    /\ crowded' = (crowded \/ \E t \in Side(s) \ {s} : op[t] # "none")
    /\ UNCHANGED <<budgetVars, reportVars>>

\* The session ends, having written the periods of the reports in `wrote`: a request
\* that has loaded or looked for them already does not see them.
RetireHaving(s, wrote) ==
    /\ op' = [op EXCEPT ![s] = "none"]
    /\ id' = [id EXCEPT ![s] = 0]
    /\ goal' = [goal EXCEPT ![s] = "none"]
    /\ span' = [span EXCEPT ![s] = NoPeriod]
    /\ base' = [base EXCEPT ![s] = NewBudget]
    /\ seen' = [seen EXCEPT ![s] = NoReport]
    /\ listed' = [listed EXCEPT ![s] = {}]
    /\ since' = [t \in Sessions |->
          IF t # s /\ op[t] \in {"update", "insert", "move"} THEN since[t] \cup wrote
          ELSE IF t = s THEN {} ELSE since[t]]
    /\ UNCHANGED crowded

Retire(s) == RetireHaving(s, {})

-----------------------------------------------------------------------------
(* PATCH /budgets/{id}, POST /budgets/{id}/restore, edits of the figures. *)

\* The owner or the funder; a start_date may come with it (Confirm).
BeginConfirm(s) ==
    /\ budget.status \in {"draft", "ai_draft"}
    /\ Load(s, "confirm", 0, "confirmed", NoPeriod)

\* Mutant: the reports are not looked at.
BeginRevertAnyway(s) ==
    /\ s \in Owners
    /\ budget.status = "confirmed"
    /\ Load(s, "revert", 0, "draft", NoPeriod)

BeginRevert(s) ==
    /\ s \in Owners
    /\ budget.status = "confirmed"
    /\ \A i \in Existing : reports[i].state = "draft"
    /\ Load(s, "revert", 0, "draft", NoPeriod)

\* Any other status is written as it comes: archiving is one of them.
BeginPatch(s) ==
    /\ s \in Owners
    /\ budget.status # "deleted"
    /\ \E to \in {"draft", "ai_draft", "archived"} :
          /\ ~(budget.status = "confirmed" /\ to = "draft")
          /\ Load(s, "patch", 0, to, NoPeriod)

BeginRestore(s) ==
    /\ s \in Owners
    /\ budget.status = "archived"
    /\ Load(s, "restore", 0,
            IF budget.stamped /\ budget.dated THEN "confirmed" ELSE "draft", NoPeriod)

\* Metadata, lines and categories share one lock: assert_budget_editable.
BeginEdit(s) ==
    /\ s \in Owners
    /\ budget.status \notin {"confirmed", "deleted"}
    /\ Load(s, "edit", 0, "none", NoPeriod)

\* Mutant: every attribute is written as it was loaded or asked for.
WrittenWhole(old, new, current) == new

\* The attributes that differ from what the session loaded.
Written(old, new, current) == IF new = old THEN current ELSE new

Alive == budget.status # "deleted"

\* A start_date and metadata may come with the status, except from the
\* funder and on a budget it loaded as confirmed.
Dates(s) == {base[s].dated} \cup IF base[s].status # "confirmed" THEN {TRUE} ELSE {}
Figures(s) ==
    {figures} \cup IF s \in Owners /\ base[s].status # "confirmed" /\ figures < MaxEdits
                   THEN {figures + 1} ELSE {}

Confirm(s) ==
    /\ op[s] = "confirm"
    /\ \/ \E dated \in Dates(s) :
             /\ Alive /\ dated
             /\ budget' = [status |-> "confirmed", stamped |-> TRUE,
                           dated |-> Written(base[s].dated, dated, budget.dated)]
             /\ figures' \in Figures(s)
       \/ (~Alive \/ ~base[s].dated) /\ UNCHANGED budgetVars
    /\ Retire(s)
    /\ UNCHANGED reportVars

\* The reports it loaded are deleted in the same commit.
Revert(s) ==
    /\ op[s] = "revert"
    /\ IF Alive
       THEN /\ budget' = [budget EXCEPT
                    !.status = "draft",
                    !.stamped = Written(base[s].stamped, FALSE, @)]
            /\ reports' = [i \in Ids |-> IF i \in listed[s] THEN NoReport ELSE reports[i]]
       ELSE UNCHANGED <<budget, reports>>
    /\ Retire(s)
    /\ UNCHANGED <<figures, nReports>>

Patch(s) ==
    /\ op[s] = "patch"
    /\ \/ \E dated \in Dates(s) :
             /\ Alive
             /\ budget' = [budget EXCEPT
                    !.status = Written(base[s].status, goal[s], @),
                    !.dated = Written(base[s].dated, dated, @)]
             /\ figures' \in Figures(s)
       \/ ~Alive /\ UNCHANGED budgetVars
    /\ Retire(s)
    /\ UNCHANGED reportVars

Restore(s) ==
    /\ op[s] = "restore"
    /\ IF Alive
       THEN budget' = [budget EXCEPT
                !.status = goal[s],
                !.stamped = IF goal[s] = "confirmed" THEN @
                            ELSE Written(base[s].stamped, FALSE, @)]
       ELSE UNCHANGED budget
    /\ Retire(s)
    /\ UNCHANGED <<figures, reportVars>>

\* Mutant: the status of the payload is written although it is not given.
EditStatus(s) ==
    /\ op[s] = "edit"
    /\ IF Alive /\ figures < MaxEdits
       THEN /\ figures' = figures + 1
            /\ budget' = [budget EXCEPT !.status = goal[s]]
       ELSE UNCHANGED budgetVars
    /\ Retire(s)
    /\ UNCHANGED reportVars

Edit(s) ==
    /\ op[s] = "edit"
    /\ IF Alive /\ figures < MaxEdits
       THEN /\ figures' = figures + 1
            /\ \E dated \in Dates(s) :
                  budget' = [budget EXCEPT !.dated = Written(base[s].dated, dated, @)]
       ELSE UNCHANGED budgetVars
    /\ Retire(s)
    /\ UNCHANGED reportVars

\* session.delete(budget): reports.budget_id is not nullable, so the commit
\* fails while there is a report.
DeleteBudget(s) ==
    /\ s \in Owners
    /\ op[s] = "none"
    /\ Alive
    /\ Existing = {}
    /\ budget' = [budget EXCEPT !.status = "deleted"]
    /\ UNCHANGED <<figures, reportVars, sessionVars>>

-----------------------------------------------------------------------------
(* Reports. *)

Valid(p) == p.from <= p.to

\* Mutant: periods that share their last and first day are let pass.
OverlappingInside(p, but) ==
    {i \in Existing \ {but} : reports[i].period.from < p.to /\ reports[i].period.to > p.from}

\* list_overlapping_reports; `but` is exclude_report_id.
Overlapping(p, but) ==
    {i \in Existing \ {but} : reports[i].period.from <= p.to /\ reports[i].period.to >= p.from}

BeginCreate(s) ==
    /\ s \in Creators
    /\ budget.status = "confirmed"
    /\ \E p \in {q \in Period : Valid(q)} : Load(s, "create", 0, "draft", p)

\* Mutant: a report of any status is edited.
BeginUpdateAnyway(s) ==
    /\ s \in Owners
    /\ \E i \in Existing : Load(s, "rename", i, "draft", reports[i].period)

BeginUpdate(s) ==
    /\ s \in Owners
    /\ \E i \in Existing :
          /\ reports[i].state = "draft"
          /\ \/ \E p \in {q \in Period : Valid(q)} : Load(s, "update", i, "draft", p)
             \/ Load(s, "rename", i, "draft", reports[i].period)

BeginRemove(s) ==
    /\ s \in Owners
    /\ \E i \in Existing : reports[i].state = "draft" /\ Load(s, "remove", i, "none", NoPeriod)

BeginSubmit(s) ==
    /\ s \in Owners
    /\ \E i \in Existing :
          reports[i].state = "draft" /\ Load(s, "turn", i, "submitted", NoPeriod)

\* _can_review: the funder, or the owner of a budget without one.
Reviewers == IF Funders = {} THEN Owners ELSE Funders

BeginReview(s) ==
    /\ s \in Reviewers
    /\ \E i \in Existing, to \in {"approved", "rejected"} :
          reports[i].state = "submitted" /\ Load(s, "turn", i, to, NoPeriod)

BeginReopen(s) ==
    /\ s \in Owners
    /\ \E i \in Existing :
          reports[i].state = "rejected" /\ Load(s, "turn", i, "draft", NoPeriod)

\* The overlap query, a statement of its own before the write.
Query(s) ==
    /\ op[s] \in {"create", "update"}
    /\ \/ /\ Overlapping(span[s], id[s]) = {}
          /\ op' = [op EXCEPT ![s] = IF op[s] = "create" THEN "insert" ELSE "move"]
          /\ since' = [since EXCEPT ![s] = @ \cap {id[s]}]
          /\ UNCHANGED <<id, goal, span, base, seen, listed, crowded>>
       \/ Overlapping(span[s], id[s]) # {} /\ Retire(s)
    /\ UNCHANGED <<budgetVars, reportVars>>

Insert(s) ==
    /\ op[s] = "insert"
    /\ \/ /\ Alive /\ nReports < MaxReports
          /\ nReports' = nReports + 1
          /\ reports' = [reports EXCEPT ![nReports + 1] =
                [state |-> "draft", period |-> span[s], text |-> 0]]
          /\ RetireHaving(s, {nReports + 1})
       \/ /\ ~Alive \/ nReports = MaxReports
          /\ Retire(s)
          /\ UNCHANGED reportVars
    /\ UNCHANGED budgetVars

\* A row deleted meanwhile fails the UPDATE: nothing is written.
Change(s, row) ==
    /\ IF Exists(id[s]) THEN reports' = [reports EXCEPT ![id[s]] = row]
                        ELSE UNCHANGED reports
    /\ RetireHaving(s, IF op[s] = "move" THEN {id[s]} ELSE {})
    /\ UNCHANGED <<budgetVars, nReports>>

Move(s) ==
    /\ op[s] = "move"
    /\ LET row == reports[id[s]]
       IN Change(s, [row EXCEPT
              !.period = [from |-> Written(seen[s].period.from, span[s].from, @.from),
                          to |-> Written(seen[s].period.to, span[s].to, @.to)]])

\* The name, or, through report_line_services, the lines of a draft report.
Rename(s) ==
    /\ op[s] = "rename"
    /\ LET row == reports[id[s]]
       IN Change(s, [row EXCEPT !.text = IF @ < MaxEdits THEN @ + 1 ELSE @])

Remove(s) ==
    /\ op[s] = "remove"
    /\ Change(s, NoReport)

\* transition_status
Turn(s) ==
    /\ op[s] = "turn"
    /\ LET row == reports[id[s]] IN Change(s, [row EXCEPT !.state = goal[s]])

-----------------------------------------------------------------------------
BudgetStep(s) ==
    \/ BeginConfirm(s) \/ BeginRevert(s) \/ BeginPatch(s) \/ BeginRestore(s)
    \/ BeginEdit(s) \/ Confirm(s) \/ Revert(s) \/ Patch(s) \/ Restore(s)
    \/ Edit(s) \/ DeleteBudget(s)

ReportStep(s) ==
    \/ BeginCreate(s) \/ BeginUpdate(s) \/ BeginRemove(s) \/ BeginSubmit(s)
    \/ BeginReview(s) \/ BeginReopen(s) \/ Query(s) \/ Insert(s) \/ Move(s)
    \/ Rename(s) \/ Remove(s) \/ Turn(s)

Next == \E s \in Sessions : BudgetStep(s) \/ ReportStep(s)

Spec == Init /\ [][Next]_vars

-----------------------------------------------------------------------------
(* Properties.  Nothing locks the rows of a budget: what a request checked *)
(* may have changed when it writes.                                        *)

\* Two reports of a budget cover the same day.
Shared(i, j) ==
    /\ Exists(i) /\ Exists(j) /\ i # j
    /\ reports[i].period.from <= reports[j].period.to
    /\ reports[j].period.from <= reports[i].period.to

\* Not so for two requests at a time: "the non-overlap rule applies to all reports"
\* (list_overlapping_reports).
NoOverlap == \A i, j \in Ids : ~Shared(i, j)

\* Reports come to share a day only when another request wrote the period of one of
\* them behind the writer's back: after its overlap query, or, of the report it is
\* moving, after it was loaded.  Any other overlap is found and refused.
OverlapsAreRaces ==
    [][ \A i, j \in Ids : Shared(i, j)' /\ ~Shared(i, j) =>
          \E s \in Sessions : op[s] \in {"insert", "move"} /\ {i, j} \cap since[s] # {} ]_vars

Edges == {<<"none", "draft">>, <<"draft", "none">>, <<"draft", "submitted">>,
          <<"submitted", "approved">>, <<"submitted", "rejected">>, <<"rejected", "draft">>}

\* A report only ever moves draft, submitted, approved or rejected, and from
\* rejected back to draft; only a draft disappears, also when the budget is
\* reverted under it: however the two sides overlap, until one of them makes two
\* requests at a time.
Workflow ==
    [][ ~crowded => \A i \in Ids : reports'[i].state # reports[i].state =>
          <<reports[i].state, reports'[i].state>> \in Edges ]_vars

\* A decision is on the very report its reviewer loaded: period and content
\* have not moved since, whatever the other side does meanwhile.
ReviewsWhatWasRead ==
    [][ ~crowded => \A i \in Ids :
          reports'[i].state \in {"approved", "rejected"} /\ reports[i].state # reports'[i].state
             => \E s \in Reviewers : id[s] = i /\ seen[s] = reports[i] ]_vars

\* A confirmed budget has the start date from which its default reporting period
\* runs: no overlapping edit, confirmation or restore writes an older, empty one back.
StartDateKept == budget.status = "confirmed" => budget.dated

\* Not so for two requests at a time: a budget records since when it is confirmed.
ConfirmedIsStamped == budget.status = "confirmed" => budget.stamped

\* However confirms, reverts, edits and restores overlap, a step leaves the start date
\* with a confirmed budget, and the confirmation date too, unless it is a restore that
\* loaded that date before another request cleared it.
DatesKept ==
    [][ /\ StartDateKept'
        /\ ConfirmedIsStamped /\ ~ConfirmedIsStamped' =>
             \E s \in Owners : op[s] = "restore" /\ base[s].stamped /\ ~budget.stamped ]_vars

\* What a submitted or an approved report was written against stays as it
\* was: a confirmed budget is "frozen to keep reported figures accurate", and
\* cannot be reverted to draft under such a report.
ReportedFiguresFrozen ==
    [][ figures' # figures =>
          ~ \E i \in Ids : reports[i].state \in {"submitted", "approved"} ]_vars
=============================================================================
