# OpenGrantFlow: formal models

OpenGrantFlow is a grant-management system: grantees keep budgets and write
reports against them, donors review the reports, foreign-currency grants are
accounted in a ledger.  It is a set of Python services (FastAPI, SQLAlchemy
async, Postgres, Redis, RabbitMQ, Celery, object storage) and a React client.
This directory holds TLA+ modules of the parts whose correctness depends on the
order in which requests, commits and calls happen, and of the algorithms whose
results several parts must agree on; TLC runs that check them on small
instances; and TLAPS proofs for every value of the constants.

Paths below are relative to the repository root.

## 1. Inventory

Every service is one uvicorn process with many coroutines, next to Celery
workers and one consumer thread.  Services share Postgres (one database each),
Redis, RabbitMQ and object storage, and no memory.  A request has a database
session of its own; most `crud` functions commit, so one request is *several*
transactions, and at every `await` between and inside them any other request may
run.  The ORM adds two habits that matter everywhere: a session keeps the first
value it loaded of a row, and an UPDATE writes only the attributes that differ
from what was loaded.

| Part | State | Operations | What is hard about it |
|---|---|---|---|
| **Currency ledger** (`services/budget`: `currency_ledger_services.py`, `report_line_services.py`) | report lines, conversion lots, allocation rows; an advisory lock per budget | add, edit, delete a line; record a conversion; allocate first-in-first-out; back-fill waiting expenses | checks before the lock, five commits inside it, compensation after a failure, deletes that take no lock, cancellation |
| **Budgets and reports** (`budget_services.py`, `report_services.py`) | a budget's status and stamps, its figures, its reports with period and status | confirm, revert, archive, restore, edit, delete; create, move, rename, remove, submit, review, reopen | nothing is locked; long sequences of legal calls |
| **Who funds a budget** (`donor_grantees_services.py`, `customer_client.py`, `budget_services.py`) | approvals and company roles; a cache of customers; a budget's donor or free-text funder | approve, revoke, turn a role on and off; create and edit a budget | two services, a cache without expiry, a copy of the rule of the write |
| **Lines and categories** (`budget_category_services.py`, `budget_line_services.py`) | categories unique by name, lines filed under them | add a line under a name, rename, delete | the race of two creations inside a unit of work |
| **Attachments, bug reports** (`attachment_services.py`, `bug_report_services.py`, `post_notification.py`) | rows in Postgres, files in storage, notices in a channel | upload, delete, delete a line or a report; post | two stores, failure between them, retries |
| **Dashboards** (`dashboard_crud.py`, `currency_ledger_services.py`) | none | five queries over the same tables | joins and filters that disagree |
| **Migrations that rewrite data** (000014, 000019, 000020) | categories, lines; amounts | fork, merge; round, reconcile | they run once, on whatever there is |
| **Accounts** (`services/users`) | users, roles, sessions in Postgres; revocation marks and refresh keys in Redis | invite, accept, change a role, remove, leave, login, refresh, logout, reset and change a password | two stores, a row lock released early, requests that act on what they loaded |
| **Mailed links** (`auth_routes.py`, `user_routes.py`, `user_crud.py`) | addresses, one token column for three purposes | register, invite, resend, verify, change address, accept, forgot, reset, erase | links followed late or again, from rows loaded earlier |
| **Lockouts** (`login_rate_limiter.py`) | counters in Redis with an expiry | check, record, clear | a password check between check and record; Redis refuses |
| **Read model of users** (`event_publisher.py`, `event_consumer.py`, `event_handlers.py`, `user_cache.py`) | a copy of users in the budget service | publish, consume, fetch on a miss | events lost, requeued; a fetch racing an event; deaths |
| **Chat** (`orchestrator.py`, `conversation.py`) | conversations and messages | a turn: open, decide, call a tool, stream, save | an answer lost after its effect, a client that leaves |
| **AI providers** (`user_provider_key.py`, `provider.py`) | configs, one default, a fallback flag | save, set, replace, delete; resolve and send | a partial unique index, stale flags in a session, a policy |
| **Site assistant** (`site_chunk_sync.py`, `site_assistant.py`, `rate_limiter.py`) | indexed chunks, daily counters | index a release, answer a question | deaths between two indexings; caps under overlap |
| **Excel export** (`excel_export_service.py`) | none | read five tables, plan rows, write formulas | what is above refers to what is below |
| **Excel import** (`excel_import_service.py`, `spreadsheet_reader.py`, `workbook_limits.py`) | templates with a fingerprint | limit, clean, detect, replay, extract, create, save as template | replay by somebody else; workbooks that lie about themselves |
| **Issue tool** (`scripts/flow.py`) | `tasks.md` per checkout, issues on GitHub | init, sync, start, pr | a death at any call; renumbered groups |
| Worker start-up, mail clients, export templates, audit, currency names, client, deployment | see `PROJECT.json` | | single calls, append-only rows, configuration |

How they interact.  The client calls the services over HTTP with an access
token.  `shared/security/dependencies.py` lets a token in when Redis has no
revocation mark for its session: no service asks Postgres.  The users service
publishes events about its users; the budget service keeps a copy.  The budget
service asks the users service who a customer is and whether a donor approved a
grantee.  The chat service calls the AI service for a decision and the budget
service as a tool.  Mails and notices go through the worker.  Within the budget
service the ledger and the reports meet in the status of a report, which line
operations check; lines, attachments and figures meet in the status of a budget
or a report in the same way.

`PROJECT.json` lists all parts under `components`, and under `hazards`, line by
line, what a test would hardly reach, with the properties that cover it or the
reason why none does.

## 2. Modules

| Module | What it is | Checked through |
|---|---|---|
| `CurrencyLedger` | the ledger of one budget | `MCCurrencyLedger` |
| `LotAccounts` | what a ledger promises: accounts from which money is taken and given back | refinement in `CurrencyLedger` |
| `BudgetReports` | one budget and its reports | `MCBudgetReports` |
| `CompanyAccounts` | users, roles and sessions of one company | `MCCompanyAccounts` |
| `UserEvents` | one user, the queue, and the copy in the budget service | itself |
| `FunderLinks` | approvals, the cache of customers, the funder of one budget | `MCBudgets` |
| `BudgetLines` | categories and lines of one budget | `MCBudgets` |
| `Attachments` | files and rows of one report, bug reports and their notices | `MCBudgets` |
| `FundingFigures` | five sums over the ledgers of several budgets | `MCBudgets` |
| `BudgetMigrations` | migrations 000014, 000019, 000020 | `MCBudgets` |
| `MailLinks` | addresses, tokens, mails | `MCServices` |
| `Lockouts` | one bucket of the rate limiter | `MCServices` |
| `ChatTurns` | conversations and turns | `MCServices` |
| `AiProviders` | the provider configs of one customer | `MCServices` |
| `SiteAssistant` | the index and the caps of the public assistant | `MCServices` |
| `ExcelExport` | the three sheets, planned and evaluated | `MCFiles` |
| `ExcelImport` | sheets, templates, imports | `MCFiles` |
| `WorkbookLimits` | the checks on an uploaded workbook, and the reader behind them | `MCFiles` |
| `FlowTool` | `tasks.md` of every checkout, and the sub-issues | `MCFiles` |
| `CurrencyLedgerProofs`, `CompanyAccountsProofs`, `BudgetReportsProofs`, `UserEventsProofs`, `BudgetsProofs`, `ServicesProofs`, `FilesProofs`, `SumTheorems` | the theorems of all modules, and of sums | `tlapm` |

`MCBudgets`, `MCServices` and `MCFiles` instantiate parts that share *no* state.
A behaviour is one of one part: the variable `part` is chosen at the start, the
variables of the other parts have no value, and every action is guarded by its
part.  So one run explores the *sum* of the state spaces of its parts; nothing
is lost, since parts without common state cannot disturb each other.  `MCBudgetReports`
and `MCCompanyAccounts` add up instances of *one* module in the same way: which two
sessions make requests (`party`), or which workers serve admins (`desk`), is chosen at the
start, each choice with bounds of its own.  Composed
systems, where components do share state, are modules of their own: the users
service with the budget service (`UserEvents`, `FunderLinks`), the chat service
with the budget service (`ChatTurns`), services with storage, broker and worker
(`Attachments`), Postgres with Redis (`CompanyAccounts`).

In each module a definition headed "Mutant:" is not part of the specification.
It is a variant of the definition after it, with a plausible bug, and stands
there to show that a property notices.

### CurrencyLedger

A constant number of `Requests` work on one budget.  `pc[r]` says how far a
request has come; each step from one `pc` to the next is one commit (or one
read) of the code:

| Action | Code |
|---|---|
| `BeginCreate`, `BeginUpdate`, `BeginDelete`, `BeginConvert`, `BeginDrop` | what a service function checks and loads before it takes the lock |
| `Acquire`, `Release` | `budget_ledger_lock`: `pg_advisory_lock` on a second connection, unlocked in `finally` |
| `InsertLine`, `WriteAmount`, `InsertLot`, `WriteFails` | the first commit under the lock |
| `Clear` | `delete_allocations_for_report_line` |
| `ReadLots`, `ReadLines` | `list_unconsumed_lots`, `list_unsatisfied_report_lines` |
| `Draw`, `DrawDone` | one turn of the loop of `_consume_fifo`, each with its commit |
| `DrawFails`, `ReadFails` | the row went away meanwhile |
| `CompensateCreate`, `CompensateUpdate`, `Poison` | the `except` blocks: with a session that still works, and with one that a failed flush has invalidated |
| `Die` | the task is cancelled or its process dies: no handler runs, Postgres drops the lock with the connection |
| `DeleteLine`, `DropReport`, `DeleteFails` | deletes with their cascades; they take no lock |
| `SubmitReport`, `ReopenReport` | the report's workflow, as far as its lines can tell |

Two details carry most of the behaviour.  `WriteAmount` compares with the amount
*loaded before the lock*, because SQLAlchemy issues no UPDATE for an attribute
set to the value it was loaded with.  And the lock holder works with balances it
read once (`pend`), as `_consume_fifo` iterates over a list fetched earlier.

`drawn[k]` is the aggregate `SUM(amount_allocated) GROUP BY conversion_id`, kept
with its partial sums over the lines, so that a step says how it changes without
any recursion; the invariant `EveryDrawTraces` compares it with the sum itself.

### BudgetReports

One budget, its reports, one session per concurrent request of the owner or the
funder.  A request first loads what it checks (`Load` keeps the snapshot in
`base`, `seen`, `listed`) and commits later against rows that may have changed;
`Written(old, new, current)` is the unit of work, which writes an attribute only
when it differs from the snapshot.  Creating or moving a report has three steps:
load and check, the overlap query, the write.  Metadata, lines and categories of
a budget are one version number (`figures`), the content of a report is another
(`text`).  The history `since[s]` records the reports whose period others wrote
between what session `s` read of them and its own write; it lets a property tell
an overlap that the query should have found from one that it could not see.  The
history `crowded` records that a side has had two requests under way at a time, which is
where the workflow of a report may be broken.

### CompanyAccounts

The users of one company and a number of `Workers`, of which those in `Office`
serve admins.  A session is a row in Postgres (`rows`) and, once revoked, a mark
in Redis (`marked`); the refresh keys are `cached`, the access tokens handed out
are `claims`.  `req[w]` is the request of worker `w` and the step it has reached:

- an admin's role change or removal: load the target, lock the customer's row
  and count the other admins (`LockAndCount`), revoke the target's sessions in
  one commit (`Revoke`, which ends the transaction and hence the lock), mark
  them one by one in Redis (`Mark`, which swallows a refusal of Redis), write the
  role or the deletion;
- deleting one's own account: the same without lock and count;
- logout, revoking one session: `Drop` and `Mark`; a changed password drops all
  others one after the other (`ListOthers`, `Drop`, `Mark`); a reset revokes all
  (`Revoke`, `Mark`);
- login in two steps (load and verify; open a session), refresh in three (GET of
  the key; DELETE and load; rotate).

`secret` counts the passwords of a user.  A session's row has two of these numbers:
`proved`, the password that its login verified, and `born`, the one in force when the
row was inserted, since a login verifies first and inserts later.  Two histories
record what the properties except: `missed`, the marks that Redis refused, and
`overtaken`, that an admin's request was counted for when the others were being taken.

### UserEvents

One user, since users meet only in the queue.  `Service(w)` is a request to the
users service: load, commit, publish the payload of the session's own object (so
a stale attribute may be published).  The broker may lose the event, or the
service die before it publishes.  `Consumer` takes the head of the queue,
handles, commits and acknowledges in separate steps; a failed event goes back to
the head.  `task` says what there is of the consumer: it `"runs"`, it has `"ended"`
in a process that lives on (`ConnectionLost`: `start` raises, the task was started in
`main.py` and nobody awaits it), or its process is `"dead"` (`ConsumerDies`).  Either
may strike between commit and acknowledgement, and the message is then handed out
again; only a dead process is started again (`Restart`).
`Reader(r)` is a request of the budget service that misses the user,
fetches it over HTTP, looks again, and writes what it got.

### FunderLinks, BudgetLines, Attachments

`FunderLinks`: `BeginCreate`/`BeginUpdate`/`LoadBudget` load, `CanFund` and
`CanOwn` ask about the donor and the owner through the least-recently-used
`cache`, `Relate` asks for the approval (never cached), `Insert`/`Update` write.
`Effective` is `_effective_funder_after_update`, the copy of the rule by
which `Update` writes.

`BudgetLines`: `FindCategory` (SELECT), `InsertCategory` (the savepoint; it waits
for an uncommitted row of the same name, and goes to `RereadCategory` when that
row commits), `AddLine` (the commit of both), against `Rename`, `Delete` and
`DeleteLine`.

`Attachments`: `SaveFile` then `InsertAttachment`; `DeleteRow` then `DeleteBlob`;
for a line, `DeleteFiles` then `DeleteLine` with its cascade; a bug report is
`SaveScreenshot`, `CreateBugReport`, `Enqueue`, and the worker's `Post`, tried
again up to `max_retries`.  Every step may fail.

### FundingFigures, BudgetMigrations

`FundingFigures` has one operator per query over the tables
`budgets`, `received`, `converted`, `spent`; the actions are the writes that
reach those tables, and the invariant `FiguresAgree` evaluates all queries in
every reachable state.

`BudgetMigrations` starts from *any* small database the old schema admits and
runs the statements one by one.  `Rounded` is `ROUND(x, 2)` on integers counted
in parts of the last digit kept; `ClawBack` is the one UPDATE that takes a
group's excess from its largest row.

### MailLinks, Lockouts

`MailLinks`: a request is a load (`Begin…`), a `Write` that merges the changed
attributes into the row there is by then, for a new account a second commit for
its token (`IssueToken`), and the mail (`Send`, which the broker may refuse).
`mails` is a set: a link can be followed late, again, or never.  The token of a link
to verify an address and that of an invitation are in one column, and each of the two
endpoints takes either.  `proven` records
who followed a link that was mailed to which address, `crossed` whose row got a token
while another address waited there than the request knew of.

`Lockouts`: the limiter's calls to Redis are synchronous, so a check or a record
is one step; a request lets others run while it verifies a password, between
`Start` and `Wrong` or `Right`.  Each increment and each expiry may fail, and
the process may die between two.

### ChatTurns, AiProviders, SiteAssistant

`ChatTurns`: `Open` (find or create the conversation, load its history),
`Decide`, the tool call with three outcomes (`ToolDone`, `ToolRefused`,
`ToolAnswerLost`: the budget was changed, or not, and the answer did not
arrive), `Stream`, `Save`, `Show`; `ClientLeaves` may end a turn at any await.
`deeds` records what was done in the budget service.

`AiProviders`: each settings request is a transaction of statements (`Begin`,
`ReadCurrent`, `Unset`, `Write`, `Commit`) that locks the rows it writes and
trips over the partial unique index; `Resolve`, `FallBack` and `Send` are the
calls that use a config; the platform itself may have no key to fall back to.

`SiteAssistant`: `Deploy` starts a release, `IngestPages` and `IngestGuides` sync
the index (or fail, and the service serves anyway), `Ask`, `Retrieve`, `Count`,
`Model` are a question; `Midnight` turns the counters.  A cap of 0 is no cap, as in
`rate_limiter.py`.

### ExcelExport, ExcelImport, WorkbookLimits, FlowTool

`ExcelExport`: `ReadBudget` … `ReadExpense` are the queries, each of which may
see rows that an earlier one did not; `OriginalSheet`, `DashboardSheet` and
`ExpenseSheet` are the cells with an amount, or a formula
for one: the percentages, the dashboard's local balance, and the ledger's local total and
rates are left out.  `Evaluated` says what one cell is worth given the values of the others,
and `Values` evaluates all cells of a sheet as a spreadsheet would.

`ExcelImport`: `Prepare` cleans a sheet, fingerprints it and replays the columns
of a template that matches, `Extract` lets the model read the rows with a number
and swaps the columns as the code does.  That answer is exact (`Extractions`: one
labelling of the two columns for the whole sheet, a total that is right or absent,
both columns of the map named or neither), so the property is about what the code does
with an answer, not about what a model may get wrong. `Create` then makes the budget, `SaveTemplate`
and `NameTemplate` are the two commits of saving it.

`WorkbookLimits`: an archive and a sheet are put together element by element;
`Check` is `check_workbook_limits`, and `ReadAt` is where the reader then puts a
cell.

`FlowTool`: one command at a time runs against GitHub, `sync` step by step with
`Die` between any two calls; `EditTasks` renumbers groups, in one checkout or the
other.

## 3. Runs

"Pass" runs explore their whole bounded state space without an error.

| Run | Instance | Shows |
|---|---|---|
| `ledger_all` | 2 requests, 2 creations, an edit, a conversion, a delete, a drop, amounts -1, 1, 2, one failure or death anywhere | no lot is overdrawn (`NoDoubleSpend`), allocations belong to lines and lots there are and add up (`EveryDrawTraces`), every step is one of `LotAccounts` (`AccountsSpec`) |
| `ledger_orderly` | 2 requests, one of them edits, 2 creations, 2 conversions on 2 days, one failure or death | allocations follow edits (`LineInSync`), money does not idle (`NoIdleFunds`), oldest first (`OldestFirst`), a request ends (`RequestsEnd`, under fairness) |
| `budget_turns` | 2 requests at a time, 2 days, one edit: of the owner and the funder, who both create, 2 reports; or both of the owner, 2 reports of one day, or a report and an edit | reports share a day only by a race (`OverlapsAreRaces`); a confirmed budget keeps its start date, and loses its confirmation date only by a race (`DatesKept`); `Workflow`, `ReviewsWhatWasRead` |
| `accounts` | 2 workers, marks that Redis refuses; no admin requests, 2 users, 2 sessions, 3 refresh tokens, 2 passwords; or one worker for admins, 2 refresh tokens, one password; or both for admins, 3 users of whom one is invited and may leave, one session | the two stores of sessions agree (`RevokedEverywhere`), a reset or a change ends the sessions of older passwords (`ResetShutsOut`), the last admin is lost only in the gap between two requests (`AdminLostInTheGap`) |
| `copy_events` | 2 writers, a reader, 3 requests, 3 names of which one is too long for the copy, one lost event, one failure of the handler, the connection or the process | once caught up the copy is the last word of the events (`CopyIsLastWord`), shows only committed fields (`FieldsWereTrue`); a consumer whose task still runs catches up, or an event that the copy cannot take heads the queue (`CatchesUp`, under fairness) |
| `budgets` | five parts: 1 donor and its grantee, 2 requests; 3 requests on 2 category names and 2 lines; 2 uploads, 2 deletions, a bug report, a fault; 2 budgets with 3 ledger rows; 2 categories shared by 4 lines of 3 budgets, and ledgers of 2 expenses and 2 lots | `LinksHold`, `AddsGoThrough`, `FilesAreThere`, `FiguresAgree`, `MigrationsKeep` |
| `services` | five parts: 2 people, 2 addresses, 3 tokens, 5 requests, 2 at a time; 2 tries, a limit of 2; 3 turns in 2 conversations of 2 companies; 3 configs, 3 settings requests, a call; 2 sections, 2 questions, caps of 2 and 1; a fault in each | `LinksProve`, `LockoutsHold`, `TurnsAreRecorded`, `AtMostOneDefault`, `DefaultTakesEffect`, `PromptsGoWhereAllowed`, `AnswersAreOfTheRelease` |
| `files` | four parts: 1 category, 2 lines, 2 expenses; 2 imports and 2 savers; limits of 2 or 3, 3 elements; 3 groups, 2 checkouts, 3 issues, 2 edits, a death | `TotalsAddUp`, `ReplayAgrees`, `ReadIsBounded`, `Tracked` |

Each also checks the one type invariant `TypeOK` of its module, or of all its
parts, where the module is not covered by another run.

The remaining runs each check one property that the repository states and that
its code does not keep; TLC prints the interleaving.  `PROJECT.json` quotes the
statement and its line under `findings`.

| Run | Property | What happens |
|---|---|---|
| `ledger_edits` | `LineInSync` | two edits overlap; the second writes no UPDATE (it asks for the amount it loaded) and allocates that stale amount |
| `budget_figures` | `ReportedFiguresFrozen` | confirm, report, submit, archive, edit, restore: legal calls of one user |
| `accounts_admins` | `HasAdmin` | two admin requests: revoking sessions commits, and so releases the lock, before the role is written |
| `copy_erasure` | `ErasureReachesCopy` | erasing a user publishes nothing; the budget service goes on showing the name |

### Stated and not met, without a run

Some definitions state what a docstring, a comment or a document promises, and
the code keeps it only in part.  Each stands in its module with a comment that
says when it fails ("Not so …"), TLC refutes it, and no run repeats that:

| Definition | What happens |
|---|---|
| `CurrencyLedger!SubmittedFrozen` | a report is submitted while a line waits for the lock |
| `BudgetReports!NoOverlap` | the owner and the funder create a report each, or two tabs do: both overlap queries precede both inserts; the design of the feature accepts it |
| `BudgetReports!ConfirmedIsStamped` | a revert to draft is under way while the budget is archived; a restore loads it with its confirmation date, the revert clears the date, and the restore writes the status alone, for its session takes the date to be there |
| `BudgetReports!Workflow`, `ReviewsWhatWasRead` once `crowded` | two reviewers decide on one report, or two tabs of the owner change it: each writes over what it loaded |
| `CompanyAccounts!ResetShutsOut`, `RevokedEverywhere` without their exceptions | a login that had verified the old password opens its session behind the reset; Redis refuses a mark, which is logged and forgotten |
| `CompanyAccounts!NoStaleRole` | a login between the revocation of sessions and the write of the role |
| `CompanyAccounts!Renewable` | a rotated refresh token whose key never reached Redis |
| `UserEvents!CatchesUp` without its exceptions | an event that can never be applied stays at the head of the queue; a lost connection ends the consumer's task for as long as the process lives |
| `MailLinks!LinkFindsOneAccount` | two accounts wait for one address; its links find two rows |
| `MailLinks!AddressProven` of the `crossed` | a resend loaded before the account was confirmed, or one of two changes that overlap, puts its token on a row where another address waits; its link confirms that one |
| `MailLinks!InvitationStands` with the resend form | somebody fills in the form for an invited person; the new token replaces the invitation's, and its link confirms the address but leads to no password |
| `MailLinks!InvitationStands` of a row that is verified | an invitation's token is posted to the endpoint that verifies addresses; that spends it, and the invited person never got to choose a password |
| `MailLinks!ErasedStaysAnonymous` | a change of address that was under way writes after the erasure |
| `Lockouts!EveryLockoutEnds` | the process dies between INCR and EXPIRE, and the counter stays |
| `ChatTurns!OldestFirst` | both rows of a turn carry one stamp, so their order is not determined |
| `AiProviders!DeniedMeansNoProvider`, `SetBecomesDefault` | a call that resolved earlier; a stale flag in the session that issues no UPDATE |
| `ExcelImport!SavedUnedited` | "unedited" is a count and stamps, read before the template is saved |
| `ExcelExport!SheetsAgree` | without an estimated rate the two dashboards deduct differently |
| `FlowTool!NoDuplicate` | a branch synced before the groups of main were renumbered |
| `FunderLinks!FunderStep` of a request that others overtook | two edits, each of one attribute, leave neither donor nor name |
| `Attachments!RowsHaveFiles` beyond `doomed`, and its converse | a failed deletion of a line leaves rows without files; failures leave files without rows |

### Bounds, and why they are enough

*Ledger.*  An interleaving needs two requests; everything a third could do to
one of them the second does as well, since requests meet only in the tables and
in one lock.  Two lines and one lot are the least in which lines compete; the
orderly run adds a second lot and a second day, the least in which lots have an
order that differs from that of insertion.  Amounts 1 and 2 give part, exact and
excessive cover; -1 stands for what `Money` lets through.  A second failure
would hit a request that the first has already ended or the other request, which
is symmetric.  The theorems drop all of these bounds for the properties they
name.

*Budgets and reports.*  Two days give disjoint, touching and equal periods; two
reports are the least that overlap; the owner and the funder overlap in all their
requests.  One edit is enough for a property that says "changed".  The budget's
status and stamps are the owner's alone, so two requests of the owner overlap as well:
with two reports of one day, which is enough for them to collide, or with a report and
an edit of the figures (`TabWrites` and `TabDay` in `MCBudgetReports`).  With these
`Workflow` and `ReviewsWhatWasRead` claim nothing once they are `crowded`; the other
properties do.

*Accounts.*  Two users are the least with a last admin and another; two sessions
the least with one to keep and one to end; three tokens allow a login and a rotation
of either session.  When
a bound on sessions, tokens or passwords is used up the request ends as it would
after an error.  Passwords, sessions and the number of admins need few of each other's
requests, so each has the instance that `desk` chooses: with nobody for admins there is a
second password; with one there are two tokens; with two there is a third user,
the least with whom a request may count somebody that another one is
taking and still leave an admin, and sessions are only opened and revoked.

*Read model.*  Three requests give an event before, between and behind two
others; two writers overlap; one fetch races any of them; one loss and one
failure hit every place, and after a second one the consumer is where the first
left it.  Of three names two fit, so that one can replace the other, and one does not.

*Budgets run.*  One donor is linked or not, and swapped with a free text; a cache
of one entry evicts at the second customer.  Three writers are the least in which
one inserts, one waits for it and a third renames or deletes.  Two uploads,
two deleters and one fault give every pair of steps of two requests.  Figures
need two budgets (of one donor and another, of one currency and another) and
three rows (one of each table, or two of one).  Three budgets share a category
before it is forked; four lines are the least with a shared category of two
budgets next to a twin name in a third.  Two expenses and two lots give groups of one and
two allocations; a group of three is not in the bounds, nor in the theorem.  Allocations of 1, 2 and 6 quarters of the
last digit round down, half up and half up past one.

*Services run.*  Two people and two addresses are the least in which an address
is claimed twice; five requests reach from the registration of one, by a resend that
overlaps the confirmation and by a change of address, to a second confirmation (with
four, the `crossed` never meet a link).  A limit of two wrong tries with two at a time overshoots
by one.  A history of two messages is one turn, so that a third turn shows which
one it drops.  Three configs: the old default, the new one, one that the policy
does not approve.

*Files run.*  Every cell of a sheet depends on at most two lines and two expenses
at a time; lines cost 4 or 8, the estimated rate is 2 or none; allocations are none,
one, two, with and without a rate.  Three
elements put a cell before, in and behind a row; limits are small enough for
every check to refuse.  Two sheets share a layout, one with a negative total, which turns
the comparison of `ShouldSwap` about; the third has none of it.  Three groups in two checkouts allow a renumbering that
one checkout has not seen.

`CHECK_DEADLOCK FALSE` is given everywhere because the bounds on operations make
every instance come to rest; in the code a service rests when nobody calls it.
`SYMMETRY` is used where model values are interchangeable and no liveness
property is checked; values are shared between parts (`x1`, `y1`) only to keep the
group of permutations small.

### Fairness

Only `ledger_orderly` and `copy_events` assume any.  In the ledger a started
request goes on (`WF` of its steps): the event loop runs every ready coroutine.
A waiter gets the lock if it is free again and again (`SF` of `Acquire`):
Postgres queues the waiters of an advisory lock and wakes them in order, so
nobody is overtaken for ever.  In the read model a
consumer that runs goes on, and a process that died is started again, since
`docker-compose.prod.yml` has `restart: unless-stopped`; that requests publish is not
assumed, for what is not published need not be handled.  A lost connection is
another matter: `event_consumer.py:138-147` lets it end a task that `main.py:85`
started and nobody watches, the process lives on, and no policy restarts it.  So
nothing is assumed of a task that has ended, and `CatchesUp` excepts it.  No fairness is
assumed of clients, of failures or of the report's workflow.

## 4. Proofs

All proofs are checked by `tlapm` to the last leaf.  They assume of the constants
what the modules assume and hold for any number of requests, lines, lots, users,
workers, sessions, tokens, reports, days, names, categories, donors, uploads,
provider configs, turns, questions, sheets, archives, groups, calls and failures.
The assumptions say that finite counts are naturals, that amounts are integers
(naturals in `FundingFigures`), and that a mark such as `none` or `NoRequest` is
none of what it stands in for.  These say more:

- `LockoutsAssumption`: the tries are finitely many and at least one is allowed.
- `ChatAssumption`: `HistoryLimit` is even and not 0, as the code's 50 is.
- `AssistantAssumption`: the questions under way are finitely many.
- `FiguresAssumption`: the kinds of budgets are finitely many.
- `ExportAssumption`: a rate is a natural, 0 standing for none, and the price of a line is
  a multiple of every estimated rate.  A workbook divides with decimals and the module
  has integers, so this keeps the one division exact whose quotients are added up and
  compared with the quotient of the sum.  The expenses of a donor are converted row by
  row on every sheet alike, and their amounts and rates are arbitrary.
- `ImportAssumption`: a sheet is a sequence of rows of a text and two cells,
  whose amounts are any integers: `_parse_amount` keeps a minus.
- `LimitsAssumption`: limits and sizes are naturals, a range is a pair of positions.
- `FlowAssumption`: the main checkout is one of the checkouts.

Modules that are checked through `MCBudgets`, `MCServices` and `MCFiles` name their
assumption as a definition, and the instance assumes it of its own constants.

The proof modules of these three are about the definitions that the runs check.  An
invariant of the instance is the conjunction of `part = "…" => …` over its parts;
each part has an inductive invariant of its own over the variables of its module,
with a lemma for its start, one for its steps and one for what follows.  A last group
of theorems says the same of each module alone, without the variable `part`:
`FunderLinksCorrect`, `BudgetLinesCorrect`, `AttachmentsCorrect`,
`FundingFiguresCorrect`, `BudgetMigrationsCorrect`, `MailLinksCorrect`,
`LockoutsCorrect`, `ChatTurnsCorrect`, `AiProvidersCorrect`,
`SiteAssistantCorrect`, `ExcelExportCorrect`, `ExcelImportCorrect`,
`WorkbookLimitsCorrect`, `FlowToolCorrect`.

**`CurrencyLedgerProofs`**

- `TypeCorrect`: `Spec => []TypeOK`, by `TypeOK` and what each request works on
  at each `pc` (`JobInv`).
- `NeverDoubleSpent`: `Spec => []NoDoubleSpend`.  `NoDoubleSpend` is not
  inductive: a draw is safe because the balance read a while ago is still there.
  `IInv` adds that only the lock holder is in the critical section (`LockInv`),
  that partial sums are monotone (`SumInv`), that nothing is drawn from lots that
  do not exist (`FreshInv`), and that each lot the holder has yet to visit has
  *at least* the balance it saw (`PendInv`).  Deletes without the lock only raise
  balances, which is why they are harmless here.
- `LedgerImplementsAccounts`: `Spec => AccountsSpec`.  Every step of the ledger
  takes from one lot what it has, gives back a whole line, gives everything back,
  opens a lot, or changes nothing an account holder sees; from the same `IInv`.
- `AllocationsTrace`: `Spec => []EveryDrawTraces`.  `SumInv` keeps `drawn` and
  `covered` in step with `alloc`; that such running sums are the sums of the rows
  and of the columns, taken with the library's `SumFunctionOnSet`, is shown with
  `SumTheorems`.

Three more hold under conditions, and the conditions are their
hypotheses: `OneEditor` (one of the requests may edit; `ledger_edits` breaks
`LineInSync` with two) and `NothingDeleted` (a delete takes no lock, so it can free
money in a lot that the lock holder has passed over).  All build on `IInv`, on
`NewInv` (a line not inserted yet has nothing) and on
`AmountInv`: what the holder has left to allocate and what its line has make up the
amount it works with, and each line it has yet to pay waits for what it was read to
wait for.

- `EditsFollowed`: `OneEditor => (Spec => []LineInSync)`.  `SyncInv`: while nothing
  failed the edit's `prev` is what the line is worth, so an edit that issues no
  UPDATE allocates the right amount; a line is out of step only between the edit's
  write and its clear.
- `DrawnOldestFirst`: `NothingDeleted => (Spec => OldestFirst)`.  `KeptInv`: what the
  holder has yet to visit is *all* that has money left (or waits), with exactly the
  balance read; so whatever is older than the visited entity is empty.
- `NothingIdles`: `Spec => []NoIdleFunds`, whose own condition is that only new lines
  and conversions were begun and nothing failed (`Quiet`).  `QuietInv`: a line and a
  lot that should have been brought together (`Apart`) are in the hands of the lock
  holder (`Bringing`), which has either the line or the lot as its target; it lets
  go only when it has nothing left to give or nothing left to visit.

**`CompanyAccountsProofs`**

- `TypeCorrect`: `Spec => []TypeOK`, with `JobInv`: which fields of a request
  mean something at which step.
- `StoresAgree`: `Spec => []RevokedEverywhere`, with `MarksInv` (what is on a
  request's list to mark is revoked in Postgres).  What Redis refuses to mark is in
  `missed`.
- `ResetsShutOut`: `Spec => []ResetShutsOut`.  The property speaks of a request
  that is under way; the invariant `ResetInv` says which outdated sessions it will still
  reach (`Ends`): all of the user's for a reset that has yet to revoke, all but
  its own for a change that has yet to list, those on its list afterwards.  A
  session opened after the new password is `born` under it, whatever it `proved`.
- `AdminRemains`: `Spec => []AdminLostInTheGap`, for any number of admin requests at a
  time and with no hypothesis.  `AdminInv`: unless a request was `overtaken` or somebody
  left, there is an admin whom nobody is about to take, that is, who is not `Doomed` by a
  request past its count.  A count that passes leaves such a one or sets `overtaken`;
  that no other step dooms or removes one needs `LockInv` (a request holds the lock
  until it has revoked), `KnownInv` (who is invited was in nobody's hands) and
  `LeaveInv`.  So the race of `accounts_admins` is the only way to lose the last
  admin.

**`BudgetReportsProofs`**

- `TypeCorrect`: `Spec => []TypeOK`, by `Types`, which adds what a session in the
  middle of each request holds (`Job`).
- `StartDates`: `Spec => []StartDateKept`, for any number of sessions of each side.
  `DateInv`: a date that a session loaded is still there, and a restore that will
  confirm loaded a date and a stamp.
- `DatesAreKept`: `Spec => DatesKept`, from the same invariant.  Each way to confirm is
  taken apart by what its session loaded, and all but that restore write the stamp or
  find it.
- `PeriodsApart`: `Spec => OverlapsAreRaces`, for any number of sessions, whoever
  creates reports.  `PeriodInv`: the reports that share a day with what a session is
  about to write are among those `since` remembers, for its query found no other.
- `WorkflowKept`, `ReviewsOnWhatWasRead`: the two action properties, for any number of
  sessions, until one side makes two requests at a time.  `FlowInv`: each side makes one
  (`Alone`), and each state of a report belongs to the side that may leave it, so that a
  report under review is still what was loaded; the invariant is `crowded \/ FlowInv`.
  The condition is needed, since nothing is locked: a report loaded by one tab is written
  by another.  It leaves what the properties are about, an owner and a funder who work
  on one report at the same time.

**`UserEventsProofs`**

- `TypeCorrect`: `Spec => []TypeOK`, by `Types`, which adds what a writer, the
  handler and a reader hold at each step (`Ready`).
- `FieldsTrue`: `Spec => []FieldsWereTrue`.  `TrueInv` extends the claim to every
  place a row can be: what a request will publish, the queue, the message in hand,
  what was fetched.  A merge draws its fields from both its rows (`DrawnMerge`);
  the object of a session, which may be older than the row, shows what it loaded
  or what it committed (`DrawnObject`).
- `LastWordShown`: `Spec => []CopyIsLastWord`.  The property folds the queue over the
  copy; the invariant `WordInv` says without a fold what comes of it (`Said`): the
  last update in the queue counts, else the row if there is one, else the first
  creation.  Its second half is why a requeued message does no harm: what the handler
  found is still the row, and what it has done is what doing it again would do, unless
  an update waits that will overwrite both.

**`BudgetsProofs`** (the instance `MCBudgets`)

- `BudgetsTypeCorrect`: `Spec => []TypeOK`.
- `LinksAreApproved`: `Spec => LinksHold`.  `FunderInv`: everything approved now has
  been approved `since` a request began, and a donor that a request is about to link
  is among what it saw approved; revocations in between are what `since` remembers.
- `EveryAddGoesThrough`: `Spec => AddsGoThrough`.  `LineOwnInv`: a category that is not
  committed has a number of its own and no row that others see, so nobody's commit
  takes it over.  `LineFoundInv`: what a request found, or waited for as the winner, is
  still there unless the request is among the `disturbed`; so the second look after
  a lost savepoint finds the winner.
- `FilesStored`: `Spec => []FilesAreThere`.  `FileInv` adds what an upload, a deletion
  and a bug report have in hand: a file is written before its row and removed after
  it, and a notice goes out for what is stored.
- `FiguresShownAgree`: `Spec => []FiguresAgree`.  The five queries filter, join and
  group in different orders; `SumTheorems` turns each into the sum over the same
  rows (`SumUnion`, `SumByKey`, `SumOfSums`).
- `MigrationsKeepData`: `Spec => []MigrationsKeep`.  `MigrationScopeInv` follows 000014
  through its loops: every line has a category of the name it had, categories still
  shared have no copy yet, and a line that is off the shared category is in one of
  its own budget.  `MigrationRoundInv` follows 000019 and 000020: rounding takes a
  group at most one over its cap, and only a group with two allocations; each
  correction takes one unit off one allocation.

**`ServicesProofs`** (the instance `MCServices`)

- `ServicesTypeCorrect`: `Spec => []TypeOK`, by what a request has loaded, what is
  left for it to send and what a turn, a try or a question holds at each step.
- `LinksProven`: `Spec => []LinksProve`, that is `AddressProven` and
  `InvitationStands`.  For the first, `LinksMailedInv`: a token that still opens a
  row was mailed, or will be, to the address that waits there, if one does;
  `LinksFollowedInv`: so was the token of a link that is being followed.  Both speak
  of rows that are not `crossed`, and a step that would break the first is exactly
  one that makes its row `crossed`.  For the second, `LinksStandInv`: who waits with an
  invitation has neither password nor verification (`LinksWaits`),
  and the token of their row is due from one request, or every mail with it is the
  invitation (`LinksInviteInv`).
- `LockoutsAreBounded`: `Spec => []LockoutsHold`.  `LockCounts`: while Redis refused
  nothing, the counter of an address is the number of its wrong tries, and the tries
  under way, all of which passed the check, fit beside it.
- `TurnsRecorded`: `Spec => []TurnsAreRecorded`.  `ChatSaved`: the rows of a turn are
  saved both or not at all, with one stamp that no other turn has; `ChatReads`: so
  the newest `HistoryLimit` rows of a conversation never split a turn, and what is
  left out is older; `ChatDoes`: what is recorded of a tool was done.
- `OneDefault`: `Spec => []AtMostOneDefault`.  The property says nothing of what is
  not committed yet.  `AiIndexInv`: one request at a time has turned a default on, and
  *every* committed default is then among the rows it turned off or removed.
  `AiHeldInv` (a written row is held by one request until it ends) keeps others from
  touching them.
- `DefaultsTakeEffect`: `Spec => DefaultTakesEffect`, from the same invariant: at
  the commit the default is what this request turned on and did not remove.
- `PromptsAllowed`: `Spec => []PromptsGoWhereAllowed`, by what a call has resolved at
  each step.  A call resolves once and keeps what it resolved, so it
  is independent of the tables.
- `AnswersGrounded`: `Spec => []AnswersAreOfTheRelease`.  `SiteIndexed`: the pages
  are in step before the guides are begun; `SiteAnswers`: the index changes only while
  nobody asks, so what was found is there still; `SiteCaps`: the calls made and the
  counted questions that have yet to reach the model fit under the cap together, where
  there is one.

**`FilesProofs`** (the instance `MCFiles`)

- `FilesTypeCorrect`: `Spec => []TypeOK`.
- `ExportsAddUp`: `Spec => []TotalsAddUp`, for any number of categories, lines, expenses,
  receipts and allocations.  The state invariant is short, since the tables only
  grow: `ExportInv` says what they hold.  What the workbook makes of them is shown of the
  operators, in three layers.
  *Places* (`NoCellTwice`): the blocks of a sheet follow each other (`AfterBlocks`), a
  row belongs to one block and within it to one line, subtotal or title, so the
  place of a cell says what was planned for it, and `Indexed` is the plan itself.
  *Values*: `Values` is a recursive function over cells.  That one exists is shown once
  for all plans in which cells can be ranked so that every cell refers only to cells of a
  lower rank; each sheet is then given its ranks (numbers, lines, subtotals, summary,
  totals, what is derived from a total), and every cell is worth what `Evaluated`
  makes of it.
  *Sums*: the rows between the first and the last of a block are its lines; the lines of
  the blocks, the one of unknown categories included, are all lines, each once, so the
  sum of the subtotals is the sum over the table; a `SUMIF` adds up the rows of the list
  with the number of a line, and these over the lines shown are the rows of known lines;
  the rows of an expense sum to its amount whether it is allocated in part, in full, in
  several lots or not at all.
- `ReplaysAgree`: `Spec => []ReplayAgrees`.  `ImportInv`: an import that knows its
  column holds lines with the amounts that a replay of the column has
  (`ImportRepeats`); the template, the budget it was saved from and that budget's
  import agree on the column, and the import of a template is done and stays so.  That
  a replay follows the swap and the extraction, row by row, is shown of the folds.
- `ReadsBounded`: `Spec => []ReadIsBounded`.  The check walks a sheet once and keeps
  running maxima; the reader puts a cell where its reference, or its place, says.
  Lemmas relate the two position by position (`RowNumber`, `ReadAt`), for sheets of
  any length, and `LimitsInv` adds what the archive's members have passed.
- `SyncsTrack`: `Spec => []Tracked`.  `FlowSyncInv`: what a command took from GitHub
  is still so, each issue a group records is linked except the one just made, and all
  groups that the command is done with are settled (linked, titled, on the board),
  wherever earlier commands died.

**`SumTheorems`** says what sums over finite sets are worth: of the empty set, of one
element more or less, of a union, of sums, by key, of renamed elements, of products
and exact quotients, of concatenated sequences, among zeros, and that they are monotone.
`SumFunctionOnSet` is a fold, and folds are recursive functions chosen by `CHOOSE`;
the module shows that one exists for every finite set, by induction over a *named*
set of numbers or sets, since the prover cannot instantiate the library's induction
theorems, which take an operator.  It does the same for folds over sequences.

**Only model-checked**: liveness (`RequestsEnd`, `CatchesUp`), for which the prover
lacks fairness and `ENABLED`.  Every other property of the passing runs is a theorem.
The conditional properties that the violation runs refute are refuted by TLC alone.

## 5. What the models leave out

- *Precision and currency*: amounts are integers.  Rounding is modelled where a
  migration repairs it (`BudgetMigrations`) and left out elsewhere; funding
  receipts are summed in `FundingFigures` and `ExcelExport` and nothing else
  depends on them.
- *The connection pool*: the ledger's lock sits on a second pooled connection;
  that waiting writers can exhaust the pool is listed as a hazard.  A model of it
  would be one of the pool of SQLAlchemy, which is not in the repository.
- *Identity checks*: who may call what is a constant (`Owners`, `Funders`,
  `Office`) where the code checks a company id; a superuser of the platform is
  left out.
- *Redis failures of sessions*: that Redis refuses a mark is modelled (`missed`);
  that a service lets a token pass when its lookup fails is not, and keys do not
  expire in `CompanyAccounts`.
- *Company deactivation, impersonation, consent*: one flag each, which the
  checks of every request read.
- *What a model answers*: the decision, the extracted columns and the wording of
  an answer are nondeterministic; parsing and repairing the model's JSON is not
  modelled.
- *What a file may contain*, labels, formats, titles, listings, pagination.
- *Mail clients, audit rows, export templates, currency names, the React client,
  Terraform, Docker, monitoring*: for the reasons given in `PROJECT.json`.

## 6. Plan

What could follow, the most valuable first:

1. The ledger and the reports composed: the status of a report in
   `CurrencyLedger` driven by `BudgetReports`.
2. A Redis that refuses a mark in `CompanyAccounts`, with the lifetime of tokens.
3. `ExcelExport` with decimals: how far rounding takes the totals of the sheets apart.

## 7. How to run

    tlc -config ledger_all.cfg MCCurrencyLedger
    tlc -config budget_turns.cfg MCBudgetReports
    tlc -config accounts.cfg CompanyAccounts
    tlc -config copy_events.cfg UserEvents
    tlc -config budgets.cfg MCBudgets
    tlc -config services.cfg MCServices
    tlc -config files.cfg MCFiles
    tlapm SumTheorems.tla
    tlapm CurrencyLedgerProofs.tla
    tlapm CompanyAccountsProofs.tla
    tlapm BudgetReportsProofs.tla
    tlapm UserEventsProofs.tla
    tlapm BudgetsProofs.tla
    tlapm ServicesProofs.tla
    tlapm FilesProofs.tla

The other runs pair their `.cfg` with the module of the same component, as listed
in `PROJECT.json`.  Of an extraction only its labels are: see `ExcelImport` above.
- *Cells of the export without an amount*: percentages, the dashboard's local balance,
  the ledger's local total and rates.
- *Workbooks with several sheets*: `WorkbookLimits` has one; the checks on a sheet are
  repeated for each.
- *The policy of approved endpoints* is a constant of `AiProviders`: an endpoint that
  is struck off while a call has resolved it is listed as a hazard.
