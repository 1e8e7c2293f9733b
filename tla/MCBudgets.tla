------------------------------ MODULE MCBudgets ------------------------------
(***************************************************************************)
(* Instances for TLC of five parts around the budgets that share no state: *)
(* who funds them (FunderLinks), their lines and categories (BudgetLines), *)
(* the files of their reports (Attachments), the figures that are shown of *)
(* them (FundingFigures) and what migrations made of them                  *)
(* (BudgetMigrations).  As in MCServices, a behaviour is one of one part.  *)
(***************************************************************************)
EXTENDS Integers, FiniteSets, Sequences, TLC

CONSTANTS
  Donors, Ngo, Requests, CacheSize, MaxEdits,
  Names, Writers, MaxCategories, MaxLines,
  Lines, Uploads, Deleters, BugReports, MaxTries, MaxFaults,
  Kinds, MaxBudgets, MaxRows, Amounts,
  Budgets, OldCategories, OldLines, Shares, Slack, Parts,
  none

VARIABLES
  part,  \* the part this behaviour is of
  edits, flags, approved, approving, cache, budget, request, since,
  categories, nCategories, filed, nLines, writer, disturbed,
  draft, lines, rows, blobs, upload, deleter, doomed, bug, shown, stored, tries, posted, faults,
  budgets, received, converted, spent,
  step, catalog, placed, was, allocated, expenses, lots, exact

Funder == INSTANCE FunderLinks
Line == INSTANCE BudgetLines
File == INSTANCE Attachments
Figure == INSTANCE FundingFigures
Migration == INSTANCE BudgetMigrations

funderVars == <<edits, flags, approved, approving, cache, budget, request, since>>
lineVars == <<categories, nCategories, filed, nLines, writer, disturbed>>
fileVars ==
  <<draft, lines, rows, blobs, upload, deleter, doomed, bug, shown, stored, tries, posted, faults>>
figureVars == <<budgets, received, converted, spent>>
migrationVars == <<step, catalog, placed, was, allocated, expenses, lots, exact>>
vars == <<part, funderVars, lineVars, fileVars, figureVars, migrationVars>>

ASSUME Assumptions ==
  Funder!FundersAssumption /\ Line!LinesAssumption /\ File!AttachmentsAssumption
  /\ Figure!FiguresAssumption /\ Migration!MigrationsAssumption

Alike ==
  Permutations(Donors) \cup Permutations(Requests) \cup Permutations(Names)
    \cup Permutations(Writers) \cup Permutations(Lines) \cup Permutations(Uploads)
    \cup Permutations(Deleters)

\* Budgets of two owners: funded by a donor, or by nobody in particular; without a currency,
\* without a rate, with a rate of zero.
Kind(owner, funder, currency, rate, total) ==
  [owner |-> owner, funder |-> funder, currency |-> currency, rate |-> rate, total |-> total]
MCKinds ==
  {Kind("A", "D", "E", 2, 4), Kind("A", none, "E", 1, 3), Kind("A", "D", none, 2, 4),
   Kind("B", "D", "E", none, 4), Kind("B", "D", "U", 0, 6)}

-----------------------------------------------------------------------------
\* The variables of a part this behaviour is not of.
NoFunder ==
  /\ edits = none /\ flags = none /\ approved = none /\ approving = none
  /\ cache = none /\ budget = none /\ request = none /\ since = none
NoLine ==
  /\ categories = none /\ nCategories = none /\ filed = none /\ nLines = none
  /\ writer = none /\ disturbed = none
NoFile ==
  /\ draft = none /\ lines = none /\ rows = none /\ blobs = none /\ upload = none
  /\ deleter = none /\ doomed = none /\ bug = none /\ shown = none /\ stored = none
  /\ tries = none /\ posted = none /\ faults = none
NoFigure == budgets = none /\ received = none /\ converted = none /\ spent = none
NoMigration ==
  /\ step = none /\ catalog = none /\ placed = none /\ was = none
  /\ allocated = none /\ expenses = none /\ lots = none /\ exact = none

Init ==
  \/ part = "funders" /\ Funder!Init /\ NoLine /\ NoFile /\ NoFigure /\ NoMigration
  \/ part = "lines" /\ Line!Init /\ NoFunder /\ NoFile /\ NoFigure /\ NoMigration
  \/ part = "files" /\ File!Init /\ NoFunder /\ NoLine /\ NoFigure /\ NoMigration
  \/ part = "figures" /\ Figure!Init /\ NoFunder /\ NoLine /\ NoFile /\ NoMigration
  \/ part = "migrations" /\ Migration!Init /\ NoFunder /\ NoLine /\ NoFile /\ NoFigure

InFunder == part = "funders"
FunderOnly == UNCHANGED <<part, lineVars, fileVars, figureVars, migrationVars>>
InLine == part = "lines"
LineOnly == UNCHANGED <<part, funderVars, fileVars, figureVars, migrationVars>>
InFile == part = "files"
FileOnly == UNCHANGED <<part, funderVars, lineVars, figureVars, migrationVars>>
InFigure == part = "figures"
FigureOnly == UNCHANGED <<part, funderVars, lineVars, fileVars, migrationVars>>
InMigration == part = "migrations"
MigrationOnly == UNCHANGED <<part, funderVars, lineVars, fileVars, figureVars>>

Next ==
  \/ \E d \in Donors : InFunder /\ Funder!BeginApprove(d) /\ FunderOnly
  \/ \E d \in Donors : InFunder /\ Funder!Approve(d) /\ FunderOnly
  \/ \E d \in Donors : InFunder /\ Funder!Revoke(d) /\ FunderOnly
  \/ \E c \in Donors \cup {Ngo} : InFunder /\ Funder!UpdateCompany(c) /\ FunderOnly
  \/ \E r \in Requests : InFunder /\ Funder!BeginCreate(r) /\ FunderOnly
  \/ \E r \in Requests : InFunder /\ Funder!BeginUpdate(r) /\ FunderOnly
  \/ \E r \in Requests : InFunder /\ Funder!CanFund(r) /\ FunderOnly
  \/ \E r \in Requests : InFunder /\ Funder!CanOwn(r) /\ FunderOnly
  \/ \E r \in Requests : InFunder /\ Funder!LoadBudget(r) /\ FunderOnly
  \/ \E r \in Requests : InFunder /\ Funder!Relate(r) /\ FunderOnly
  \/ \E r \in Requests : InFunder /\ Funder!CallFails(r) /\ FunderOnly
  \/ \E r \in Requests : InFunder /\ Funder!Insert(r) /\ FunderOnly
  \/ \E r \in Requests : InFunder /\ Funder!Update(r) /\ FunderOnly
  \/ \E w \in Writers : InLine /\ Line!BeginAdd(w) /\ LineOnly
  \/ \E w \in Writers : InLine /\ Line!FindCategory(w) /\ LineOnly
  \/ \E w \in Writers : InLine /\ Line!InsertCategory(w) /\ LineOnly
  \/ \E w \in Writers : InLine /\ Line!RereadCategory(w) /\ LineOnly
  \/ \E w \in Writers : InLine /\ Line!AddLine(w) /\ LineOnly
  \/ \E w \in Writers : InLine /\ Line!Answer(w) /\ LineOnly
  \/ \E w \in Writers : InLine /\ Line!BeginRename(w) /\ LineOnly
  \/ \E w \in Writers : InLine /\ Line!BeginDelete(w) /\ LineOnly
  \/ \E w \in Writers : InLine /\ Line!Rename(w) /\ LineOnly
  \/ \E w \in Writers : InLine /\ Line!Delete(w) /\ LineOnly
  \/ \E l \in 1 .. MaxLines : InLine /\ Line!DeleteLine(l) /\ LineOnly
  \/ InFile /\ File!Turn /\ FileOnly
  \/ InFile /\ File!DeleteReport /\ FileOnly
  \/ \E u \in Uploads, l \in Lines : InFile /\ File!SaveFile(u, l) /\ FileOnly
  \/ \E u \in Uploads : InFile /\ File!InsertAttachment(u) /\ FileOnly
  \/ \E d \in Deleters : InFile /\ File!BeginDelete(d) /\ FileOnly
  \/ \E d \in Deleters : InFile /\ File!DeleteRow(d) /\ FileOnly
  \/ \E d \in Deleters : InFile /\ File!DeleteBlob(d) /\ FileOnly
  \/ \E d \in Deleters : InFile /\ File!DeleteFiles(d) /\ FileOnly
  \/ \E d \in Deleters : InFile /\ File!DeleteLine(d) /\ FileOnly
  \/ \E b \in BugReports : InFile /\ File!SaveScreenshot(b) /\ FileOnly
  \/ \E b \in BugReports : InFile /\ File!CreateBugReport(b) /\ FileOnly
  \/ \E b \in BugReports : InFile /\ File!Enqueue(b) /\ FileOnly
  \/ \E b \in BugReports : InFile /\ File!Post(b) /\ FileOnly
  \/ \E k \in Kinds : InFigure /\ Figure!Create(k) /\ FigureOnly
  \/ \E i \in 1 .. MaxBudgets, s \in Figure!Statuses :
       InFigure /\ i <= Len(budgets) /\ Figure!Turn(i, s) /\ FigureOnly
  \/ \E i \in 1 .. MaxBudgets : InFigure /\ i <= Len(budgets) /\ Figure!Receive(i) /\ FigureOnly
  \/ \E i \in 1 .. MaxBudgets : InFigure /\ i <= Len(budgets) /\ Figure!Convert(i) /\ FigureOnly
  \/ \E i \in 1 .. MaxBudgets : InFigure /\ i <= Len(budgets) /\ Figure!Spend(i) /\ FigureOnly
  \/ InMigration /\ Migration!AssignSingle /\ MigrationOnly
  \/ InMigration /\ Migration!Fork /\ MigrationOnly
  \/ InMigration /\ Migration!DeleteOrphans /\ MigrationOnly
  \/ InMigration /\ Migration!MergeTwins /\ MigrationOnly
  \/ InMigration /\ Migration!Constrain /\ MigrationOnly
  \/ InMigration /\ Migration!Round /\ MigrationOnly
  \/ InMigration /\ Migration!ReconcileExpenses /\ MigrationOnly
  \/ InMigration /\ Migration!ReconcileLots /\ MigrationOnly

Spec == Init /\ [][Next]_vars
-----------------------------------------------------------------------------
\* What the variables of each part can hold.
TypeOK ==
  /\ part = "funders" => Funder!TypeOK
  /\ part = "lines" => Line!TypeOK
  /\ part = "files" => File!TypeOK
  /\ part = "figures" => Figure!TypeOK
  /\ part = "migrations" => Migration!TypeOK

\* The statements below are those of the modules, where each is explained.

\* FunderLinks: a budget is linked to donors that approved its owner, and a request that
\* nobody overtakes leaves it a donor or a name.
LinksHold == [][part = "funders" => Funder!LinkStep /\ Funder!FunderStep]_vars

\* BudgetLines: requests that race to create a category all add their lines to it.
AddsGoThrough == [][part = "lines" => Line!RaceStep /\ Line!FiledStep]_vars

\* Attachments: what is listed can be downloaded, what is announced is stored.
FilesAreThere == part = "files" => File!FilesAreThere

\* FundingFigures: the figures that are shown of one budget in several places agree.
FiguresAgree == part = "figures" => Figure!FiguresAgree

\* BudgetMigrations: the migration that gives each category to one budget goes through and
\* leaves every line its category, and rounded allocations exceed neither expense nor lot.
MigrationsKeep ==
  part = "migrations" => Migration!LinesKeepCategories /\ Migration!AllocationsWithinCaps
=============================================================================
