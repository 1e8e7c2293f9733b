------------------------------- MODULE MCFiles -------------------------------
(***************************************************************************)
(* Instances for TLC of four parts that share no state: the workbooks that *)
(* come in (WorkbookLimits, ExcelImport) and go out (ExcelExport), and the *)
(* tool that keeps tasks.md and GitHub in step (FlowTool).  As in          *)
(* MCServices, a behaviour is one of one part.                             *)
(***************************************************************************)
EXTENDS Integers, FiniteSets, Sequences, TLC

CONSTANTS
  MaxCategories, MaxLines, MaxExpenses, Prices, Rates, Amounts, Fundings, Allocations,
  Uploads, Savers, Sheets,
  MaxRows, MaxColumns, MaxCells, MaxMembers, MaxMember, MaxTotal, MaxRatio, RatioThreshold,
  Members, Elements, MaxElements,
  Groups, Trees, main, MaxIssues, MaxFaults,
  MaxEdits, none

VARIABLES
  part,  \* the part this behaviour is of
  pc, nCategories, lines, expenses, received, converted, rate,
  upload, budgets, templates, saver,
  step, members, elements, reason,
  issue, parent, tasks, sync, branch, faults,
  edits \* of the part

Export == INSTANCE ExcelExport
Import == INSTANCE ExcelImport
Limits == INSTANCE WorkbookLimits
Flow == INSTANCE FlowTool

\* The assumptions of the parts, for these constants.
ASSUME PartsAssumption ==
  Export!ExportAssumption /\ Import!ImportAssumption /\ Limits!LimitsAssumption /\ Flow!FlowAssumption

exportVars == <<pc, nCategories, lines, expenses, received, converted, rate>>
importVars == <<upload, budgets, templates, saver>>
limitVars == <<step, members, elements, reason>>
flowVars == <<issue, parent, tasks, sync, branch, faults>>
vars == <<part, exportVars, importVars, limitVars, flowVars, edits>>

\* Groups, uploads and savers are alike.
Alike == Permutations(Groups) \cup Permutations(Uploads) \cup Permutations(Savers)

-----------------------------------------------------------------------------
(* The values of the constants that have a structure. *)

\* A refund is a negative expense.
MCAmounts == {4, -4}
MCFundings == {<<>>, <<4, 8>>}
MCAllocations == {<<>>, <<[amount |-> 2, rate |-> 1], [amount |-> 2, rate |-> 2]>>}

Cell(kind, n) == [kind |-> kind, n |-> n]
Row(first, local, donor) == [first |-> first, local |-> local, donor |-> donor]
Blank == Cell("empty", 0)
Header == Row("Item", Cell("text", 0), Cell("text", 0))

\* Two sheets of one layout, one with formulas and a total, one with a negative amount (a
\* refund, which makes the stated total negative too); and one of another, with
\* a number in its header and a formula that was never calculated.
MCSheets ==
  {<<Header, Row("A", Blank, Blank), Row("", Cell("formula", 8), Cell("number", 4)),
     Row("Total", Cell("formula", 8), Cell("formula", 4))>>,
   <<Header, Row("B", Blank, Blank), Row("", Cell("number", 6), Cell("number", -2))>>,
   <<Row("Item", Cell("text", 0), Cell("text", 9)), Row("A", Cell("formula", 0), Cell("number", 4))>>}

\* A sound member; one that has more than it declares; one that declares too much; an
\* unexpected one.
Member(declared, actual, packed, expected) ==
  [declared |-> declared, actual |-> actual, packed |-> packed, expected |-> expected]
MCMembers == {Member(1, 1, 1, TRUE), Member(1, 4, 1, TRUE), Member(3, 3, 1, TRUE), Member(2, 2, 1, FALSE)}

\* Rows and cells that state their place and that do not, and ranges, one the wrong way round.
Element(tag, from, to) == [tag |-> tag, from |-> from, to |-> to]
MCElements ==
  {Element(e[1], e[2], <<0, 0>>) :
      e \in {<<"row", <<0, 0>>>>, <<"row", <<2, 0>>>>, <<"c", <<0, 0>>>>, <<"c", <<1, 2>>>>, <<"c", <<3, 1>>>>}}
  \cup {Element("mergeCell", <<1, 1>>, <<2, 2>>), Element("mergeCell", <<2, 1>>, <<1, 1>>)}

-----------------------------------------------------------------------------
\* The variables of a part this behaviour is not of.
NoExport ==
  /\ pc = none /\ nCategories = none /\ lines = none /\ expenses = none
  /\ received = none /\ converted = none /\ rate = none
NoImport == upload = none /\ budgets = none /\ templates = none /\ saver = none
NoLimits == step = none /\ members = none /\ elements = none /\ reason = none
NoFlow ==
  /\ issue = none /\ parent = none /\ tasks = none /\ sync = none /\ branch = none
  /\ faults = none

Init ==
  \/ part = "export" /\ Export!Init /\ NoImport /\ NoLimits /\ NoFlow /\ edits = 0
  \/ part = "import" /\ Import!Init /\ NoExport /\ NoLimits /\ NoFlow
  \/ part = "limits" /\ Limits!Init /\ NoExport /\ NoImport /\ NoFlow /\ edits = 0
  \/ part = "flow" /\ Flow!Init /\ NoExport /\ NoImport /\ NoLimits

InExport == part = "export"
ExportOnly == UNCHANGED <<part, importVars, limitVars, flowVars, edits>>
InImport == part = "import"
ImportOnly == UNCHANGED <<part, exportVars, limitVars, flowVars>>
InLimits == part = "limits"
LimitsOnly == UNCHANGED <<part, exportVars, importVars, flowVars, edits>>
InFlow == part = "flow"
FlowOnly == UNCHANGED <<part, exportVars, importVars, limitVars>>

Next ==
  \/ InExport /\ Export!ReadBudget /\ ExportOnly
  \/ InExport /\ Export!ReadLine /\ ExportOnly
  \/ InExport /\ Export!ReadLedger /\ ExportOnly
  \/ InExport /\ Export!ReadExpense /\ ExportOnly
  \/ InExport /\ Export!Write /\ ExportOnly
  \/ \E u \in Uploads, s \in Sheets : InImport /\ Import!Prepare(u, s) /\ ImportOnly
  \/ \E u \in Uploads : InImport /\ Import!Extract(u) /\ ImportOnly
  \/ \E u \in Uploads : InImport /\ Import!Create(u) /\ ImportOnly
  \/ \E u \in Uploads : InImport /\ Import!EditLine(u) /\ ImportOnly
  \/ \E w \in Savers, u \in Uploads : InImport /\ Import!ReadBudget(w, u) /\ ImportOnly
  \/ \E w \in Savers : InImport /\ Import!SaveTemplate(w) /\ ImportOnly
  \/ \E w \in Savers : InImport /\ Import!NameTemplate(w) /\ ImportOnly
  \/ InLimits /\ Limits!AddMember /\ LimitsOnly
  \/ InLimits /\ Limits!AddElement /\ LimitsOnly
  \/ InLimits /\ Limits!Check /\ LimitsOnly
  \/ \E t \in Trees : InFlow /\ Flow!EditTasks(t) /\ FlowOnly
  \/ \E t \in Trees : InFlow /\ Flow!Branch(t) /\ FlowOnly
  \/ \E t \in Trees, i \in 1 .. Cardinality(Groups) : InFlow /\ Flow!StartGroup(t, i) /\ FlowOnly
  \/ \E t \in Trees : InFlow /\ Flow!Finish(t) /\ FlowOnly
  \/ InFlow /\ Flow!CreateParent /\ FlowOnly
  \/ InFlow /\ Flow!NameParent /\ FlowOnly
  \/ \E t \in Trees : InFlow /\ Flow!StartSync(t) /\ FlowOnly
  \/ InFlow /\ Flow!LinkRecorded /\ FlowOnly
  \/ InFlow /\ Flow!TakeMatched /\ FlowOnly
  \/ InFlow /\ Flow!CreateIssue /\ FlowOnly
  \/ InFlow /\ Flow!RecordIssue /\ FlowOnly
  \/ InFlow /\ Flow!LinkIssue /\ FlowOnly
  \/ InFlow /\ Flow!BoardIssue /\ FlowOnly
  \/ InFlow /\ Flow!WriteTasks /\ FlowOnly
  \/ InFlow /\ Flow!EndSync /\ FlowOnly
  \/ InFlow /\ Flow!Die /\ FlowOnly

Spec == Init /\ [][Next]_vars
-----------------------------------------------------------------------------
\* What the variables of each part can hold.
TypeOK ==
  /\ part = "export" => Export!TypeOK
  /\ part = "import" => Import!TypeOK
  /\ part = "limits" => Limits!TypeOK
  /\ part = "flow" => Flow!TypeOK

\* The statements below are those of the modules, where each is explained.

\* ExcelExport: no cell of a sheet is planned twice, and the totals of lines and of expenses
\* add up, in both currencies.
TotalsAddUp ==
  part = "export" => Export!NoCellTwice /\ Export!LinesAddUp /\ Export!ExpensesAddUp

\* ExcelImport: a template replayed on its own sheet yields the amounts of its import.
ReplayAgrees == part = "import" => Import!ReplayAgrees

\* WorkbookLimits: what the spreadsheet reader is given is within the limits.
ReadIsBounded == part = "limits" => Limits!ReadIsBounded

\* FlowTool: when sync is done every group has a linked sub-issue of its own.
Tracked == part = "flow" => Flow!Tracked
=============================================================================
