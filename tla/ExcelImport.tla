----------------------------- MODULE ExcelImport -----------------------------
(***************************************************************************)
(* A budget out of an uploaded sheet: the budget service cleans the sheet  *)
(* and looks for a saved template of the same layout, whose columns it     *)
(* replays; without one the chat service has the model extract the lines,  *)
(* and the budget that it creates can be saved as the template of the next *)
(* upload, of any organisation.  Uploads, edits and savers interleave.     *)
(*                                                                         *)
(* A sheet is a sequence of rows: its first cell, and one column each with *)
(* local and donor amounts.  What guards the file itself is WorkbookLimits.*)
(***************************************************************************)
EXTENDS Integers, FiniteSets, Sequences, SequencesExt

CONSTANTS Uploads, Savers, Sheets,
          MaxEdits,  \* bound on the edits of the lines of imported budgets
          none

\* A sheet is a sequence of rows.
ImportAssumption ==
    /\ none \notin {"local", "donor"}
    /\ LET Cells == [kind : {"empty", "number", "text", "formula"}, n : Int]
       IN  Sheets \subseteq Seq([first : STRING, local : Cells, donor : Cells])

VARIABLES upload,    \* each import: where it is, and what it holds
          budgets,   \* the budget of each import
          templates, \* donor_templates that have a fingerprint, in order of id
          saver,     \* each request to save a budget as a template
          edits

importVars == <<upload, budgets, templates, saver, edits>>

NoBudget == [lines |-> <<>>, template |-> 0, layout |-> none, amounts |-> none, locked |-> 0]
NoUpload == [at |-> "idle", sheet |-> none, template |-> 0, lines |-> <<>>, amounts |-> none]
NoSaver == [at |-> "idle", budget |-> none, template |-> 0]

Init ==
    /\ upload = [u \in Uploads |-> NoUpload]
    /\ budgets = [u \in Uploads |-> NoBudget]
    /\ templates = <<>>
    /\ saver = [w \in Savers |-> NoSaver]
    /\ edits = 0
-----------------------------------------------------------------------------
(* What is read from a sheet.  A cell has a kind and a number: the one that *)
(* is left of a text once all but its digits is stripped, or the one that a *)
(* formula had when the file was last calculated; 0 for none.               *)

\* Two columns can hold amounts.
Columns == {"local", "donor"}

Resolved(c) ==
    IF c.kind # "formula" THEN c
    ELSE IF c.n = 0 THEN [kind |-> "empty", n |-> 0] ELSE [kind |-> "number", n |-> c.n]

Filled(row) == {c \in Columns : row[c].kind # "empty"}

\* detect_structure, to_extraction_grid: formulas give way to their values, and the rows
\* of totals and the empty ones are dropped.
Grid(sheet) ==
    LET Of(row) == [first |-> row.first, local |-> Resolved(row.local), donor |-> Resolved(row.donor)]
        Dropped(row) == row.first = "Total" \/ (row.first = "" /\ Filled(row) = {})
    IN  FoldLeft(LAMBDA rows, row : IF Dropped(Of(row)) THEN rows ELSE Append(rows, Of(row)), <<>>, sheet)

\* compute_structure_fingerprint: which cells are filled, whatever they hold.
Fingerprint(grid) == [i \in DOMAIN grid |-> <<grid[i].first # "", Filled(grid[i])>>]

\* _parse_amount: none or one amount.
Parsed(c) == IF c.kind = "number" \/ (c.kind = "text" /\ c.n # 0) THEN {c.n} ELSE {}

Line(category, n) == [category |-> category, amount |-> n, edited |-> FALSE]

\* _extract_via_template: a row without an amount names the category of those below.
Replay(grid, column) ==
    LET Step(so, row) ==
            IF Parsed(row[column]) = {}
            THEN [so EXCEPT !.category = IF row.first = "" THEN @ ELSE row.first]
            ELSE [so EXCEPT !.lines = Append(@,
                    Line(IF row.first = "" THEN so.category ELSE row.first,
                         CHOOSE n \in Parsed(row[column]) : TRUE))]
    IN  FoldLeft(Step, [category |-> "Uncategorized", lines |-> <<>>], grid).lines

\* The templates of a layout; the one with the lowest id is the one in use.
Matches(grid) == {t \in DOMAIN templates : templates[t].layout = Fingerprint(grid)}

First(ts) == CHOOSE t \in ts : \A s \in ts : t =< s

\* prepare_excel_import_service.  The file can be refused before it is read.
Prepare(u, sheet) ==
    LET grid == Grid(sheet)
        matches == Matches(grid)
        t == First(matches)
        lines == Replay(grid, templates[t].amounts)
    IN  /\ upload[u].at = "idle"
        /\ \/ upload' = [upload EXCEPT ![u].at = "refused"]
           \/ /\ grid # <<>>
              /\ upload' = [upload EXCEPT ![u] =
                    IF matches = {} THEN [@ EXCEPT !.at = "unmatched", !.sheet = sheet]
                    ELSE IF lines = <<>> THEN [@ EXCEPT !.at = "refused"]
                    ELSE [@ EXCEPT !.at = "matched", !.sheet = sheet, !.template = t,
                                   !.lines = lines]]
        /\ UNCHANGED <<budgets, templates, saver, edits>>

\* The rows of a grid that have a number.
Numbered(grid) ==
    FoldLeft(LAMBDA rows, row : IF \E c \in Columns : row[c].kind = "number"
                                THEN Append(rows, row) ELSE rows, <<>>, grid)

\* The two amounts of every row when one column is taken for the local one, which may be
\* the wrong way round, and the total of the donor's amounts, as a sheet that has it does.
Labelled(rows, local) ==
    LET Amount(c) == IF c.kind = "number" THEN {c.n} ELSE {}
    IN  [i \in DOMAIN rows |->
            [local |-> Amount(rows[i][local]),
             target |-> Amount(rows[i][CHOOSE c \in Columns : c # local])]]
Stated(rows) == FoldLeft(LAMBDA n, row : n + row.donor.n, 0, rows)

\* What the model makes of a grid: the amounts of the rows that have a number, the donor's
\* total or none, and which column has what it calls local, unless it cannot tell.
Extractions(grid) ==
    {[lines |-> Labelled(Numbered(grid), local), local |-> local, total |-> total, known |-> known]
        : local \in Columns, total \in {0, Stated(Numbered(grid))}, known \in BOOLEAN}

SumOf(s) == FoldLeft(LAMBDA n, a : n + (IF a = {} THEN 0 ELSE CHOOSE x \in a : TRUE), 0, s)
Off(m, n) == IF m > n THEN m - n ELSE n - m

\* _should_swap_local_and_target: the other way round fits the stated total better; the
\* distances are divided by the total with its sign, so a negative total turns this about.
ShouldSwap(x) ==
    LET local == SumOf([i \in DOMAIN x.lines |-> x.lines[i].local])
        target == SumOf([i \in DOMAIN x.lines |-> x.lines[i].target])
    IN  /\ x.total # 0 /\ target # 0 /\ local # 0
        /\ \/ x.total > 0 /\ Off(local, x.total) < Off(target, x.total)
           \/ x.total < 0 /\ Off(local, x.total) > Off(target, x.total)

\* _lines_from_extraction: the other amount where there is no local one.
Imported(x) ==
    LET swap == ShouldSwap(x)
        Local(l) == IF swap THEN l.target ELSE l.local
        Other(l) == IF swap THEN l.local ELSE l.target
    IN  [i \in DOMAIN x.lines |->
            Line("read", CHOOSE n \in IF Local(x.lines[i]) # {} THEN Local(x.lines[i])
                                      ELSE Other(x.lines[i]) : TRUE)]

\* Mutant: the column is kept as the model named it.
AmountColumnAsNamed(x) == IF x.known THEN x.local ELSE none

\* The column a replay is to read, or none when the layout is not to be saved.
AmountColumn(x) ==
    IF ~x.known THEN none
    ELSE IF ShouldSwap(x) THEN CHOOSE c \in Columns : c # x.local ELSE x.local

\* run_import_excel, what the model answers; or it is out, or past its limit.
Extract(u) ==
    /\ upload[u].at = "unmatched"
    /\ \/ upload' = [upload EXCEPT ![u].at = "refused"]
       \/ \E x \in Extractions(Grid(upload[u].sheet)) :
             /\ x.lines # <<>>
             /\ upload' = [upload EXCEPT ![u].at = "extracted", ![u].lines = Imported(x),
                                         ![u].amounts = AmountColumn(x)]
    /\ UNCHANGED <<budgets, templates, saver, edits>>

\* create_budget_with_lines_service: budget, categories and lines in one commit, or none,
\* as when the organisation's currency cannot be had.
Create(u) ==
    /\ upload[u].at \in {"matched", "extracted"}
    /\ \/ upload' = [upload EXCEPT ![u].at = "refused"] /\ UNCHANGED budgets
       \/ /\ upload' = [upload EXCEPT ![u].at = "done"]
          /\ budgets' = [budgets EXCEPT ![u] =
                [lines |-> upload[u].lines, template |-> upload[u].template,
                 layout |-> IF upload[u].amounts = none THEN none
                            ELSE Fingerprint(Grid(upload[u].sheet)),
                 amounts |-> upload[u].amounts,
                 locked |-> IF upload[u].template = 0 THEN Len(upload[u].lines) ELSE 0]]
    /\ UNCHANGED <<templates, saver, edits>>
-----------------------------------------------------------------------------
Edited(l) == [l EXCEPT !.amount = @ + 1, !.edited = TRUE]

\* A line of an imported budget is edited, deleted or added.
EditLine(u) ==
    /\ upload[u].at = "done" /\ edits < MaxEdits /\ edits' = edits + 1
    /\ \/ \E i \in DOMAIN budgets[u].lines :
             budgets' = [budgets EXCEPT ![u].lines[i] = Edited(@)]
       \/ \E i \in DOMAIN budgets[u].lines :
             budgets' = [budgets EXCEPT ![u].lines = RemoveAt(@, i)]
       \/ budgets' = [budgets EXCEPT ![u].lines = Append(@, Line("added", 1))]
    /\ UNCHANGED <<upload, templates, saver>>

\* Mutant: a budget whose layout was never read, as no column was, can be saved.
CanSaveUnread(b) ==
    /\ b.template = 0
    /\ Len(b.lines) = b.locked
    /\ \A i \in DOMAIN b.lines : ~b.lines[i].edited

\* _can_save_as_template.
CanSave(b) ==
    /\ b.layout # none /\ b.template = 0
    /\ Len(b.lines) = b.locked
    /\ \A i \in DOMAIN b.lines : ~b.lines[i].edited

\* save_budget_as_template_service: the budget is read, the template is committed, and then
\* the budget is given it in a commit of its own, which may not come about.
ReadBudget(w, u) ==
    /\ saver[w].at = "idle" /\ upload[u].at = "done" /\ CanSave(budgets[u])
    /\ saver' = [saver EXCEPT ![w] = [at |-> "save", budget |-> u, template |-> 0]]
    /\ UNCHANGED <<upload, budgets, templates, edits>>
SaveTemplate(w) ==
    /\ saver[w].at = "save"
    /\ LET b == budgets[saver[w].budget]
       IN  templates' = Append(templates, [layout |-> b.layout, amounts |-> b.amounts,
                                           from |-> saver[w].budget])
    /\ saver' = [saver EXCEPT ![w].at = "name", ![w].template = Len(templates')]
    /\ UNCHANGED <<upload, budgets, edits>>
NameTemplate(w) ==
    /\ saver[w].at = "name"
    /\ \/ budgets' = [budgets EXCEPT ![saver[w].budget].template = saver[w].template]
       \/ UNCHANGED budgets
    /\ saver' = [saver EXCEPT ![w].at = "over"]
    /\ UNCHANGED <<upload, templates, edits>>

Next ==
    \/ \E u \in Uploads, s \in Sheets : Prepare(u, s)
    \/ \E u \in Uploads : Extract(u) \/ Create(u) \/ EditLine(u)
    \/ \E w \in Savers, u \in Uploads : ReadBudget(w, u)
    \/ \E w \in Savers : SaveTemplate(w) \/ NameTemplate(w)
Spec == Init /\ [][Next]_importVars
-----------------------------------------------------------------------------
\* An import holds what its step needs, a template a column to read, and a budget that
\* names a template names one there is.
TypeOK ==
    /\ \A u \in Uploads :
          /\ upload[u].at \in {"idle", "refused", "unmatched", "matched", "extracted", "done"}
          /\ upload[u].at \in {"matched", "extracted", "done"} => upload[u].lines # <<>>
          /\ upload[u].amounts \in Columns \cup {none}
          /\ budgets[u].template \in 0 .. Len(templates)
    /\ \A t \in DOMAIN templates : templates[t].amounts \in Columns
    /\ \A w \in Savers : saver[w].at \in {"idle", "save", "name", "over"}

\* A template does what the import it was saved from did: replayed on the sheet of that
\* import it yields the same amounts, whichever way round the model had labelled the
\* columns, for sheets that have a local and a donor amount in every line and no number
\* in the text above them.
ReplayAgrees ==
    \A t \in DOMAIN templates :
        LET from == upload[templates[t].from]
            grid == Grid(from.sheet)
            lines == Replay(grid, templates[t].amounts)
        IN  (\A i \in DOMAIN grid : \A c \in Columns :
                 /\ grid[i][c].kind = "number" => \A d \in Columns : grid[i][d].kind = "number"
                 /\ grid[i][c].kind = "text" => grid[i][c].n = 0)
            => [i \in DOMAIN lines |-> lines[i].amount]
                  = [i \in DOMAIN from.lines |-> from.lines[i].amount]

\* save_budget_as_template_service takes a budget "with its lines unedited since creation".
\* Not so when a line is deleted and another added, or edited once the budget was read.
SavedUnedited ==
    \A w \in Savers : saver[w].at = "save" =>
        budgets[saver[w].budget].lines = upload[saver[w].budget].lines
=============================================================================
