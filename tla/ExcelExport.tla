----------------------------- MODULE ExcelExport -----------------------------
(***************************************************************************)
(* The workbook a budget is exported to: three sheets of numbers and       *)
(* formulas whose rows are planned before they are written, so that what   *)
(* is above can refer to what is below.  The tables are read by one query  *)
(* after the other and not at one moment: a line can be of a category, and *)
(* an expense of a line, that was not there yet when those were read.      *)
(*                                                                         *)
(* Cells that hold only labels, formats and borders are left out.          *)
(***************************************************************************)
EXTENDS Integers, FiniteSets, Sequences, SequencesExt

CONSTANTS MaxCategories, MaxLines, MaxExpenses,
          Prices,     \* what a line can amount to
          Rates,      \* estimated exchange rates, and 0 for none
          Amounts,    \* what an expense can amount to, refunds included
          Fundings,   \* what was received
          Allocations \* sequences of [amount, rate]: how an expense can be allocated to lots

\* Money has decimals in the code and none here, so the estimate of a line comes out even.
ExportAssumption ==
    /\ MaxCategories \in Nat
    /\ Prices \subseteq Int /\ Rates \subseteq Nat /\ Amounts \subseteq Int
    /\ \A n \in Rates \ {0} : \A a \in Prices : a % n = 0
    /\ Fundings \subseteq Seq(Int)
    /\ Allocations \subseteq Seq([amount : Int, rate : Nat])

VARIABLES pc, nCategories,  \* categories read, in order of creation
          lines,      \* sequence of [category, amount]: category 0 is none
          expenses,   \* sequence of [line, amount, allocations]
          received, converted,  \* sequences of amounts, in donor currency
          rate        \* estimated_exchange_rate, 0 for none

exportVars == <<pc, nCategories, lines, expenses, received, converted, rate>>

Init ==
    /\ pc = "budget" /\ nCategories = 0
    /\ lines = <<>> /\ expenses = <<>> /\ received = <<>> /\ converted = <<>> /\ rate = 0

Read(from, to) == pc = from /\ pc' = to

ReadBudget ==
    /\ Read("budget", "lines")
    /\ rate' \in Rates /\ nCategories' \in 0..MaxCategories
    /\ UNCHANGED <<lines, expenses, received, converted>>

\* A category beyond the ones read was created since.
ReadLine ==
    /\ pc = "lines" /\ Len(lines) < MaxLines
    /\ \E c \in 0 .. MaxCategories, a \in Prices :
          lines' = Append(lines, [category |-> c, amount |-> a])
    /\ UNCHANGED <<pc, nCategories, expenses, received, converted, rate>>

ReadLedger ==
    /\ Read("lines", "expenses")
    /\ received' \in Fundings
    /\ \E n \in 0 .. Len(received') : converted' = SubSeq(received', 1, n)
    /\ UNCHANGED <<nCategories, lines, expenses, rate>>

\* A line beyond the ones read was created since.
ReadExpense ==
    /\ pc = "expenses" /\ Len(expenses) < MaxExpenses
    /\ \E l \in 1 .. Len(lines) + 1, a \in Amounts, s \in Allocations :
          expenses' = Append(expenses, [line |-> l, amount |-> a, allocations |-> s])
    /\ UNCHANGED <<pc, nCategories, lines, received, converted, rate>>

Write ==
    /\ Read("expenses", "written")
    /\ UNCHANGED <<nCategories, lines, expenses, received, converted, rate>>

Next == ReadBudget \/ ReadLine \/ ReadLedger \/ ReadExpense \/ Write
Spec == Init /\ [][Next]_exportVars
-----------------------------------------------------------------------------
(* What is written.  A cell holds a number or a formula over cells.        *)

Total(f) == SumFunction(f)

Cell(c, r, f, n, cells) == [col |-> c, row |-> r, f |-> f, n |-> n, cells |-> cells]
Num(c, r, n) == Cell(c, r, "num", n, <<>>)
Sum(c, r, first, last) == Cell(c, r, "sum", 0, <<<<c, first>>, <<c, last>>>>)
Plus(c, r, cells) == Cell(c, r, "plus", 0, cells)
Minus(c, r, x, y) == Cell(c, r, "minus", 0, <<x, y>>)
Over(c, r, x, y) == Cell(c, r, "over", 0, <<x, y>>)
\* SUMIF over the rows of List of Expenses that carry the id of a line.
SumIf(c, r, line, column) == Cell(c, r, "sumif", line, <<<<column, 0>>>>)

\* Mutant: what is left of a refund is dropped.
RowsPositive(e) ==
    LET left == e.amount - Total([i \in DOMAIN e.allocations |-> e.allocations[i].amount]) IN
    [i \in DOMAIN e.allocations |-> [line |-> e.line, amount |-> e.allocations[i].amount,
                                     rate |-> e.allocations[i].rate]]
    \o IF left > 0 THEN <<[line |-> e.line, amount |-> left, rate |-> rate]>> ELSE <<>>

\* _build_expense_rows: one row per allocation and one for the remainder; rate 0 is none.
RowsOf(e) ==
    LET left == e.amount - Total([i \in DOMAIN e.allocations |-> e.allocations[i].amount]) IN
    [i \in DOMAIN e.allocations |-> [line |-> e.line, amount |-> e.allocations[i].amount,
                                     rate |-> e.allocations[i].rate]]
    \o IF e.allocations = <<>> \/ left # 0
       THEN <<[line |-> e.line, amount |-> left, rate |-> rate]>> ELSE <<>>
ExpenseRows == FoldLeft(LAMBDA rows, e : rows \o RowsOf(e), <<>>, expenses)

\* The lines of some categories, in their order.
LinesOf(categories) ==
    FoldLeft(LAMBDA js, j : IF lines[j].category \in categories THEN Append(js, j) ELSE js,
             <<>>, [j \in DOMAIN lines |-> j])
InCategories == [i \in 1 .. nCategories |-> LinesOf({i})]

\* _group_lines_by_category: the categories, then the lines that have none of them.
Grouped ==
    LET rest == LinesOf((0 .. MaxCategories) \ (1 .. nCategories))
    IN  InCategories \o IF rest = <<>> THEN <<>> ELSE <<rest>>

\* The detailed blocks below a row: each has a header, its lines, a subtotal and a
\* blank row.  The row of the header of each.
Blocks(row, groups) ==
    [i \in DOMAIN groups |-> row + 1 + Total([j \in 1 .. i - 1 |-> Len(groups[j]) + 3])]
\* The row the plan has reached after the last block.
AfterBlocks(row, groups) == row + Total([j \in DOMAIN groups |-> Len(groups[j]) + 3])

\* What both sheets with blocks have, given the groups, the rows of the headers of their
\* blocks, and the columns that are filled.
SubtotalRow(i, groups, blocks) == blocks[i] + Len(groups[i]) + 1

Subtotals(groups, blocks, cols) ==
    {LET row == SubtotalRow(i, groups, blocks) IN
     IF groups[i] = <<>> THEN Num(c, row, 0) ELSE Sum(c, row, blocks[i] + 1, row - 1)
        : i \in DOMAIN groups, c \in cols}

\* A summary below its header: one row per block, which only refers, and a total.
Summary(header, groups, blocks, cols) ==
    {Plus(c, header + i, <<<<c, SubtotalRow(i, groups, blocks)>>>>) : i \in DOMAIN groups, c \in cols}
    \cup {IF groups = <<>> THEN Num(c, header + 1, 0)
          ELSE Sum(c, header + Len(groups) + 1, header + 1, header + Len(groups)) : c \in cols}

\* The cells of every line, given those of line j in row r.
LineCells(groups, blocks, CellsOf(_, _)) ==
    UNION {UNION {CellsOf(groups[i][k], blocks[i] + k) : k \in DOMAIN groups[i]} : i \in DOMAIN groups}

\* OriginalBudgetSheet: amounts in column 3, estimates in column 4 when there is a rate.
RateCell == <<2, 6>>
OriginalSummary == 9
OriginalDetail(groups) == OriginalSummary + Len(groups) + 3
OriginalTotal(groups) == AfterBlocks(OriginalDetail(groups), groups) + 2
OriginalSheet(groups) ==
    LET blocks == Blocks(OriginalDetail(groups), groups)
        cols == IF rate = 0 THEN {3} ELSE {3, 4}
    IN  {Num(RateCell[1], RateCell[2], rate)}
        \cup Summary(OriginalSummary, groups, blocks, cols)
        \cup Subtotals(groups, blocks, cols)
        \cup LineCells(groups, blocks, LAMBDA j, r :
                 {Num(3, r, lines[j].amount)}
                 \cup {Over(4, r, <<3, r>>, RateCell) : x \in IF rate = 0 THEN {} ELSE {rate}})
        \cup {Plus(c, OriginalTotal(groups),
                   [i \in DOMAIN groups |-> <<c, SubtotalRow(i, groups, blocks)>>]) : c \in cols}

\* DashboardSheet: received and converted in column 2, the ledger's rows from row 18 on;
\* then original, planned, expenses, total expenses and deviation in columns 2 to 6.
ReceivedCell == <<2, 11>>
ConvertedCell == <<2, 12>>
LedgerTotal == 18 + Len(received) + Len(converted)
DashboardSummary(groups) == LedgerTotal + 3
DashboardTotal(groups) == DashboardSummary(groups) + Len(groups) + 1
RefundCell(groups) == <<2, AfterBlocks(DashboardTotal(groups) + 1, groups) + 4>>
DashboardSheet(groups) ==
    LET blocks == Blocks(DashboardTotal(groups) + 1, groups)
        cols == IF rate = 0 THEN {3, 4} ELSE 2 .. 6
    IN  {Num(2, 11, Total(received)), Num(2, 12, Total(converted)),
         Minus(2, 14, ReceivedCell, ConvertedCell),
         Minus(RefundCell(groups)[1], RefundCell(groups)[2],
               ReceivedCell, <<5, DashboardTotal(groups)>>)}
        \cup {Num(2, 17 + i, received[i]) : i \in DOMAIN received}
        \cup {Num(3, 17 + Len(received) + i, converted[i]) : i \in DOMAIN converted}
        \cup {IF received = <<>> THEN Num(3, LedgerTotal, 0) ELSE Sum(3, LedgerTotal, 18, LedgerTotal - 1)}
        \cup {Num(2, 8, Total([j \in DOMAIN lines |-> lines[j].amount]) \div rate)
                : x \in IF rate = 0 THEN {} ELSE {rate}}
        \cup Summary(DashboardSummary(groups), groups, blocks, 2 .. 6)
        \cup Subtotals(groups, blocks, cols)
        \cup LineCells(groups, blocks, LAMBDA j, r :
                 {Num(3, r, lines[j].amount), SumIf(4, r, j, 5)}
                 \cup UNION {{Num(2, r, lines[j].amount \div rate), SumIf(5, r, j, 6),
                              Minus(6, r, <<2, r>>, <<5, r>>)} : x \in IF rate = 0 THEN {} ELSE {rate}})

\* ExpenseListSheet: amount in column 5, rate in 7, converted amount in 6, line in 9.
ExpenseSheet ==
    LET rows == ExpenseRows
        total == Len(rows) + 2
    IN  {Num(5, i + 1, rows[i].amount) : i \in DOMAIN rows}
        \cup {Num(9, i + 1, rows[i].line) : i \in DOMAIN rows}
        \cup {IF rows = <<>> THEN Num(5, total, 0) ELSE Sum(5, total, 2, total - 1)}
        \cup {Sum(6, total, 2, total - 1) : x \in {k \in DOMAIN rows : rows[k].rate # 0}}
        \cup UNION {{Num(7, i + 1, rows[i].rate), Over(6, i + 1, <<5, i + 1>>, <<7, i + 1>>)}
                       : i \in {k \in DOMAIN rows : rows[k].rate # 0}}

\* A sheet as a function from cells to what they hold.
Indexed(sheet) ==
    [p \in {<<x.col, x.row>> : x \in sheet} |-> CHOOSE x \in sheet : <<x.col, x.row>> = p]

\* What cell p is worth among these values: an empty cell nothing.
Worth(values, p) == IF p \in DOMAIN values THEN values[p] ELSE 0

\* What a cell is worth given the values of the others, and List of Expenses with the values
\* of its cells, which a SUMIF adds up.
Evaluated(x, values, list, amounts) ==
    LET At(i) == Worth(values, x.cells[i])
    IN  CASE x.f = "num" -> x.n
          [] x.f = "plus" -> Total([i \in DOMAIN x.cells |-> At(i)])
          [] x.f = "minus" -> At(1) - At(2)
          [] x.f = "over" -> At(1) \div At(2)
          [] x.f = "sum" -> Total([r \in x.cells[1][2] .. x.cells[2][2] |-> Worth(values, <<x.col, r>>)])
          [] x.f = "sumif" -> Total([q \in {p \in DOMAIN list : p[1] = 9 /\ list[p].n = x.n} |->
                                       Worth(amounts, <<x.cells[1][1], q[2]>>)])

\* The values of the cells of a sheet.
Values(sheet, list, amounts) ==
    LET V[p \in DOMAIN sheet] == Evaluated(sheet[p], V, list, amounts) IN V

\* List of Expenses refers to itself only; the other sheets to it.
ListValues == LET list == Indexed(ExpenseSheet) IN Values(list, <<>>, <<>>)
OriginalValues(groups) == Values(Indexed(OriginalSheet(groups)), <<>>, <<>>)
DashboardValues(groups) ==
    Values(Indexed(DashboardSheet(groups)), Indexed(ExpenseSheet), ListValues)
-----------------------------------------------------------------------------
\* The tables read hold what their columns can hold.
TypeOK ==
    /\ pc \in {"budget", "lines", "expenses", "written"} /\ nCategories \in 0 .. MaxCategories
    /\ \A j \in DOMAIN lines : lines[j].category \in 0 .. MaxCategories /\ lines[j].amount \in Int
    /\ \A i \in DOMAIN expenses : expenses[i].amount \in Amounts

\* No cell is planned twice: whatever there is to write, no block, summary, ledger or
\* total runs into another.
NoCellTwice ==
    pc = "written" =>
        \A sheet \in {OriginalSheet(Grouped), DashboardSheet(Grouped), ExpenseSheet} :
            \A x, y \in sheet : <<x.col, x.row>> = <<y.col, y.row>> => x = y

\* Every total a reader sees adds up the lines of the budget, those of a category that was
\* not read included, and the sheets agree: the summary, the total expenditures, Planned,
\* and in donor currency the estimate, Original and Approved Total.
LinesAddUp ==
    pc = "written" =>
        LET groups == Grouped
            original == OriginalValues(groups)
            dashboard == DashboardValues(groups)
            planned == Total([j \in DOMAIN lines |-> lines[j].amount])
            O(c, r) == Worth(original, <<c, r>>)
            D(c, r) == Worth(dashboard, <<c, r>>)
            Agree(n, cells) == \A v \in cells : v = n
        IN  /\ Agree(planned, {O(3, OriginalTotal(groups)), O(3, OriginalDetail(groups) - 2),
                               D(3, DashboardTotal(groups))})
            /\ rate # 0 => Agree(planned \div rate,
                                 {O(4, OriginalTotal(groups)), O(4, OriginalDetail(groups) - 2),
                                  D(2, DashboardTotal(groups)), D(2, 8)})
            /\ D(3, LedgerTotal) = D(ConvertedCell[1], ConvertedCell[2])

\* The rows of an expense sum to its amount, however it is allocated; the list adds up all
\* expenses; the dashboard shows, in both currencies, those of the lines it shows; and
\* what is to be refunded is what was received and not spent by them.
ExpensesAddUp ==
    pc = "written" =>
        LET groups == Grouped
            list == ListValues
            dashboard == DashboardValues(groups)
            rows == ExpenseRows
            Known(e) == e.line \in DOMAIN lines
            spent == Total([i \in DOMAIN expenses |-> IF Known(expenses[i]) THEN expenses[i].amount ELSE 0])
            donor == Total([i \in DOMAIN rows |-> IF Known(rows[i]) /\ rows[i].rate # 0
                                                  THEN rows[i].amount \div rows[i].rate ELSE 0])
            D(c, r) == Worth(dashboard, <<c, r>>)
        IN  /\ Worth(list, <<5, Len(rows) + 2>>)
                  = Total([i \in DOMAIN expenses |-> expenses[i].amount])
            /\ D(4, DashboardTotal(groups)) = spent
            /\ rate # 0 =>
                  /\ D(5, DashboardTotal(groups)) = donor
                  /\ D(6, DashboardTotal(groups)) = D(2, DashboardTotal(groups)) - donor
                  /\ D(RefundCell(groups)[1], RefundCell(groups)[2]) = Total(received) - donor

\* The design's "a single computed row list removes the possibility of the sheets
\* disagreeing": what the list converts is what the dashboard deducts from the refund.
\* Not so for a budget without an estimated rate: its dashboard deducts nothing in donor
\* currency, while the rows of lots have rates in the list.
SheetsAgree ==
    pc = "written" =>
        LET groups == Grouped
            list == ListValues
            dashboard == DashboardValues(groups)
        IN  (\A i \in DOMAIN expenses : expenses[i].line \in DOMAIN lines) =>
            Worth(dashboard, RefundCell(groups))
               = Total(received) - Worth(list, <<6, Len(ExpenseRows) + 2>>)
=============================================================================
