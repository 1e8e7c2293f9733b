--------------------------- MODULE FundingFigures ---------------------------
(***************************************************************************)
(* The figures that donors and grantees are shown of the same budgets.     *)
(* Five queries add them up apart (the donor's summary and list of         *)
(* grantees, the grantee's dashboard, the breakdown by budget, the balance *)
(* of a ledger), each with filters and groups of its own.  Amounts are     *)
(* whole and rates divide them: how the sums are rounded is left out.      *)
(***************************************************************************)
EXTENDS Integers, Sequences, FiniteSets, Functions

CONSTANTS Kinds,      \* budgets that may be created: owner, funder, currency, rate, total
          MaxBudgets, \* how many are (a bound)
          MaxRows,    \* rows of all their ledgers (a bound)
          Amounts,    \* of a row
          none

\* An archived budget is left out of every sum, as a draft is.
Statuses == {"draft", "confirmed"}

\* A rate may be missing, or zero.
FiguresAssumption ==
  /\ IsFiniteSet(Kinds) /\ MaxBudgets \in Nat /\ Amounts \subseteq Nat /\ none \notin Nat
  /\ \A k \in Kinds : k.total \in Nat /\ k.rate \in Nat \cup {none}

VARIABLES budgets,     \* the budgets table
          received,    \* funding_receipts of each: amounts
          converted,   \* currency_conversions of each: donor_amount, local_amount
          spent        \* report lines of each: amounts

vars == <<budgets, received, converted, spent>>

Ids == 1 .. Len(budgets)
Rows(table) == SumFunction([i \in DOMAIN table |-> Len(table[i])])
AllRows == Rows(received) + Rows(converted) + Rows(spent)

TypeOK ==
  /\ budgets \in Seq([kind : Kinds, status : Statuses]) /\ Len(budgets) <= MaxBudgets
  /\ received \in Seq(Seq(Amounts)) /\ spent \in Seq(Seq(Amounts))
  /\ converted \in Seq(Seq([donor : Amounts, local : Amounts]))
  /\ Len(received) = Len(budgets) /\ Len(converted) = Len(budgets) /\ Len(spent) = Len(budgets)

Init == budgets = <<>> /\ received = <<>> /\ converted = <<>> /\ spent = <<>>

-----------------------------------------------------------------------------
(* What changes the tables (see BudgetReports and CurrencyLedger). *)

Create(k) ==
  /\ Len(budgets) < MaxBudgets
  /\ budgets' = Append(budgets, [kind |-> k, status |-> "draft"])
  /\ received' = Append(received, <<>>)
  /\ converted' = Append(converted, <<>>)
  /\ spent' = Append(spent, <<>>)

Turn(i, status) ==
  /\ budgets' = [budgets EXCEPT ![i].status = status]
  /\ UNCHANGED <<received, converted, spent>>

Receive(i) ==
  /\ AllRows < MaxRows
  /\ \E a \in Amounts : received' = [received EXCEPT ![i] = Append(@, a)]
  /\ UNCHANGED <<budgets, converted, spent>>

Convert(i) ==
  /\ AllRows < MaxRows
  /\ \E a, b \in Amounts :
       converted' = [converted EXCEPT ![i] = Append(@, [donor |-> a, local |-> b])]
  /\ UNCHANGED <<budgets, received, spent>>

\* Only a confirmed budget is reported on.
Spend(i) ==
  /\ AllRows < MaxRows /\ budgets[i].status = "confirmed"
  /\ \E a \in Amounts : spent' = [spent EXCEPT ![i] = Append(@, a)]
  /\ UNCHANGED <<budgets, received, converted>>

Next ==
  \/ \E k \in Kinds : Create(k)
  \/ \E i \in Ids : (\E s \in Statuses : Turn(i, s)) \/ Receive(i) \/ Convert(i) \/ Spend(i)

Spec == Init /\ [][Next]_vars

-----------------------------------------------------------------------------
(* The queries.  A group is there when a row is in it. *)

Sum(op(_), ids) == SumFunctionOnSet([i \in Ids |-> op(i)], ids)
GroupBy(op(_), ids) == {op(i) : i \in ids}

Owner(i) == budgets[i].kind.owner
Funder(i) == budgets[i].kind.funder
Currency(i) == budgets[i].kind.currency
Confirmed(i) == budgets[i].status = "confirmed"

\* total_amount / estimated_exchange_rate
Committed(i) == budgets[i].kind.total \div budgets[i].kind.rate

Owned(c) == {i \in Ids : Owner(i) = c}
FundedBy(c) == {i \in Ids : Funder(i) = c}
\* _owned_confirmed_clause
OwnedConfirmed(c) == {i \in Owned(c) : Confirmed(i)}

\* Currency and a usable rate.
Rated(ids) == {i \in ids : Currency(i) # none /\ budgets[i].kind.rate \notin {none, 0}}
ByCurrency(op(_), ids) ==
  [c \in GroupBy(Currency, ids) |-> Sum(op, {i \in ids : Currency(i) = c})]

get_funded_budgets_summary(d) ==
  [total_budgets |-> Cardinality(FundedBy(d)),
   allocated |-> ByCurrency(Committed, Rated({i \in FundedBy(d) : Confirmed(i)}))]

\* Mutant: drafts are added up too.
GranteesOfAnyStatus(d) ==
  [o \in GroupBy(Owner, FundedBy(d)) |->
     [budgets_count |-> Cardinality(FundedBy(d) \cap Owned(o)),
      allocated |-> ByCurrency(Committed, Rated(FundedBy(d) \cap Owned(o)))]]

\* One row for each owner: all its budgets are counted, the confirmed ones added up.
get_funded_grantees(d) ==
  [o \in GroupBy(Owner, FundedBy(d)) |->
     [budgets_count |-> Cardinality(FundedBy(d) \cap Owned(o)),
      allocated |-> ByCurrency(Committed, Rated(FundedBy(d) \cap OwnedConfirmed(o)))]]

count_budgets_by_status(c) ==
  LET status(i) == budgets[i].status
  IN  [s \in GroupBy(status, Owned(c)) |-> Cardinality({i \in Owned(c) : status(i) = s})]

sum_committed_by_currency(c) == ByCurrency(Committed, Rated(OwnedConfirmed(c)))

Local(i) == SumFunction([n \in DOMAIN converted[i] |-> converted[i][n].local])
Donor(i) == SumFunction([n \in DOMAIN converted[i] |-> converted[i][n].donor])
Got(i) == SumFunction(received[i])
Spent(i) == SumFunction(spent[i])

\* Inner joins: a budget without a row is in no group.
sum_received_by_currency(c) ==
  ByCurrency(Got, {i \in OwnedConfirmed(c) : Currency(i) # none /\ received[i] # <<>>})
sum_converted_by_currency(c) ==
  ByCurrency(Donor, {i \in OwnedConfirmed(c) : Currency(i) # none /\ converted[i] # <<>>})

\* Mutant: both tables in one join, so that each row meets every row of the other.
BreakdownOfOneJoin(c) ==
  [i \in OwnedConfirmed(c) |->
     [converted |-> Local(i) * (IF spent[i] = <<>> THEN 1 ELSE Len(spent[i])),
      spent |-> Spent(i) * (IF converted[i] = <<>> THEN 1 ELSE Len(converted[i]))]]

\* Two subqueries, each grouped by budget before the join.
budget_breakdown(c) ==
  [i \in OwnedConfirmed(c) |-> [converted |-> Local(i), spent |-> Spent(i)]]

At(f, c) == IF c \in DOMAIN f THEN f[c] ELSE 0

\* get_grantee_dashboard_summary_service
dashboard_summary(c) ==
  LET got == sum_received_by_currency(c)
      turned == sum_converted_by_currency(c)
  IN  [budget_counts_by_status |-> count_budgets_by_status(c),
       committed_by_currency |-> sum_committed_by_currency(c),
       conversion_progress |->
          [u \in DOMAIN got \cup DOMAIN turned |->
             [received |-> At(got, u), converted |-> At(turned, u)]],
       breakdown |->
          [i \in OwnedConfirmed(c) |->
             budget_breakdown(c)[i].converted - budget_breakdown(c)[i].spent]]

\* get_ledger_balance_service, of one budget.
ledger_balance(i) ==
  [donor |-> Got(i) - Donor(i), local |-> Local(i) - Spent(i)]

-----------------------------------------------------------------------------
(* Properties. *)

Owners == {k.owner : k \in Kinds}
Funders == {k.funder : k \in Kinds}
Currencies == {k.currency : k \in Kinds} \ {none}
Total(op(_), s) == SumFunction([x \in s |-> op(x)])

\* A donor's summary is the sum of its list of grantees.
SummaryIsOfGrantees ==
  \A d \in Funders \ {none} :
    LET summary == get_funded_budgets_summary(d)
        grantees == get_funded_grantees(d)
        count(o) == grantees[o].budgets_count
    IN  /\ summary.total_budgets = Total(count, DOMAIN grantees)
        /\ \A c \in Currencies :
             LET allocated(o) == At(grantees[o].allocated, c)
             IN  At(summary.allocated, c) = Total(allocated, DOMAIN grantees)

\* What a grantee is shown as committed is what its donors are shown for it, and what
\* nobody in particular funds ("same computation as the grantee dashboard's own").
CommittedIsAllocated ==
  \A o \in Owners, c \in Currencies :
    LET of(d) == IF o \in DOMAIN get_funded_grantees(d)
                 THEN At(get_funded_grantees(d)[o].allocated, c) ELSE 0
    IN  At(dashboard_summary(o).committed_by_currency, c) = Total(of, Funders)

\* The dashboard and the ledgers of its budgets show the same money: what remains of each
\* budget, and what was received and not yet converted in each currency.
DashboardIsLedger ==
  \A o \in Owners :
    LET shown == dashboard_summary(o)
        left(c) == {i \in OwnedConfirmed(o) : Currency(i) = c}
        donor(i) == ledger_balance(i).donor
    IN  /\ \A i \in OwnedConfirmed(o) : shown.breakdown[i] = ledger_balance(i).local
        /\ \A c \in DOMAIN shown.conversion_progress :
             shown.conversion_progress[c].received - shown.conversion_progress[c].converted
               = Sum(donor, left(c))

\* All of it.
FiguresAgree == SummaryIsOfGrantees /\ CommittedIsAllocated /\ DashboardIsLedger
=============================================================================
