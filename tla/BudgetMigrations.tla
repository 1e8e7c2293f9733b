-------------------------- MODULE BudgetMigrations --------------------------
(***************************************************************************)
(* Two migrations of the budget service that rewrite data, each in a       *)
(* transaction of its own.  000014 gives every category to one budget:     *)
(* categories were shared by the lines of many.  000019 rounds amounts,    *)
(* each for itself, and 000020 repairs the allocations that this pushed    *)
(* over the expense or the lot they belong to.                             *)
(***************************************************************************)
EXTENDS Integers, FiniteSets, Functions

CONSTANTS Budgets, Names,
          OldCategories, \* their number before 000014
          OldLines,      \* budget lines
          Shares,        \* amounts allocated before 000019, in parts of the last digit kept
          Slack,         \* what an expense or a lot may have more than was allocated
          Parts,         \* of the last digit
          none

\* A category forked for a budget has a new id.
Old(n) == <<n, none>>
Forked(c, b) == <<c[1], b>>
Ids == (1 .. OldCategories) \X (Budgets \cup {none})
OldLineIds == 1 .. OldLines
Group == 1 .. 2
Pairs == Group \X Group

\* What is assumed of the constants.
MigrationsAssumption ==
  /\ none \notin Budgets \cup Names \cup Ids \cup Pairs
  /\ Shares \subseteq Nat \ {0} /\ Slack \subseteq Nat
  /\ OldCategories \in Nat /\ OldLines \in Nat /\ Parts \in Nat \ {0}

VARIABLES step,
          catalog,    \* budget_categories: name and budget
          placed,      \* budget_lines: budget and category
          was,        \* the name each line was filed under (history)
          allocated,  \* report_line_conversion_allocations: expense and lot to amount
          expenses, lots, \* amounts of report_lines and currency_conversions
          exact       \* allocated, before it was rounded (history)

scopeVars == <<catalog, placed, was>>
roundVars == <<allocated, expenses, lots, exact>>
vars == <<step, scopeVars, roundVars>>

Scoping == {"assign", "fork", "orphans", "merge", "constrain", "scoped"}
Rounding == {"round", "by expense", "by lot", "rounded"}

TypeOK ==
  /\ step \in Scoping \cup Rounding \cup {"failed"}
  /\ DOMAIN catalog \subseteq Ids
  /\ \A c \in DOMAIN catalog :
       catalog[c] \in [name : Names, budget : Budgets \cup {none}]
  /\ DOMAIN placed = DOMAIN was
  /\ \A l \in DOMAIN placed :
       placed[l] \in [budget : Budgets, category : DOMAIN catalog \cup {none}]
  /\ DOMAIN allocated \subseteq Pairs /\ DOMAIN exact = DOMAIN allocated
  /\ \A p \in DOMAIN allocated : allocated[p] \in Int

Total(f, on) == SumFunctionOnSet(f, on)
OfExpense(e) == {p \in DOMAIN allocated : p[1] = e}
OfLot(k) == {p \in DOMAIN allocated : p[2] = k}

Nothing == [x \in {} |-> none]

\* Any lines of any budgets under any categories, two of one name included.
InitScoping ==
  /\ step = "assign"
  /\ catalog \in [{Old(n) : n \in 1 .. OldCategories} -> [name : Names, budget : {none}]]
  /\ placed \in [OldLineIds -> [budget : Budgets, category : DOMAIN catalog \cup {none}]]
  /\ was = [l \in OldLineIds |-> IF placed[l].category = none THEN none
                            ELSE catalog[placed[l].category].name]
  /\ allocated = Nothing /\ exact = Nothing /\ expenses = Nothing /\ lots = Nothing

\* A ledger: no expense and no lot is exceeded (CurrencyLedger, NoDoubleSpend).
InitRounding ==
  /\ step = "round"
  /\ \E pairs \in SUBSET Pairs : allocated \in [pairs -> Shares]
  /\ exact = allocated
  /\ \E more \in [Group -> Slack] :
       expenses = [e \in Group |-> more[e] + Total(allocated, OfExpense(e))]
  /\ \E more \in [Group -> Slack] :
       lots = [k \in Group |-> more[k] + Total(allocated, OfLot(k))]
  /\ catalog = Nothing /\ placed = Nothing /\ was = Nothing

Init == InitScoping \/ InitRounding

-----------------------------------------------------------------------------
(* 000014 *)

BudgetsOf(c) == {placed[l].budget : l \in {k \in DOMAIN placed : placed[k].category = c}}
Shared == {c \in DOMAIN catalog : Cardinality(BudgetsOf(c)) > 1}

Goto(s) == step' = s /\ UNCHANGED roundVars

\* Categories of the lines of one budget.
AssignSingle ==
  /\ step = "assign" /\ Goto("fork")
  /\ catalog' =
       [c \in DOMAIN catalog |->
          IF Cardinality(BudgetsOf(c)) = 1
          THEN [catalog[c] EXCEPT !.budget = CHOOSE b \in BudgetsOf(c) : TRUE]
          ELSE catalog[c]]
  /\ UNCHANGED <<placed, was>>

\* The original stays with the lowest id, whichever budget that is; the lines of every
\* other are moved to a copy.
ForkShared(c) ==
  \E primary \in BudgetsOf(c) :
    LET copies == {Forked(c, b) : b \in BudgetsOf(c) \ {primary}}
    IN  /\ catalog' =
             [d \in DOMAIN catalog \cup copies |->
                IF d \in copies THEN [name |-> catalog[c].name, budget |-> d[2]]
                ELSE IF d = c THEN [catalog[c] EXCEPT !.budget = primary]
                ELSE catalog[d]]
        /\ placed' =
             [l \in DOMAIN placed |->
                IF placed[l].category = c /\ placed[l].budget # primary
                THEN [placed[l] EXCEPT !.category = Forked(c, placed[l].budget)]
                ELSE placed[l]]

Fork ==
  /\ step = "fork"
  /\ \/ \E c \in Shared : ForkShared(c) /\ Goto("fork")
     \/ Shared = {} /\ Goto("orphans") /\ UNCHANGED <<catalog, placed>>
  /\ UNCHANGED was

DeleteOrphans ==
  /\ step = "orphans" /\ Goto("merge")
  /\ catalog' = [c \in {d \in DOMAIN catalog : BudgetsOf(d) # {}} |-> catalog[c]]
  /\ UNCHANGED <<placed, was>>

\* Mutant: grouped by name only.
TwinsByName(c) == {d \in DOMAIN catalog : catalog[d].name = catalog[c].name}

\* Rows of one budget and name.
Twins(c) == {d \in DOMAIN catalog : catalog[d] = catalog[c]}

\* The lowest id is kept, whichever row that is.
MergeTwins ==
  /\ step = "merge"
  /\ \/ \E keep \in DOMAIN catalog :
          LET gone == Twins(keep) \ {keep}
          IN  /\ gone # {}
              /\ placed' = [l \in DOMAIN placed |->
                             IF placed[l].category \in gone
                             THEN [placed[l] EXCEPT !.category = keep] ELSE placed[l]]
              /\ catalog' = [c \in DOMAIN catalog \ gone |-> catalog[c]]
              /\ Goto("merge")
     \/ /\ \A c \in DOMAIN catalog : Twins(c) = {c}
        /\ Goto("constrain") /\ UNCHANGED <<catalog, placed>>
  /\ UNCHANGED was

\* NOT NULL, and unique per budget and name: rows that break either stop the migration.
Constrain ==
  /\ step = "constrain"
  /\ IF \A c, d \in DOMAIN catalog :
          catalog[c].budget # none /\ (catalog[c] = catalog[d] => c = d)
     THEN Goto("scoped") ELSE Goto("failed")
  /\ UNCHANGED scopeVars

-----------------------------------------------------------------------------
(* 000019 and 000020 *)

\* To the nearest, a half upwards.
Rounded(x) == (2 * x + Parts) \div (2 * Parts)
RoundAll(f) == [p \in DOMAIN f |-> Rounded(f[p])]

Round ==
  /\ step = "round" /\ step' = "by expense"
  /\ allocated' = RoundAll(allocated) /\ expenses' = RoundAll(expenses) /\ lots' = RoundAll(lots)
  /\ UNCHANGED <<scopeVars, exact>>

\* One statement: what a group has in excess of its cap is taken from its largest row.
ClawBack(groups, cap) ==
  LET excess == [g \in DOMAIN cap |-> Total(allocated, groups[g]) - cap[g]]
  IN  \E largest \in [DOMAIN cap -> Pairs \cup {none}] :
        /\ \A g \in DOMAIN cap :
             IF excess[g] > 0
             THEN largest[g] \in groups[g] /\ \A p \in groups[g] : allocated[p] <= allocated[largest[g]]
             ELSE largest[g] = none
        /\ allocated' =
             [p \in DOMAIN allocated |->
                allocated[p] - Total(excess, {g \in DOMAIN cap : largest[g] = p})]

ReconcileExpenses ==
  /\ step = "by expense" /\ step' = "by lot"
  /\ ClawBack([e \in Group |-> OfExpense(e)], expenses)
  /\ UNCHANGED <<scopeVars, expenses, lots, exact>>

ReconcileLots ==
  /\ step = "by lot" /\ step' = "rounded"
  /\ ClawBack([k \in Group |-> OfLot(k)], lots)
  /\ UNCHANGED <<scopeVars, expenses, lots, exact>>

Next ==
  \/ AssignSingle \/ Fork \/ DeleteOrphans \/ MergeTwins \/ Constrain
  \/ Round \/ ReconcileExpenses \/ ReconcileLots

Spec == Init /\ [][Next]_vars
-----------------------------------------------------------------------------
(* Properties. *)

\* 000014 goes through on any data, and every line is filed under the name it had, in a
\* category of its own budget ("keep the original on the lowest budget_id, fork the rest");
\* what is left is in use ("dead rows").
LinesKeepCategories ==
  /\ step # "failed"
  /\ step = "scoped" =>
       /\ \A l \in DOMAIN placed :
            IF was[l] = none THEN placed[l].category = none
            ELSE catalog[placed[l].category] = [name |-> was[l], budget |-> placed[l].budget]
       /\ \A c \in DOMAIN catalog : BudgetsOf(c) # {}

\* After 000020 an allocation group "never exceeds the expense or the lot", and no amount
\* has moved by more than a digit for every allocation there is.
AllocationsWithinCaps ==
  step = "rounded" =>
    /\ \A e \in Group : Total(allocated, OfExpense(e)) <= expenses[e]
    /\ \A k \in Group : Total(allocated, OfLot(k)) <= lots[k]
    /\ \A p \in DOMAIN exact :
         (Parts * allocated[p] - exact[p]) \in
            -(Parts * Cardinality(DOMAIN exact)) .. Parts * Cardinality(DOMAIN exact)
=============================================================================
