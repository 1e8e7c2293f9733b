---------------------------- MODULE BudgetLines ----------------------------
(***************************************************************************)
(* The lines and categories of one budget.  A line is filed under a        *)
(* category that its request names: the category is looked up, created if  *)
(* there is none, and looked up again if another request was quicker; the  *)
(* new category and the line are committed together.  Categories are       *)
(* renamed and deleted meanwhile.                                          *)
(*                                                                         *)
(* Postgres at READ COMMITTED: an INSERT of a name that another            *)
(* transaction holds uncommitted waits for its end.  That the budget is    *)
(* not confirmed is checked as a request begins: see BudgetReports.        *)
(***************************************************************************)
EXTENDS Naturals

CONSTANTS Names,         \* names of categories
          Writers,       \* requests, one at a time each
          MaxCategories, \* categories ever inserted (a bound)
          MaxLines,      \* lines ever inserted (a bound)
          none

Categories == 1 .. MaxCategories
LineIds == 1 .. MaxLines

\* What is assumed of the constants.
LinesAssumption ==
  MaxCategories \in Nat /\ MaxLines \in Nat /\ none \notin Names /\ none \notin 0 .. MaxCategories

VARIABLES categories,  \* committed budget_categories: their name
          nCategories, \* inserted so far, committed or not
          filed,       \* committed budget_lines: their category, 0 without one
          nLines,      \* inserted so far
          writer,      \* what each request holds
          disturbed    \* requests during which a category was renamed or deleted (history)

tables == <<categories, nCategories, filed, nLines>>
vars == <<tables, writer, disturbed>>

Writer == [pc : {"idle", "find", "insert", "reread", "line", "rename", "delete", "refused"},
           name : Names \cup {none}, \* the category's, or its new one
           was : Names \cup {none},  \* its name as loaded
           id : 0 .. MaxCategories,  \* the category found, created or worked on
           own : BOOLEAN]            \* it is this request's, uncommitted
Idle == [pc |-> "idle", name |-> none, was |-> none, id |-> 0, own |-> FALSE]

TypeOK ==
  /\ categories \in [Categories -> Names \cup {none}]
  /\ nCategories \in 0 .. MaxCategories
  /\ filed \in [LineIds -> 0 .. MaxCategories \cup {none}]
  /\ nLines \in 0 .. MaxLines
  /\ writer \in [Writers -> Writer]
  /\ disturbed \subseteq Writers

\* A new budget has no line and no category.
Init ==
  /\ categories = [c \in Categories |-> none] /\ nCategories = 0
  /\ filed = [l \in LineIds |-> none] /\ nLines = 0
  /\ writer = [w \in Writers |-> Idle]
  /\ disturbed = {}

There == {c \in Categories : categories[c] # none}
Called(name) == {c \in There : categories[c] = name}
Busy == {w \in Writers : writer[w].pc # "idle"}

Set(w, record) == writer' = [writer EXCEPT ![w] = record]
Goto(w, pc, id) == Set(w, [writer[w] EXCEPT !.pc = pc, !.id = id])
\* The transaction is rolled back, with a category of its own.
Refuse(w) == Set(w, [Idle EXCEPT !.pc = "refused"])
Retire(w) == Set(w, Idle) /\ disturbed' = disturbed \ {w}

\* An uncommitted row with the name: the unique index makes others wait.
Waits(w, name) == \E v \in Writers \ {w} : writer[v].own /\ writer[v].name = name

-----------------------------------------------------------------------------
(* A line is added. *)

\* By the name of its category, or by its id.
BeginAdd(w) ==
  /\ writer[w].pc = "idle"
  /\ \/ \E n \in Names : Set(w, [Idle EXCEPT !.pc = "find", !.name = n])
     \/ \E c \in There :
          Set(w, [Idle EXCEPT !.pc = "line", !.id = c, !.name = categories[c]])
  /\ UNCHANGED <<tables, disturbed>>

FindCategory(w) ==
  /\ writer[w].pc = "find"
  /\ \/ \E c \in Called(writer[w].name) : Goto(w, "line", c)
     \/ Called(writer[w].name) = {} /\ Goto(w, "insert", 0)
  /\ UNCHANGED <<tables, disturbed>>

\* Mutant: no savepoint around the insert: a name that is taken ends the transaction.
InsertCategoryOrFail(w) ==
  LET n == writer[w].name
  IN  /\ writer[w].pc = "insert" /\ ~Waits(w, n)
      /\ \/ Called(n) # {} /\ Refuse(w) /\ UNCHANGED nCategories
         \/ /\ Called(n) = {} /\ nCategories < MaxCategories
            /\ nCategories' = nCategories + 1
            /\ Set(w, [writer[w] EXCEPT !.pc = "line", !.id = nCategories + 1, !.own = TRUE])
      /\ UNCHANGED <<categories, filed, nLines, disturbed>>

\* The flush in a savepoint; a name that is taken rolls the savepoint back.
InsertCategory(w) ==
  LET n == writer[w].name
  IN  /\ writer[w].pc = "insert" /\ ~Waits(w, n)
      /\ \/ Called(n) # {} /\ Goto(w, "reread", 0) /\ UNCHANGED nCategories
         \/ /\ Called(n) = {} /\ nCategories < MaxCategories
            /\ nCategories' = nCategories + 1
            /\ Set(w, [writer[w] EXCEPT !.pc = "line", !.id = nCategories + 1, !.own = TRUE])
      /\ UNCHANGED <<categories, filed, nLines, disturbed>>

\* "A concurrent request created the same name for this budget; re-read it."
RereadCategory(w) ==
  /\ writer[w].pc = "reread"
  /\ \/ \E c \in Called(writer[w].name) : Goto(w, "line", c)
     \/ Called(writer[w].name) = {} /\ Refuse(w)
  /\ UNCHANGED <<tables, disturbed>>

\* The commit of the line, and of its category when it is new.  The foreign key refuses
\* a category that is gone.
AddLine(w) ==
  LET q == writer[w]
  IN  /\ q.pc = "line"
      /\ IF q.own \/ q.id \in There
         THEN /\ nLines < MaxLines
              /\ nLines' = nLines + 1
              /\ filed' = [filed EXCEPT ![nLines + 1] = q.id]
              /\ categories' = IF q.own THEN [categories EXCEPT ![q.id] = q.name] ELSE categories
              /\ Retire(w)
         ELSE Refuse(w) /\ UNCHANGED <<categories, filed, nLines, disturbed>>
      /\ UNCHANGED nCategories

\* The client is told that its request failed.
Answer(w) ==
  /\ writer[w].pc = "refused"
  /\ Retire(w)
  /\ UNCHANGED tables

-----------------------------------------------------------------------------
(* Categories are renamed and deleted, lines deleted. *)

BeginRename(w) ==
  /\ writer[w].pc = "idle"
  /\ \E c \in There, n \in Names :
       Set(w, [Idle EXCEPT !.pc = "rename", !.id = c, !.was = categories[c], !.name = n])
  /\ UNCHANGED <<tables, disturbed>>

BeginDelete(w) ==
  /\ writer[w].pc = "idle"
  /\ \E c \in There : Set(w, [Idle EXCEPT !.pc = "delete", !.id = c, !.was = categories[c]])
  /\ UNCHANGED <<tables, disturbed>>

\* A category that is gone, or a name that is taken: nothing is written.  A name equal to
\* the one loaded is not written either.
Rename(w) ==
  LET q == writer[w]
      written == q.id \in There /\ q.name # q.was /\ Called(q.name) \subseteq {q.id}
  IN  /\ q.pc = "rename" /\ ~Waits(w, q.name)
      /\ categories' = IF written THEN [categories EXCEPT ![q.id] = q.name] ELSE categories
      /\ disturbed' = (IF written THEN disturbed \cup Busy ELSE disturbed) \ {w}
      /\ Set(w, Idle)
      /\ UNCHANGED <<nCategories, filed, nLines>>

\* Its lines stay, without a category (ondelete SET NULL).
Delete(w) ==
  LET c == writer[w].id
  IN  /\ writer[w].pc = "delete"
      /\ categories' = [categories EXCEPT ![c] = none]
      /\ filed' = [l \in LineIds |-> IF filed[l] = c THEN 0 ELSE filed[l]]
      /\ disturbed' = (disturbed \cup Busy) \ {w}
      /\ Set(w, Idle)
      /\ UNCHANGED <<nCategories, nLines>>

\* One without report lines: theirs cannot lose it.
DeleteLine(l) ==
  /\ filed[l] # none
  /\ filed' = [filed EXCEPT ![l] = none]
  /\ UNCHANGED <<categories, nCategories, nLines, writer, disturbed>>

Next ==
  \/ \E w \in Writers :
       \/ BeginAdd(w) \/ FindCategory(w) \/ InsertCategory(w) \/ RereadCategory(w)
       \/ AddLine(w) \/ Answer(w) \/ BeginRename(w) \/ BeginDelete(w) \/ Rename(w) \/ Delete(w)
  \/ \E l \in LineIds : DeleteLine(l)

Spec == Init /\ [][Next]_vars
-----------------------------------------------------------------------------
(* Properties. *)

\* Requests that add lines under one new name at the same moment all succeed ("so a race
\* can't roll back the caller's flushed budget"): one is refused only when a category was
\* renamed or deleted meanwhile.
RaceStep ==
  \A w \in Writers :
    writer'[w].pc = "refused" /\ writer[w].pc # "refused" => w \in disturbed

\* A line goes where its request said, under the same condition.
FiledStep ==
  \A l \in LineIds : filed[l] = none /\ filed'[l] # none =>
    \E w \in Writers : writer[w].pc = "line"
      /\ (categories'[filed'[l]] = writer[w].name \/ w \in disturbed)

AddsGoThrough == [][RaceStep /\ FiledStep]_vars
=============================================================================
