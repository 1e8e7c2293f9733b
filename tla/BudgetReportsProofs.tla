------------------------ MODULE BudgetReportsProofs ------------------------
(***************************************************************************)
(* For any number of sessions of each side, of reports and days: the state *)
(* keeps its type, a confirmed budget keeps its start date, and loses its  *)
(* confirmation date, like two reports come to share a day, only by a      *)
(* write that another request has overtaken.  Until a side makes two       *)
(* requests at a time, reports follow their workflow and a review decides  *)
(* on the report that was read.                                            *)
(***************************************************************************)
EXTENDS BudgetReports, TLAPS

(* The inductive invariants. *)

\* What a session in the middle of `do` holds.
Job(s, do, i, to) ==
    /\ do \in {"update", "move", "rename", "remove", "turn"} => i \in Ids
    /\ do \in {"create", "insert"} => i = 0 /\ s \in Creators
    /\ do = "turn" => to \in States
    /\ do = "patch" => to \in {"draft", "ai_draft", "archived"}
    /\ do = "restore" => to \in {"draft", "confirmed"}
    /\ do \in {"revert", "patch", "restore", "edit", "update", "move", "rename", "remove"}
         => s \in Owners

Types == TypeOK /\ \A s \in Sessions : Job(s, op[s], id[s], goal[s])

\* A start date is never taken away, and a restore confirms what it loaded dated.
DateInv ==
    /\ \A s \in Sessions :
          /\ base[s].dated => budget.dated
          /\ op[s] = "restore" /\ goal[s] = "confirmed" => base[s].stamped /\ base[s].dated
    /\ StartDateKept

\* Of the reports that nobody wrote behind its back, a session knows the period of the one
\* it is moving, and that none overlaps the period it is about to write.
PeriodInv ==
    \A s \in Sessions :
        /\ op[s] \in {"update", "move"} /\ Exists(id[s]) /\ id[s] \notin since[s]
             => reports[id[s]].period = seen[s].period
        /\ op[s] \in {"insert", "move"} => Overlapping(span[s], id[s]) \subseteq since[s]

\* Each side makes one request at a time.
Alone ==
    \A s \in Sessions : \A t \in Side(s) : op[s] # "none" /\ op[t] # "none" => s = t

\* A side acts on reports in the states that are its own to leave.
FlowInv ==
    /\ Alone
    /\ \A i \in Ids : i > nReports => reports[i].state = "none"
    /\ \A s \in Sessions :
          /\ op[s] = "revert" => \A i \in listed[s] : reports[i].state = "draft"
          /\ op[s] \in {"update", "move", "rename", "remove"} => reports[id[s]].state = "draft"
          /\ op[s] = "turn" =>
                /\ reports[id[s]] = seen[s]
                /\ IF seen[s].state = "submitted"
                   THEN s \in Reviewers /\ goal[s] \in {"approved", "rejected"}
                   ELSE s \in Owners /\ <<seen[s].state, goal[s]>> \in
                                           {<<"draft", "submitted">>, <<"rejected", "draft">>}

-----------------------------------------------------------------------------
(* Types. *)

LEMMA Basics ==
  /\ MaxReports \in Nat /\ 0 \notin Ids /\ 0 \in 0 .. MaxReports
  /\ \A i \in Ids : i \in 0 .. MaxReports
  /\ NoPeriod \in Period /\ NoReport \in Report /\ NewBudget \in Budget
  /\ ADay \in Days
  <1>1. ADay \in Days
    BY DaysAssumption DEF ADay
  <1>2. MaxReports \in Nat
    BY BoundsAssumption
  <1> QED BY <1>1, <1>2 DEF Ids, NoPeriod, Period, NoReport, Report, NewBudget, Budget, States, Statuses

LEMMA LoadTypes ==
  ASSUME Types, NEW s \in Sessions, NEW do \in Ops, NEW i \in 0 .. MaxReports,
         NEW to \in Statuses \cup States, NEW p \in Period,
         Load(s, do, i, to, p), Job(s, do, i, to)
  PROVE  Types'
  <1>1. (IF i \in Ids THEN reports[i] ELSE NoReport) \in Report /\ Existing \in SUBSET Ids
    BY Basics DEF Types, TypeOK, Existing
  <1>2. TypeOK'
    BY <1>1 DEF Types, TypeOK, Load, budgetVars, reportVars
  <1>3. \A t \in Sessions : Job(t, op'[t], id'[t], goal'[t])
    <2> TAKE t \in Sessions
    <2>1. CASE t = s
      BY <2>1 DEF Types, TypeOK, Load
    <2>2. CASE t # s
      <3>1. op'[t] = op[t] /\ id'[t] = id[t] /\ goal'[t] = goal[t]
        BY <2>2 DEF Types, TypeOK, Load
      <3> QED BY <3>1 DEF Types
    <2> QED BY <2>1, <2>2
  <1> QED BY <1>2, <1>3 DEF Types, Job

\* The session ends with its step.
Left(s) == \E wrote \in SUBSET Ids : RetireHaving(s, wrote)

LEMMA RetireLeaves ==
  ASSUME NEW s, Retire(s)
  PROVE  Left(s)
  BY DEF Retire, Left

LEMMA RetireTypes ==
  ASSUME Types, NEW s \in Sessions, Left(s),
         budget' \in Budget, figures' \in Nat, reports' \in [Ids -> Report],
         nReports' \in 0 .. MaxReports
  PROVE  Types'
  <1> PICK wrote \in SUBSET Ids : RetireHaving(s, wrote)
    BY DEF Left
  <1>1. TypeOK'
    <2>1. since' \in [Sessions -> SUBSET Ids]
      BY DEF Types, TypeOK, RetireHaving
    <2> QED BY <2>1, Basics DEF Types, TypeOK, RetireHaving, Ops, States
  <1>2. \A t \in Sessions : Job(t, op'[t], id'[t], goal'[t])
    <2> TAKE t \in Sessions
    <2>1. CASE t = s
      BY <2>1 DEF Types, TypeOK, RetireHaving, Job
    <2>2. CASE t # s
      <3>1. op'[t] = op[t] /\ id'[t] = id[t] /\ goal'[t] = goal[t]
        BY <2>2 DEF Types, TypeOK, RetireHaving
      <3> QED BY <3>1 DEF Types
    <2> QED BY <2>1, <2>2
  <1> QED BY <1>1, <1>2 DEF Types, Job

Begins(s) ==
    \/ BeginConfirm(s) \/ BeginRevert(s) \/ BeginPatch(s) \/ BeginRestore(s) \/ BeginEdit(s)
    \/ BeginCreate(s) \/ BeginUpdate(s) \/ BeginRemove(s) \/ BeginSubmit(s)
    \/ BeginReview(s) \/ BeginReopen(s)

\* What a request saw when it began.
Found(s, do, i, to) ==
    /\ do \notin {"insert", "move"}
    /\ do = "restore" /\ to = "confirmed" => budget.stamped /\ budget.dated
    /\ do = "revert" => \A j \in Existing : reports[j].state = "draft"
    /\ do \in {"update", "rename", "remove"} => reports[i].state = "draft"
    /\ do = "turn" =>
          IF reports[i].state = "submitted"
          THEN s \in Reviewers /\ to \in {"approved", "rejected"}
          ELSE s \in Owners /\ <<reports[i].state, to>> \in
                                  {<<"draft", "submitted">>, <<"rejected", "draft">>}

\* Every request begins with a Load, of what it may hold.
LEMMA BeginLoads ==
  ASSUME Types, NEW s \in Sessions, Begins(s)
  PROVE  \E do \in Ops, i \in 0 .. MaxReports, to \in Statuses \cup States, p \in Period :
           Load(s, do, i, to, p) /\ Job(s, do, i, to) /\ Found(s, do, i, to)
  <1> USE DEF Job, Found, Ops, Statuses, States
  <1>1. CASE BeginConfirm(s)
    BY <1>1, Basics DEF BeginConfirm
  <1>2. CASE BeginRevert(s)
    BY <1>2, Basics DEF BeginRevert
  <1>3. CASE BeginPatch(s)
    BY <1>3, Basics DEF BeginPatch
  <1>4. CASE BeginRestore(s)
    BY <1>4, Basics DEF BeginRestore
  <1>5. CASE BeginEdit(s)
    BY <1>5, Basics DEF BeginEdit
  <1>6. CASE BeginCreate(s)
    BY <1>6, Basics DEF BeginCreate
  <1>7. CASE BeginUpdate(s)
    <2>1. \A i \in Existing : i \in Ids /\ i \in 0 .. MaxReports /\ reports[i].period \in Period
      BY Basics DEF Existing, Types, TypeOK, Report
    <2> QED BY <1>7, <2>1 DEF BeginUpdate
  <1>8. CASE BeginRemove(s)
    BY <1>8, Basics DEF BeginRemove, Existing
  <1>9. CASE BeginSubmit(s)
    BY <1>9, Basics DEF BeginSubmit, Existing
  <1>10. CASE BeginReview(s)
    BY <1>10, Basics DEF BeginReview, Existing
  <1>11. CASE BeginReopen(s)
    BY <1>11, Basics DEF BeginReopen, Existing
  <1> QED BY <1>1, <1>2, <1>3, <1>4, <1>5, <1>6, <1>7, <1>8, <1>9, <1>10, <1>11 DEF Begins

LEMMA BudgetTypes ==
  ASSUME Types, NEW s \in Sessions,
         Confirm(s) \/ Revert(s) \/ Patch(s) \/ Restore(s) \/ Edit(s)
  PROVE  Left(s) /\ budget' \in Budget /\ figures' \in Nat
         /\ reports' \in [Ids -> Report] /\ nReports' = nReports
  <1>1. /\ budget \in Budget /\ figures \in Nat /\ base[s] \in Budget
        /\ \A d \in Dates(s) : d \in BOOLEAN
        /\ \A n \in Figures(s) : n \in Nat
    <2>1. budget \in Budget /\ figures \in Nat /\ base[s] \in Budget
      BY DEF Types, TypeOK
    <2>2. base[s].dated \in BOOLEAN
      BY <2>1 DEF Budget
    <2>3. ASSUME NEW d \in Dates(s) PROVE d \in BOOLEAN
      <3>1. d = base[s].dated \/ d = TRUE
        BY DEF Dates
      <3> QED BY <2>2, <3>1
    <2>4. \A n \in Figures(s) : n \in Nat
      BY <2>1 DEF Figures
    <2> QED BY <2>1, <2>3, <2>4
  <1>0. Left(s)
    BY RetireLeaves DEF Confirm, Revert, Patch, Restore, Edit
  <1>2. CASE Confirm(s)
    <2>1. budget' \in Budget
      <3>1. CASE budget' = budget
        BY <1>1, <3>1
      <3>2. ASSUME NEW d \in Dates(s),
                   budget' = [status |-> "confirmed", stamped |-> TRUE,
                              dated |-> Written(base[s].dated, d, budget.dated)]
            PROVE  budget' \in Budget
        <4>1. d \in BOOLEAN /\ budget.dated \in BOOLEAN
          BY <1>1 DEF Budget
        <4>2. Written(base[s].dated, d, budget.dated) \in BOOLEAN
          BY <4>1 DEF Written
        <4> QED BY <3>2, <4>2 DEF Budget, Statuses
      <3> QED BY <1>2, <3>1, <3>2 DEF Confirm, budgetVars
    <2> QED BY <1>0, <1>1, <1>2, <2>1 DEF Confirm, budgetVars, reportVars, Types, TypeOK
  <1>3. CASE Revert(s)
    <2>1. budget' \in Budget
      BY <1>1, <1>3 DEF Revert, Budget, Statuses, Written
    <2>2. reports' \in [Ids -> Report]
      BY <1>3, Basics DEF Revert, Types, TypeOK
    <2> QED BY <1>0, <1>1, <1>3, <2>1, <2>2 DEF Revert
  <1>4. CASE Patch(s)
    <2>1. budget' \in Budget
      <3>1. op[s] = "patch" => goal[s] \in Statuses
        BY DEF Types, Job, Statuses
      <3> QED BY <1>1, <1>4, <3>1 DEF Patch, budgetVars, Budget, Written
    <2> QED BY <1>0, <1>1, <1>4, <2>1 DEF Patch, budgetVars, reportVars, Types, TypeOK
  <1>5. CASE Restore(s)
    <2>1. budget' \in Budget
      <3>1. op[s] = "restore" => goal[s] \in Statuses
        BY DEF Types, Job, Statuses
      <3> QED BY <1>1, <1>5, <3>1 DEF Restore, Budget, Written
    <2> QED BY <1>0, <1>1, <1>5, <2>1 DEF Restore, reportVars, Types, TypeOK
  <1>6. CASE Edit(s)
    <2>1. budget' \in Budget
      BY <1>1, <1>6 DEF Edit, budgetVars, Budget, Written
    <2> QED BY <1>0, <1>1, <1>6, <2>1 DEF Edit, budgetVars, reportVars, Types, TypeOK
  <1> QED BY <1>2, <1>3, <1>4, <1>5, <1>6

LEMMA ChangeLeaves ==
  ASSUME NEW s, NEW row, id[s] \in Ids, Change(s, row)
  PROVE  Left(s)
  <1>1. (IF op[s] = "move" THEN {id[s]} ELSE {}) \in SUBSET Ids
    OBVIOUS
  <1> QED BY <1>1 DEF Change, Left

LEMMA ReportTypes ==
  ASSUME Types, NEW s \in Sessions,
         Insert(s) \/ Move(s) \/ Rename(s) \/ Remove(s) \/ Turn(s)
  PROVE  Left(s) /\ UNCHANGED budgetVars
         /\ reports' \in [Ids -> Report] /\ nReports' \in 0 .. MaxReports
  <1>1. /\ reports \in [Ids -> Report] /\ nReports \in 0 .. MaxReports
        /\ span[s] \in Period /\ seen[s].period \in Period
    BY DEF Types, TypeOK, Report
  <1>2. CASE Insert(s)
    <2>1. nReports < MaxReports => nReports + 1 \in Ids /\ nReports + 1 \in 0 .. MaxReports
      BY <1>1, Basics DEF Ids
    <2>2. [state |-> "draft", period |-> span[s], text |-> 0] \in Report
      BY <1>1 DEF Report, States
    <2>3. Left(s)
      <3>1. CASE nReports < MaxReports /\ RetireHaving(s, {nReports + 1})
        BY <2>1, <3>1 DEF Left
      <3>2. CASE Retire(s)
        BY <3>2, RetireLeaves
      <3> QED BY <1>2, <3>1, <3>2 DEF Insert
    <2> QED BY <1>1, <1>2, <2>1, <2>2, <2>3 DEF Insert, reportVars
  <1>3. ASSUME NEW row \in Report, id[s] \in Ids, Change(s, row)
        PROVE  Left(s) /\ UNCHANGED budgetVars
               /\ reports' \in [Ids -> Report] /\ nReports' \in 0 .. MaxReports
    BY <1>1, <1>3, ChangeLeaves DEF Change, budgetVars
  <1>4. CASE Move(s)
    <2>1. id[s] \in Ids
      BY <1>4 DEF Move, Types, Job
    <2>2. /\ reports[id[s]] \in Report /\ reports[id[s]].period \in Period
          /\ \A f \in {"from", "to"} :
                 span[s][f] \in Days /\ seen[s].period[f] \in Days
                 /\ reports[id[s]].period[f] \in Days
      BY <1>1, <2>1 DEF Report, Period
    <2>3. \A p \in Period : [reports[id[s]] EXCEPT !.period = p] \in Report
      BY <2>2 DEF Report
    <2> DEFINE moved == [from |-> Written(seen[s].period.from, span[s].from, reports[id[s]].period.from),
                         to |-> Written(seen[s].period.to, span[s].to, reports[id[s]].period.to)]
    <2>4. moved \in Period
      BY <2>2 DEF Period, Written
    <2>5. Change(s, [reports[id[s]] EXCEPT !.period = moved])
      BY <1>4, <2>2 DEF Move, Report
    <2> QED BY <1>3, <2>1, <2>3, <2>4, <2>5
  <1>5. CASE Rename(s)
    <2>1. id[s] \in Ids
      BY <1>5 DEF Rename, Types, Job
    <2>2. [reports[id[s]] EXCEPT !.text = IF @ < MaxEdits THEN @ + 1 ELSE @] \in Report
      BY <1>1, <2>1 DEF Report
    <2> QED BY <1>3, <1>5, <2>1, <2>2 DEF Rename
  <1>6. CASE Remove(s)
    BY <1>3, <1>6, Basics DEF Remove, Types, Job
  <1>7. CASE Turn(s)
    <2>1. id[s] \in Ids /\ goal[s] \in States
      BY <1>7 DEF Turn, Types, Job
    <2>2. [reports[id[s]] EXCEPT !.state = goal[s]] \in Report
      BY <1>1, <2>1 DEF Report
    <2> QED BY <1>3, <1>7, <2>1, <2>2 DEF Turn
  <1> QED BY <1>2, <1>4, <1>5, <1>6, <1>7

\* What the overlap query leads to.
LEMMA Queried ==
  ASSUME Types, NEW s \in Sessions, Query(s)
  PROVE  \/ Left(s) /\ Retire(s)
         \/ /\ op' = [op EXCEPT ![s] = IF op[s] = "create" THEN "insert" ELSE "move"]
            /\ since' = [since EXCEPT ![s] = @ \cap {id[s]}]
            /\ Overlapping(span[s], id[s]) = {} /\ op[s] \in {"create", "update"}
            /\ UNCHANGED <<id, goal, span, base, seen, listed, crowded, budgetVars, reportVars>>
  BY RetireLeaves DEF Query

LEMMA QueryTypes ==
  ASSUME Types, NEW s \in Sessions, Query(s)
  PROVE  Types'
  <1>1. CASE Left(s)
    BY <1>1, RetireTypes DEF Query, budgetVars, reportVars, Types, TypeOK
  <1>2. CASE ~Left(s)
    <2>1. /\ op' = [op EXCEPT ![s] = IF op[s] = "create" THEN "insert" ELSE "move"]
          /\ since' = [since EXCEPT ![s] = @ \cap {id[s]}]
          /\ op[s] \in {"create", "update"}
          /\ UNCHANGED <<id, goal, span, base, seen, listed, crowded, budgetVars, reportVars>>
      BY <1>2, Queried
    <2>2. TypeOK'
      BY <2>1 DEF Types, TypeOK, Ops, budgetVars, reportVars
    <2>3. \A t \in Sessions : Job(t, op'[t], id'[t], goal'[t])
      BY <2>1 DEF Types, TypeOK, Job
    <2> QED BY <2>2, <2>3 DEF Types, Job
  <1> QED BY <1>1, <1>2

LEMMA TypesInit == Init => Types
  <1> SUFFICES ASSUME Init PROVE Types
    OBVIOUS
  <1>1. TypeOK
    BY Basics, BoundsAssumption DEF Init, TypeOK, Ops, States, Budget, Statuses, NewBudget
  <1>2. \A s \in Sessions : Job(s, op[s], id[s], goal[s])
    BY DEF Init, Job
  <1> QED BY <1>1, <1>2 DEF Types

LEMMA TypesStep == Types /\ [Next]_vars => Types'
  <1> SUFFICES ASSUME Types, [Next]_vars PROVE Types'
    OBVIOUS
  <1>1. ASSUME NEW s \in Sessions, Begins(s) PROVE Types'
    BY <1>1, BeginLoads, LoadTypes
  <1>2. ASSUME NEW s \in Sessions,
               Confirm(s) \/ Revert(s) \/ Patch(s) \/ Restore(s) \/ Edit(s)
        PROVE  Types'
    <2>1. nReports \in 0 .. MaxReports
      BY DEF Types, TypeOK
    <2> QED BY <1>2, <2>1, BudgetTypes, RetireTypes
  <1>3. ASSUME NEW s \in Sessions, DeleteBudget(s) PROVE Types'
    <2>1. TypeOK'
      BY <1>3 DEF DeleteBudget, Types, TypeOK, Budget, reportVars, sessionVars
    <2> QED BY <1>3, <2>1 DEF DeleteBudget, Types, Job, sessionVars
  <1>4. ASSUME NEW s \in Sessions, Query(s) PROVE Types'
    BY <1>4, QueryTypes
  <1>5. ASSUME NEW s \in Sessions,
               Insert(s) \/ Move(s) \/ Rename(s) \/ Remove(s) \/ Turn(s)
        PROVE  Types'
    <2>1. budget \in Budget /\ figures \in Nat
      BY DEF Types, TypeOK
    <2> QED BY <1>5, <2>1, ReportTypes, RetireTypes DEF budgetVars
  <1>6. CASE UNCHANGED vars
    BY <1>6 DEF vars, budgetVars, reportVars, sessionVars, Types, TypeOK, Job
  <1> QED BY <1>1, <1>2, <1>3, <1>4, <1>5, <1>6 DEF Next, BudgetStep, ReportStep, Begins

\* The state keeps its type, and every session holds what its step needs.
THEOREM TypeCorrect == Spec => []TypeOK
  <1>1. Types => TypeOK
    BY DEF Types
  <1> QED BY <1>1, TypesInit, TypesStep, PTL DEF Spec

-----------------------------------------------------------------------------
(* What a step leaves alone. *)

Same(t) ==
    /\ op'[t] = op[t] /\ id'[t] = id[t] /\ goal'[t] = goal[t] /\ span'[t] = span[t]
    /\ base'[t] = base[t] /\ seen'[t] = seen[t] /\ listed'[t] = listed[t]

LEMMA Retired ==
  ASSUME Types, NEW s \in Sessions, Left(s)
  PROVE  /\ op'[s] = "none" /\ ~base'[s].dated
         /\ \A t \in Sessions \ {s} : Same(t)
  BY DEF Types, TypeOK, Left, RetireHaving, NewBudget, Same

LEMMA Loaded ==
  ASSUME Types, NEW s \in Sessions, NEW do, NEW i, NEW to, NEW p, Load(s, do, i, to, p)
  PROVE  /\ op'[s] = do /\ id'[s] = i /\ goal'[s] = to /\ span'[s] = p
         /\ base'[s] = budget /\ listed'[s] = Existing
         /\ seen'[s] = IF i \in Ids THEN reports[i] ELSE NoReport
         /\ \A t \in Sessions \ {s} : Same(t)
         /\ UNCHANGED <<budget, figures, reports, nReports>>
  BY DEF Types, TypeOK, Load, Same, budgetVars, reportVars

\* An UPDATE of one row, or of none.
LEMMA Changed ==
  ASSUME Types, NEW s \in Sessions, NEW row, Change(s, row), id[s] \in Ids
  PROVE  /\ Left(s) /\ UNCHANGED <<budget, figures, nReports>>
         /\ \A i \in Ids \ {id[s]} : reports'[i] = reports[i]
         /\ \/ Exists(id[s]) /\ reports'[id[s]] = row
            \/ ~Exists(id[s]) /\ reports' = reports
  BY ChangeLeaves DEF Types, TypeOK, Change, budgetVars

-----------------------------------------------------------------------------
(* Dates. *)

LEMMA DateRetire ==
  ASSUME Types, DateInv, NEW s \in Sessions, Left(s),
         budget.dated => budget'.dated, StartDateKept'
  PROVE  DateInv'
  <1>1. \A t \in Sessions : base'[t].dated => budget'.dated
    <2> TAKE t \in Sessions
    <2>1. t = s \/ base'[t] = base[t]
      BY Retired DEF Same
    <2>2. base[t].dated => budget.dated
      BY DEF DateInv
    <2> QED BY <2>1, <2>2, Retired
  <1>2. ASSUME NEW t \in Sessions, op'[t] = "restore", goal'[t] = "confirmed"
        PROVE  base'[t].stamped /\ base'[t].dated
    BY <1>2, Retired DEF Same, DateInv
  <1> QED BY <1>1, <1>2 DEF DateInv

\* A confirmation that a step leaves without its date, it restored from a stale load.
Unstamps(s) ==
    ConfirmedIsStamped /\ ~ConfirmedIsStamped' =>
        s \in Owners /\ op[s] = "restore" /\ base[s].stamped /\ ~budget.stamped

LEMMA DateWrites ==
  ASSUME Types, DateInv, NEW s \in Sessions,
         Confirm(s) \/ Revert(s) \/ Patch(s) \/ Restore(s) \/ Edit(s)
  PROVE  (budget.dated => budget'.dated) /\ StartDateKept' /\ Unstamps(s)
  <1>1. /\ budget \in Budget /\ base[s] \in Budget
        /\ budget.stamped \in BOOLEAN /\ budget.dated \in BOOLEAN /\ base[s].dated \in BOOLEAN
    BY DEF Types, TypeOK, Budget
  <1>2. /\ base[s].dated => budget.dated
        /\ budget.status = "confirmed" => budget.dated
        /\ op[s] = "restore" /\ goal[s] = "confirmed" => base[s].stamped /\ budget.dated
    BY DEF DateInv, StartDateKept
  <1>3. ASSUME NEW d \in Dates(s)
        PROVE  budget.dated => Written(base[s].dated, d, budget.dated)
    BY <1>1, <1>2 DEF Dates, Written
  <1> USE DEF StartDateKept, ConfirmedIsStamped, Unstamps
  <1>4. CASE Confirm(s)
    <2>1. CASE budget' = budget
      BY <1>2, <2>1
    <2>2. ASSUME NEW d \in Dates(s), d,
                 budget' = [status |-> "confirmed", stamped |-> TRUE,
                            dated |-> Written(base[s].dated, d, budget.dated)]
          PROVE  budget'.stamped /\ budget'.dated
      <3>1. Written(base[s].dated, d, budget.dated)
        BY <1>1, <1>2, <2>2 DEF Written
      <3> QED BY <2>2, <3>1
    <2> QED BY <1>4, <2>1, <2>2 DEF Confirm, budgetVars
  <1>5. CASE Revert(s)
    BY <1>1, <1>2, <1>5 DEF Revert, Budget
  <1>6. CASE Patch(s)
    <2>1. goal[s] # "confirmed"
      BY <1>6 DEF Patch, Types, Job
    <2>2. CASE budget' = budget
      BY <1>2, <2>2
    <2>3. ASSUME NEW d \in Dates(s),
                 budget' = [budget EXCEPT !.status = Written(base[s].status, goal[s], @),
                                          !.dated = Written(base[s].dated, d, @)]
          PROVE  (budget.dated => budget'.dated) /\ StartDateKept' /\ Unstamps(s)
      <3>1. /\ budget'.status = Written(base[s].status, goal[s], budget.status)
            /\ budget'.stamped = budget.stamped
            /\ budget'.dated = Written(base[s].dated, d, budget.dated)
        BY <1>1, <2>3 DEF Budget
      <3>2. budget'.status = "confirmed" => budget.status = "confirmed"
        BY <2>1, <3>1 DEF Written
      <3> QED BY <1>2, <1>3, <3>1, <3>2
    <2> QED BY <1>6, <2>2, <2>3 DEF Patch, budgetVars
  <1>7. CASE Restore(s)
    <2>1. s \in Owners /\ op[s] = "restore" /\ goal[s] \in {"draft", "confirmed"}
      BY <1>7 DEF Restore, Types, Job
    <2>2. CASE budget' = budget
      BY <1>2, <2>2
    <2>3. CASE budget' = [budget EXCEPT
                 !.status = goal[s],
                 !.stamped = IF goal[s] = "confirmed" THEN @
                             ELSE Written(base[s].stamped, FALSE, @)]
      <3>1. /\ budget'.status = goal[s] /\ budget'.dated = budget.dated
            /\ goal[s] = "confirmed" => budget'.stamped = budget.stamped
        BY <1>1, <2>3 DEF Budget
      <3> QED BY <1>2, <2>1, <3>1
    <2> QED BY <1>7, <2>2, <2>3 DEF Restore
  <1>8. CASE Edit(s)
    <2>1. CASE budget' = budget
      BY <1>2, <2>1
    <2>2. ASSUME NEW d \in Dates(s),
                 budget' = [budget EXCEPT !.dated = Written(base[s].dated, d, @)]
          PROVE  (budget.dated => budget'.dated) /\ StartDateKept' /\ Unstamps(s)
      <3>1. /\ budget'.status = budget.status /\ budget'.stamped = budget.stamped
            /\ budget'.dated = Written(base[s].dated, d, budget.dated)
        BY <1>1, <2>2 DEF Budget
      <3> QED BY <1>2, <1>3, <3>1
    <2> QED BY <1>8, <2>1, <2>2 DEF Edit, budgetVars
  <1> QED BY <1>4, <1>5, <1>6, <1>7, <1>8

LEMMA DateInit == Init => DateInv
  BY DEF Init, DateInv, NewBudget, StartDateKept

\* A step that writes no status and no stamp.
LEMMA NoStamp ==
  ASSUME budget' = budget, NEW s
  PROVE  Unstamps(s)
  BY DEF Unstamps, ConfirmedIsStamped

LEMMA DateStep ==
  ASSUME Types, DateInv, [Next]_vars
  PROVE  DateInv' /\ (budget' = budget \/ \E s \in Sessions : Unstamps(s))
  <1>1. ASSUME NEW s \in Sessions, Begins(s) PROVE DateInv' /\ budget' = budget
    <2>1. PICK do \in Ops, i \in 0 .. MaxReports, to \in Statuses \cup States, p \in Period :
              Load(s, do, i, to, p) /\ Found(s, do, i, to)
      BY <1>1, BeginLoads
    <2>2. \A t \in Sessions : base'[t].dated => budget'.dated
      BY <2>1, Loaded DEF DateInv, Same
    <2>3. \A t \in Sessions :
              op'[t] = "restore" /\ goal'[t] = "confirmed" => base'[t].stamped /\ base'[t].dated
      BY <2>1, Loaded DEF DateInv, Same, Found
    <2>4. StartDateKept'
      BY <2>1, Loaded DEF DateInv, StartDateKept
    <2> QED BY <2>1, <2>2, <2>3, <2>4, Loaded DEF DateInv
  <1>2. ASSUME NEW s \in Sessions,
               Confirm(s) \/ Revert(s) \/ Patch(s) \/ Restore(s) \/ Edit(s)
        PROVE  DateInv' /\ Unstamps(s)
    BY <1>2, BudgetTypes, DateWrites, DateRetire
  <1>3. ASSUME NEW s \in Sessions, DeleteBudget(s) PROVE DateInv' /\ Unstamps(s)
    <2>1. budget' = [budget EXCEPT !.status = "deleted"] /\ UNCHANGED sessionVars
      BY <1>3 DEF DeleteBudget
    <2>2. budget'.status = "deleted" /\ budget'.dated = budget.dated
      BY <2>1 DEF Types, TypeOK, Budget
    <2> QED BY <2>1, <2>2 DEF sessionVars, DateInv, StartDateKept, Unstamps, ConfirmedIsStamped
  <1>4. ASSUME NEW s \in Sessions, Query(s) PROVE DateInv' /\ budget' = budget
    <2>1. budget' = budget /\ StartDateKept'
      BY <1>4 DEF Query, budgetVars, DateInv, StartDateKept
    <2>2. CASE Left(s)
      BY <2>1, <2>2, DateRetire
    <2>3. CASE ~Left(s)
      <3>1. op' = [op EXCEPT ![s] = IF op[s] = "create" THEN "insert" ELSE "move"]
            /\ goal' = goal /\ base' = base
        BY <1>4, <2>3, Queried
      <3>2. \A t \in Sessions : op'[t] = "restore" => op[t] = "restore"
        BY <3>1 DEF Types, TypeOK
      <3> QED BY <2>1, <3>1, <3>2 DEF DateInv
    <2> QED BY <2>1, <2>2, <2>3
  <1>5. ASSUME NEW s \in Sessions,
               Insert(s) \/ Move(s) \/ Rename(s) \/ Remove(s) \/ Turn(s)
        PROVE  DateInv' /\ budget' = budget
    <2>1. Left(s) /\ budget' = budget
      BY <1>5, ReportTypes DEF budgetVars
    <2>2. StartDateKept'
      BY <2>1 DEF DateInv, StartDateKept
    <2> QED BY <2>1, <2>2, DateRetire
  <1>6. CASE UNCHANGED vars
    BY <1>6 DEF vars, budgetVars, sessionVars, DateInv, StartDateKept
  <1> QED BY <1>1, <1>2, <1>3, <1>4, <1>5, <1>6 DEF Next, BudgetStep, ReportStep, Begins

\* However many sessions each side has: a confirmed budget has its start date, whatever
\* confirms, edits and restores overlap.
THEOREM StartDates == Spec => []StartDateKept
  <1>1. Types /\ DateInv => StartDateKept
    BY DEF DateInv
  <1>2. Init => Types /\ DateInv
    BY TypesInit, DateInit
  <1>3. Types /\ DateInv /\ [Next]_vars => Types' /\ DateInv'
    BY TypesStep, DateStep
  <1> QED BY <1>1, <1>2, <1>3, PTL DEF Spec

\* However many sessions each side has, and confirms, reverts, edits and restores overlap:
\* a step leaves a confirmed budget its start date, and only a restore whose loaded
\* confirmation date another request has cleared since leaves it without that date.
THEOREM DatesAreKept == Spec => DatesKept
  <1>1. Init => Types /\ DateInv
    BY TypesInit, DateInit
  <1>2. Types /\ DateInv /\ [Next]_vars => Types' /\ DateInv'
    BY TypesStep, DateStep
  <1>3. Types /\ DateInv /\ [Next]_vars =>
          [/\ StartDateKept'
           /\ ConfirmedIsStamped /\ ~ConfirmedIsStamped' =>
                \E s \in Owners : op[s] = "restore" /\ base[s].stamped /\ ~budget.stamped]_vars
    BY DateStep DEF Unstamps, ConfirmedIsStamped, DateInv
  <1> QED BY <1>1, <1>2, <1>3, PTL DEF Spec, DatesKept

-----------------------------------------------------------------------------
(* Periods. *)

\* But for the reports in `wrote` none appears, and none moves.
Settled(wrote) ==
    \A i \in Ids \ wrote : Exists(i)' => Exists(i) /\ reports'[i].period = reports[i].period

\* What the other sessions are told when session s ends.
LEMMA Told ==
  ASSUME Types, NEW s \in Sessions, NEW wrote \in SUBSET Ids, RetireHaving(s, wrote)
  PROVE  \A t \in Sessions \ {s} :
             op[t] \in {"update", "insert", "move"} => since'[t] = since[t] \cup wrote
  BY DEF Types, TypeOK, RetireHaving

LEMMA PeriodRetire ==
  ASSUME Types, PeriodInv, NEW s \in Sessions, NEW wrote \in SUBSET Ids,
         RetireHaving(s, wrote), Settled(wrote)
  PROVE  PeriodInv'
  <1> SUFFICES ASSUME NEW t \in Sessions, op'[t] \in {"update", "move", "insert"}
               PROVE  /\ op'[t] \in {"update", "move"} /\ Exists(id[t])' /\ id'[t] \notin since'[t]
                           => reports'[id'[t]].period = seen'[t].period
                      /\ op'[t] \in {"insert", "move"} => Overlapping(span[t], id[t])' \subseteq since'[t]
    BY DEF PeriodInv
  <1>1. t # s /\ Same(t)
    BY Retired DEF Left
  <1>2. since'[t] = since[t] \cup wrote
    BY <1>1, Told DEF Same
  <1>3. op[t] \in {"update", "move"} => id[t] \in Ids
    BY DEF Types, Job
  <1>4. ASSUME op'[t] \in {"update", "move"}, Exists(id[t])', id'[t] \notin since'[t]
        PROVE  reports'[id'[t]].period = seen'[t].period
    BY <1>1, <1>2, <1>3, <1>4 DEF Same, PeriodInv, Settled, Exists
  <1>5. ASSUME op'[t] \in {"insert", "move"}, NEW j \in Overlapping(span[t], id[t])', j \notin wrote
        PROVE  j \in since[t]
    <2>1. /\ j \in Ids /\ j # id[t] /\ Exists(j)'
          /\ reports'[j].period.from <= span[t].to /\ reports'[j].period.to >= span[t].from
      BY <1>1, <1>5 DEF Overlapping, Existing, Same
    <2>2. Exists(j) /\ reports'[j].period = reports[j].period
      BY <1>5, <2>1 DEF Settled
    <2>3. j \in Overlapping(span[t], id[t])
      BY <2>1, <2>2 DEF Overlapping, Existing
    <2> QED BY <1>1, <1>5, <2>3 DEF Same, PeriodInv
  <1> QED BY <1>2, <1>4, <1>5

\* Two reports that a step of session s brings onto one day.
Races(s) ==
    \A i, j \in Ids : Shared(i, j)' /\ ~Shared(i, j) =>
        op[s] \in {"insert", "move"} /\ {i, j} \cap since[s] # {}

LEMMA SettledApart ==
  ASSUME Settled({}), NEW s
  PROVE  Races(s)
  BY DEF Settled, Races, Shared, Exists

\* A period put where the writer knows of no other that overlaps it.
LEMMA PlacedApart ==
  ASSUME Types, NEW s \in Sessions, op[s] \in {"insert", "move"},
         NEW n \in Ids, NEW p \in Period, NEW but, but \notin Ids \/ but = n,
         Overlapping(p, but) \subseteq since[s],
         reports'[n].period = p,
         \A i \in Ids \ {n} : reports'[i] = reports[i]
  PROVE  Races(s)
  <1> SUFFICES ASSUME NEW i \in Ids, NEW j \in Ids, Shared(i, j)', ~Shared(i, j)
               PROVE  {i, j} \cap since[s] # {}
    BY DEF Races
  <1>1. /\ Exists(i)' /\ Exists(j)' /\ i # j
        /\ reports'[i].period.from <= reports'[j].period.to
        /\ reports'[j].period.from <= reports'[i].period.to
    BY DEF Shared
  <1>2. ASSUME NEW k \in Ids \ {n}, Exists(k)',
               reports'[k].period.from <= p.to, p.from <= reports'[k].period.to
        PROVE  k \in since[s]
    <2>1. k # but /\ k \in Existing /\ reports'[k] = reports[k]
      BY <1>2 DEF Existing, Exists
    <2>2. /\ p.from \in Int /\ p.to \in Int
          /\ reports[k].period.from \in Int /\ reports[k].period.to \in Int
      BY DaysAssumption DEF Types, TypeOK, Report, Period
    <2>3. k \in Overlapping(p, but)
      BY <1>2, <2>1, <2>2 DEF Overlapping
    <2> QED BY <2>3
  <1>3. i = n \/ j = n
    <2> SUFFICES ASSUME i # n, j # n PROVE FALSE
      OBVIOUS
    <2>1. reports'[i] = reports[i] /\ reports'[j] = reports[j]
      OBVIOUS
    <2> QED BY <1>1, <2>1 DEF Shared, Exists
  <1>4. CASE i = n
    BY <1>1, <1>2, <1>4
  <1>5. CASE j = n
    BY <1>1, <1>2, <1>5
  <1> QED BY <1>3, <1>4, <1>5

\* A commit of one row.
LEMMA RowSettled ==
  ASSUME Types, PeriodInv, NEW s \in Sessions, NEW row \in Report, id[s] \in Ids, Change(s, row),
         op[s] # "move", row.state # "none" => row.period = reports[id[s]].period
  PROVE  PeriodInv' /\ Races(s)
  <1>1. Settled({})
    <2> SUFFICES ASSUME NEW i \in Ids, Exists(i)'
                 PROVE  Exists(i) /\ reports'[i].period = reports[i].period
      BY DEF Settled
    <2>1. CASE i # id[s]
      BY <2>1, Changed DEF Exists
    <2>2. CASE i = id[s]
      BY <2>2, Changed DEF Exists
    <2> QED BY <2>1, <2>2
  <1>2. RetireHaving(s, {})
    BY DEF Change
  <1> QED BY <1>1, <1>2, PeriodRetire, SettledApart

LEMMA InsertPeriod ==
  ASSUME Types, PeriodInv, NEW s \in Sessions, Insert(s)
  PROVE  PeriodInv' /\ Races(s)
  <1>1. op[s] = "insert" /\ id[s] = 0
    BY DEF Insert, Types, Job
  <1>2. CASE Retire(s) /\ UNCHANGED reportVars
    <2>1. Settled({}) /\ RetireHaving(s, {})
      BY <1>2 DEF Settled, Exists, Retire, reportVars
    <2> QED BY <2>1, PeriodRetire, SettledApart
  <1>3. CASE /\ nReports < MaxReports
             /\ reports' = [reports EXCEPT ![nReports + 1] =
                   [state |-> "draft", period |-> span[s], text |-> 0]]
             /\ RetireHaving(s, {nReports + 1})
    <2>1. nReports + 1 \in Ids /\ span[s] \in Period
      BY <1>3, Basics DEF Ids, Types, TypeOK
    <2>2. reports'[nReports + 1].period = span[s]
          /\ \A i \in Ids \ {nReports + 1} : reports'[i] = reports[i]
      BY <1>3, <2>1 DEF Types, TypeOK
    <2>3. Settled({nReports + 1})
      BY <2>1, <2>2 DEF Settled, Exists
    <2>4. PeriodInv'
      BY <1>3, <2>1, <2>3, PeriodRetire
    <2>5. Overlapping(span[s], 0) \subseteq since[s]
      BY <1>1 DEF PeriodInv
    <2> QED BY <1>1, <2>1, <2>2, <2>4, <2>5, Basics, PlacedApart
  <1> QED BY <1>2, <1>3 DEF Insert

LEMMA MovePeriod ==
  ASSUME Types, PeriodInv, NEW s \in Sessions, Move(s)
  PROVE  PeriodInv' /\ Races(s)
  <1> DEFINE n == id[s]
             moved == [from |-> Written(seen[s].period.from, span[s].from, reports[n].period.from),
                       to |-> Written(seen[s].period.to, span[s].to, reports[n].period.to)]
             row == [reports[n] EXCEPT !.period = moved]
  <1>1. n \in Ids /\ op[s] = "move" /\ RetireHaving(s, {n})
    BY DEF Move, Types, Job, Change
  <1>2. /\ reports[n] \in Report /\ reports[n].period \in Period
        /\ span[s] \in Period /\ seen[s].period \in Period
    BY <1>1 DEF Types, TypeOK, Report
  <1>3. Change(s, row)
    <2>1. reports[n].period = [from |-> reports[n].period.from, to |-> reports[n].period.to]
      BY <1>2 DEF Period
    <2> QED BY <1>1, <1>2, <2>1 DEF Move, Report
  <1>4. /\ \A i \in Ids \ {n} : reports'[i] = reports[i]
        /\ \/ Exists(n) /\ reports'[n] = row
           \/ ~Exists(n) /\ reports' = reports
    BY <1>1, <1>3, Changed
  <1>5. PeriodInv'
    <2>1. Settled({n})
      BY <1>4 DEF Settled, Exists
    <2> QED BY <1>1, <2>1, PeriodRetire
  <1>6. CASE ~Exists(n)
    <2>1. Settled({})
      BY <1>4, <1>6 DEF Settled, Exists
    <2> QED BY <1>5, <2>1, SettledApart
  <1>7. CASE Exists(n) /\ n \notin since[s]
    <2>1. reports[n].period = seen[s].period
      BY <1>1, <1>7 DEF PeriodInv
    <2>2. moved = span[s]
      BY <1>2, <2>1 DEF Written, Period
    <2>3. reports'[n].period = span[s]
      BY <1>2, <1>4, <1>7, <2>2 DEF Report
    <2>4. Overlapping(span[s], n) \subseteq since[s]
      BY <1>1 DEF PeriodInv
    <2> QED BY <1>1, <1>2, <1>4, <1>5, <2>3, <2>4, PlacedApart
  <1>8. CASE n \in since[s]
    <2> SUFFICES ASSUME NEW i \in Ids, NEW j \in Ids, Shared(i, j)', ~Shared(i, j)
                 PROVE  {i, j} \cap since[s] # {}
      BY <1>1, <1>5 DEF Races
    <2>1. i = n \/ j = n
      <3> SUFFICES ASSUME i # n, j # n PROVE FALSE
        OBVIOUS
      <3>1. reports'[i] = reports[i] /\ reports'[j] = reports[j]
        BY <1>4
      <3> QED BY <3>1 DEF Shared, Exists
    <2> QED BY <1>8, <2>1
  <1> QED BY <1>6, <1>7, <1>8

LEMMA PeriodWrites ==
  ASSUME Types, PeriodInv, NEW s \in Sessions,
         Insert(s) \/ Move(s) \/ Rename(s) \/ Remove(s) \/ Turn(s)
  PROVE  PeriodInv' /\ Races(s)
  <1>1. \A i \in Ids : reports[i] \in Report
    BY DEF Types, TypeOK
  <1>2. CASE Rename(s)
    <2>1. id[s] \in Ids /\ op[s] # "move"
      BY <1>2 DEF Rename, Types, Job
    <2> DEFINE row == [reports[id[s]] EXCEPT !.text = IF @ < MaxEdits THEN @ + 1 ELSE @]
    <2>2. row \in Report /\ row.period = reports[id[s]].period
      BY <1>1, <2>1 DEF Report
    <2> QED BY <1>2, <2>1, <2>2, RowSettled DEF Rename
  <1>3. CASE Remove(s)
    <2>1. id[s] \in Ids /\ op[s] # "move" /\ NoReport.state = "none"
      BY <1>3 DEF Remove, Types, Job, NoReport
    <2> QED BY <1>3, <2>1, Basics, RowSettled DEF Remove
  <1>4. CASE Turn(s)
    <2>1. id[s] \in Ids /\ goal[s] \in States /\ op[s] # "move"
      BY <1>4 DEF Turn, Types, Job
    <2> DEFINE row == [reports[id[s]] EXCEPT !.state = goal[s]]
    <2>2. row \in Report /\ row.period = reports[id[s]].period
      BY <1>1, <2>1 DEF Report
    <2> QED BY <1>4, <2>1, <2>2, RowSettled DEF Turn
  <1> QED BY <1>2, <1>3, <1>4, InsertPeriod, MovePeriod

LEMMA PeriodInit == Init => PeriodInv
  BY DEF Init, PeriodInv

LEMMA PeriodStep ==
  ASSUME Types, PeriodInv, [Next]_vars
  PROVE  PeriodInv' /\ (Settled({}) \/ \E s \in Sessions : Races(s))
  <1>1. ASSUME NEW s \in Sessions, Begins(s) PROVE PeriodInv' /\ Settled({})
    <2>1. PICK do \in Ops, i \in 0 .. MaxReports, to \in Statuses \cup States, p \in Period :
              Load(s, do, i, to, p) /\ Job(s, do, i, to) /\ Found(s, do, i, to)
      BY <1>1, BeginLoads
    <2>2. reports' = reports /\ do \notin {"insert", "move"}
      BY <2>1, Loaded DEF Found
    <2>3. \A t \in Sessions \ {s} : since'[t] = since[t]
      BY <2>1 DEF Load, Types, TypeOK
    <2>4. ASSUME NEW t \in Sessions, op'[t] \in {"update", "move"}, Exists(id[t])',
                 id'[t] \notin since'[t]
          PROVE  reports'[id'[t]].period = seen'[t].period
      BY <2>1, <2>2, <2>3, <2>4, Loaded DEF Same, PeriodInv, Exists, Job
    <2>5. ASSUME NEW t \in Sessions, op'[t] \in {"insert", "move"}
          PROVE  Overlapping(span[t], id[t])' \subseteq since'[t]
      <3>1. t # s /\ Same(t)
        BY <2>1, <2>2, <2>5, Loaded
      <3> QED BY <2>2, <2>3, <2>5, <3>1 DEF Same, PeriodInv, Overlapping, Existing, Exists
    <2> QED BY <2>2, <2>4, <2>5 DEF PeriodInv, Settled, Exists
  <1>2. ASSUME NEW s \in Sessions,
               Confirm(s) \/ Revert(s) \/ Patch(s) \/ Restore(s) \/ Edit(s)
        PROVE  PeriodInv' /\ Settled({})
    <2>1. Settled({})
      <3>1. CASE Revert(s)
        BY <3>1 DEF Revert, Settled, Exists, NoReport, Types, TypeOK
      <3>2. CASE ~Revert(s)
        <4>1. reports' = reports
          BY <1>2, <3>2 DEF Confirm, Patch, Restore, Edit, reportVars
        <4> QED BY <4>1 DEF Settled, Exists
      <3> QED BY <3>1, <3>2
    <2>2. RetireHaving(s, {})
      BY <1>2 DEF Confirm, Revert, Patch, Restore, Edit, Retire
    <2> QED BY <2>1, <2>2, PeriodRetire
  <1>3. ASSUME NEW s \in Sessions, DeleteBudget(s) PROVE PeriodInv' /\ Settled({})
    BY <1>3 DEF DeleteBudget, reportVars, sessionVars, PeriodInv, Settled, Overlapping, Existing,
                Exists
  <1>4. ASSUME NEW s \in Sessions, Query(s) PROVE PeriodInv' /\ Settled({})
    <2>1. reports' = reports
      BY <1>4 DEF Query, reportVars
    <2>2. Settled({})
      BY <2>1 DEF Settled, Exists
    <2>3. CASE Retire(s)
      BY <2>2, <2>3, PeriodRetire DEF Retire
    <2>4. CASE ~Retire(s)
      <3>1. /\ op' = [op EXCEPT ![s] = IF op[s] = "create" THEN "insert" ELSE "move"]
            /\ since' = [since EXCEPT ![s] = @ \cap {id[s]}]
            /\ Overlapping(span[s], id[s]) = {} /\ op[s] \in {"create", "update"}
            /\ id' = id /\ span' = span /\ seen' = seen
        BY <1>4, <2>4, Queried
      <3>2. op \in [Sessions -> Ops] /\ since \in [Sessions -> SUBSET Ids]
        BY DEF Types, TypeOK
      <3>3. \A t \in Sessions : id[t] \in since'[t] <=> id[t] \in since[t]
        BY <3>1, <3>2
      <3>4. ASSUME NEW t \in Sessions, op'[t] \in {"update", "move"}, Exists(id[t])',
                   id'[t] \notin since'[t]
            PROVE  reports'[id'[t]].period = seen'[t].period
        BY <2>1, <3>1, <3>2, <3>3, <3>4 DEF PeriodInv, Exists
      <3>5. ASSUME NEW t \in Sessions, op'[t] \in {"insert", "move"}
            PROVE  Overlapping(span[t], id[t])' \subseteq since'[t]
        <4>1. Overlapping(span[t], id[t]) \subseteq since'[t]
          BY <3>1, <3>2, <3>5 DEF PeriodInv
        <4> QED BY <2>1, <3>1, <4>1 DEF Overlapping, Existing, Exists
      <3> QED BY <2>2, <3>4, <3>5 DEF PeriodInv
    <2> QED BY <2>2, <2>3, <2>4
  <1>5. ASSUME NEW s \in Sessions,
               Insert(s) \/ Move(s) \/ Rename(s) \/ Remove(s) \/ Turn(s)
        PROVE  PeriodInv' /\ Races(s)
    BY <1>5, PeriodWrites
  <1>6. CASE UNCHANGED vars
    BY <1>6 DEF vars, reportVars, sessionVars, PeriodInv, Settled, Overlapping, Existing, Exists
  <1> QED BY <1>1, <1>2, <1>3, <1>4, <1>5, <1>6 DEF Next, BudgetStep, ReportStep, Begins

\* However many sessions each side has, and whoever creates: two reports come to share a
\* day only in a write that another one has overtaken.
THEOREM PeriodsApart == Spec => OverlapsAreRaces
  <1>1. Init => Types /\ PeriodInv
    BY TypesInit, PeriodInit
  <1>2. Types /\ PeriodInv /\ [Next]_vars => Types' /\ PeriodInv'
    BY TypesStep, PeriodStep
  <1>3. Types /\ PeriodInv /\ [Next]_vars =>
          [\A i, j \in Ids : Shared(i, j)' /\ ~Shared(i, j) =>
             \E s \in Sessions : op[s] \in {"insert", "move"} /\ {i, j} \cap since[s] # {}]_vars
    <2> SUFFICES ASSUME Types, PeriodInv, [Next]_vars, NEW i \in Ids, NEW j \in Ids,
                        Shared(i, j)', ~Shared(i, j)
                 PROVE  \E s \in Sessions : op[s] \in {"insert", "move"} /\ {i, j} \cap since[s] # {}
      OBVIOUS
    <2>1. ~Settled({})
      BY DEF Settled, Shared, Exists
    <2> QED BY <2>1, PeriodStep DEF Races
  <1> QED BY <1>1, <1>2, <1>3, PTL DEF Spec, OverlapsAreRaces

-----------------------------------------------------------------------------
(* The workflow. *)

LEMMA Sides ==
  /\ \A s \in Owners : s \in Sessions /\ Side(s) = Owners
  /\ \A s \in Reviewers : s \in Sessions /\ Side(s) = Reviewers
  BY SessionsAssumption DEF Side, Reviewers, Sessions

\* A report is changed by the side that its state belongs to.
Holds(s, state) == IF state = "submitted" THEN s \in Reviewers ELSE s \in Owners

Own(s) == \A i \in Ids : reports'[i] # reports[i] =>
                            reports[i].state = "none" \/ Holds(s, reports[i].state)

\* Reports are inserted one after the other.
Fresh == \A i \in Ids : i > nReports => reports[i].state = "none"

Follows == \A i \in Ids : reports'[i].state # reports[i].state =>
                             <<reports[i].state, reports'[i].state>> \in Edges

\* The session whose decision it is acts on the report it loaded.
Reviewed(s) ==
    \A i \in Ids :
        reports'[i].state \in {"approved", "rejected"} /\ reports[i].state # reports'[i].state
            => s \in Reviewers /\ id[s] = i /\ seen[s] = reports[i]

LEMMA FlowRetire ==
  ASSUME Types, FlowInv, NEW s \in Sessions, op[s] # "none", Left(s), Own(s), Fresh'
  PROVE  FlowInv'
  <1>1. ASSUME NEW t \in Sessions \ {s}, op[t] # "none", NEW i \in Ids,
               reports[i].state # "none", Holds(t, reports[i].state)
        PROVE  reports'[i] = reports[i]
    <2>1. ~Holds(s, reports[i].state)
      BY <1>1, Sides DEF Holds, FlowInv, Alone
    <2> QED BY <1>1, <2>1 DEF Own
  <1>5. Alone'
    <2>1. \A t \in Sessions : op'[t] # "none" => op'[t] = op[t]
      BY Retired DEF Same
    <2>2. \A t \in Sessions : Side(t) \subseteq Sessions
      BY DEF Side, Sessions
    <2> QED BY <2>1, <2>2 DEF FlowInv, Alone, Side
  <1>2. ASSUME NEW t \in Sessions, op'[t] = "revert"
        PROVE  \A i \in listed'[t] : reports'[i].state = "draft"
    <2>1. t # s /\ Same(t) /\ op[t] # "none" /\ t \in Owners /\ listed[t] \subseteq Ids
      BY <1>2, Retired DEF Same, Types, TypeOK, Job
    <2>2. \A i \in listed[t] : reports[i].state = "draft"
      BY <1>2, <2>1 DEF Same, FlowInv
    <2> QED BY <1>1, <2>1, <2>2 DEF Same, Holds
  <1>3. ASSUME NEW t \in Sessions, op'[t] \in {"update", "move", "rename", "remove"}
        PROVE  reports'[id'[t]].state = "draft"
    <2>1. t # s /\ Same(t) /\ op[t] # "none" /\ t \in Owners /\ id[t] \in Ids
      BY <1>3, Retired DEF Same, Types, Job
    <2>2. reports[id[t]].state = "draft"
      BY <1>3, <2>1 DEF Same, FlowInv
    <2> QED BY <1>1, <2>1, <2>2 DEF Same, Holds
  <1>4. ASSUME NEW t \in Sessions, op'[t] = "turn"
        PROVE  /\ reports'[id'[t]] = seen'[t]
               /\ IF seen'[t].state = "submitted"
                  THEN t \in Reviewers /\ goal'[t] \in {"approved", "rejected"}
                  ELSE t \in Owners /\ <<seen'[t].state, goal'[t]>> \in
                                          {<<"draft", "submitted">>, <<"rejected", "draft">>}
    <2>1. t # s /\ Same(t) /\ id[t] \in Ids /\ op[t] = "turn"
      BY <1>4, Retired DEF Same, Types, Job
    <2>2. /\ reports[id[t]] = seen[t]
          /\ IF seen[t].state = "submitted"
             THEN t \in Reviewers /\ goal[t] \in {"approved", "rejected"}
             ELSE t \in Owners /\ <<seen[t].state, goal[t]>> \in
                                     {<<"draft", "submitted">>, <<"rejected", "draft">>}
      BY <2>1 DEF FlowInv
    <2>3. seen[t].state # "none" /\ Holds(t, seen[t].state)
      BY <2>2 DEF Holds
    <2>4. reports'[id[t]] = reports[id[t]]
      BY <1>1, <2>1, <2>2, <2>3
    <2> QED BY <2>1, <2>2, <2>4 DEF Same
  <1> QED BY <1>2, <1>3, <1>4, <1>5 DEF FlowInv, Fresh, Reviewers

\* A step that writes one report, which session s holds.
LEMMA RowChanged ==
  ASSUME Types, FlowInv, NEW s \in Sessions, NEW row, id[s] \in Ids, Change(s, row),
         Holds(s, reports[id[s]].state),
         row.state # reports[id[s]].state => <<reports[id[s]].state, row.state>> \in Edges,
         row.state \in {"approved", "rejected"} =>
             (s \in Reviewers /\ seen[s] = reports[id[s]]) \/ row.state = reports[id[s]].state
  PROVE  Own(s) /\ Fresh' /\ Follows /\ Reviewed(s)
  <1>1. /\ nReports' = nReports
        /\ \A i \in Ids \ {id[s]} : reports'[i] = reports[i]
        /\ \/ Exists(id[s]) /\ reports'[id[s]] = row
           \/ ~Exists(id[s]) /\ reports' = reports
    BY Changed
  <1>2. Own(s)
    BY <1>1 DEF Own
  <1>3. Fresh'
    BY <1>1 DEF FlowInv, Fresh, Exists
  <1>4. Follows
    BY <1>1 DEF Follows
  <1>5. Reviewed(s)
    BY <1>1 DEF Reviewed
  <1> QED BY <1>2, <1>3, <1>4, <1>5

\* What a session holds when it commits: the whole of FlowInv that its step needs.
LEMMA Held ==
  ASSUME Types, FlowInv, NEW s \in Sessions,
         op[s] \in {"move", "rename", "remove", "turn"}
  PROVE  id[s] \in Ids /\ reports[id[s]] \in Report /\ Holds(s, reports[id[s]].state)
  <1>1. id[s] \in Ids /\ reports[id[s]] \in Report
    BY DEF Types, TypeOK, Job
  <1>2. CASE op[s] = "turn"
    BY <1>1, <1>2 DEF FlowInv, Holds
  <1>3. CASE op[s] # "turn"
    BY <1>1, <1>3 DEF FlowInv, Types, Job, Holds
  <1> QED BY <1>1, <1>2, <1>3

LEMMA ReportFlow ==
  ASSUME Types, FlowInv, NEW s \in Sessions,
         Insert(s) \/ Move(s) \/ Rename(s) \/ Remove(s) \/ Turn(s)
  PROVE  Own(s) /\ Fresh' /\ Follows /\ Reviewed(s)
  <1>1. CASE Insert(s)
    <2>1. Fresh
      BY DEF FlowInv, Fresh
    <2>2. CASE UNCHANGED reportVars
      BY <2>1, <2>2 DEF reportVars, Own, Fresh, Follows, Reviewed
    <2>3. CASE /\ nReports < MaxReports /\ nReports' = nReports + 1
               /\ reports' = [reports EXCEPT ![nReports + 1] =
                     [state |-> "draft", period |-> span[s], text |-> 0]]
      <3>1. nReports \in Nat /\ nReports + 1 \in Ids /\ nReports + 1 > nReports
        BY <2>3, Basics DEF Types, TypeOK, Ids
      <3>2. reports[nReports + 1].state = "none"
        BY <2>1, <3>1 DEF Fresh
      <3>3. /\ reports'[nReports + 1].state = "draft"
            /\ \A i \in Ids \ {nReports + 1} : reports'[i] = reports[i]
        BY <2>3, <3>1 DEF Types, TypeOK
      <3>4. Fresh'
        <4>1. \A i \in Ids : i \in Nat /\ (i > nReports + 1 => i > nReports /\ i # nReports + 1)
          BY <3>1, Basics DEF Ids
        <4> QED BY <2>1, <2>3, <3>3, <4>1 DEF Fresh
      <3> QED BY <3>2, <3>3, <3>4 DEF Own, Follows, Reviewed, Edges
    <2> QED BY <1>1, <2>2, <2>3 DEF Insert
  <1>2. CASE Move(s)
    <2>1. op[s] = "move"
      BY <1>2 DEF Move
    <2>2. PICK row : Change(s, row) /\ row.state = reports[id[s]].state
      BY <1>2, <2>1, Held DEF Move, Report
    <2> QED BY <2>1, <2>2, Held, RowChanged
  <1>3. CASE Rename(s)
    <2>1. op[s] = "rename"
      BY <1>3 DEF Rename
    <2>2. PICK row : Change(s, row) /\ row.state = reports[id[s]].state
      BY <1>3, <2>1, Held DEF Rename, Report
    <2> QED BY <2>1, <2>2, Held, RowChanged
  <1>4. CASE Remove(s)
    <2>1. op[s] = "remove" /\ Change(s, NoReport) /\ NoReport.state = "none"
      BY <1>4 DEF Remove, NoReport
    <2>2. reports[id[s]].state = "draft"
      BY <2>1 DEF FlowInv
    <2> QED BY <2>1, <2>2, Held, RowChanged DEF Edges
  <1>5. CASE Turn(s)
    <2>1. op[s] = "turn"
      BY <1>5 DEF Turn
    <2>2. PICK row : Change(s, row) /\ row.state = goal[s]
      BY <1>5, <2>1, Held DEF Turn, Report
    <2>3. /\ reports[id[s]] = seen[s]
          /\ IF seen[s].state = "submitted"
             THEN s \in Reviewers /\ goal[s] \in {"approved", "rejected"}
             ELSE s \in Owners /\ <<seen[s].state, goal[s]>> \in
                                     {<<"draft", "submitted">>, <<"rejected", "draft">>}
      BY <2>1 DEF FlowInv
    <2>4. <<reports[id[s]].state, row.state>> \in Edges
      BY <2>2, <2>3 DEF Edges
    <2>5. row.state \in {"approved", "rejected"} => s \in Reviewers /\ seen[s] = reports[id[s]]
      BY <2>2, <2>3
    <2> QED BY <2>1, <2>2, <2>4, <2>5, Held, RowChanged
  <1> QED BY <1>1, <1>2, <1>3, <1>4, <1>5

LEMMA BudgetFlow ==
  ASSUME Types, FlowInv, NEW s \in Sessions,
         Confirm(s) \/ Revert(s) \/ Patch(s) \/ Restore(s) \/ Edit(s)
  PROVE  Own(s) /\ Fresh' /\ Follows /\ Reviewed(s)
  <1>1. Fresh /\ nReports' = nReports
    BY BudgetTypes DEF FlowInv, Fresh
  <1>2. CASE reports' = reports
    BY <1>1, <1>2 DEF Own, Fresh, Follows, Reviewed
  <1>3. CASE Revert(s) /\ reports' # reports
    <2>1. op[s] = "revert" /\ s \in Owners /\ \A i \in listed[s] : reports[i].state = "draft"
      BY <1>3 DEF Revert, Types, Job, FlowInv
    <2>2. \A i \in Ids : reports'[i] = IF i \in listed[s] THEN NoReport ELSE reports[i]
      BY <1>3 DEF Revert
    <2>3. NoReport.state = "none"
      BY DEF NoReport
    <2>4. Own(s)
      BY <2>1, <2>2 DEF Own, Holds
    <2>5. Fresh'
      BY <1>1, <2>2, <2>3 DEF Fresh
    <2>6. Follows
      BY <2>1, <2>2, <2>3 DEF Follows, Edges
    <2>7. Reviewed(s)
      BY <2>2, <2>3 DEF Reviewed
    <2> QED BY <2>4, <2>5, <2>6, <2>7
  <1>4. Revert(s) \/ reports' = reports
    BY DEF Confirm, Patch, Restore, Edit, reportVars
  <1> QED BY <1>2, <1>3, <1>4

LEMMA FlowInit == Init => FlowInv
  BY DEF Init, FlowInv, Alone, Side, Sessions, NoReport

\* A step that writes no report follows the workflow.
LEMMA Quiet ==
  ASSUME reports' = reports, NEW s
  PROVE  Follows /\ Reviewed(s)
  BY DEF Follows, Reviewed

\* A request that begins while none of its side is under way leaves each side one.
LEMMA AloneKept ==
  ASSUME Types, Alone, NEW s \in Sessions, NEW do, NEW i, NEW to, NEW p,
         Load(s, do, i, to, p), ~crowded'
  PROVE  Alone'
  <1>1. \A t \in Side(s) \ {s} : op[t] = "none"
    BY DEF Load
  <1>2. \A t \in Sessions \ {s} : op'[t] = op[t]
    BY Loaded DEF Same
  <1>3. \A t \in Sessions : /\ t \in Side(t) /\ Side(t) \subseteq Sessions
                            /\ \A u \in Side(t) : Side(u) = Side(t)
    BY SessionsAssumption DEF Side, Sessions
  <1>4. SUFFICES ASSUME NEW t \in Sessions, NEW u \in Side(t),
                        op'[t] # "none", op'[u] # "none", t # u
                 PROVE  FALSE
    BY DEF Alone, Side
  <1>5. CASE t = s
    BY <1>1, <1>2, <1>3, <1>4, <1>5
  <1>6. CASE u = s
    BY <1>1, <1>2, <1>3, <1>4, <1>6
  <1>7. CASE t # s /\ u # s
    BY <1>2, <1>3, <1>4, <1>7 DEF Alone
  <1> QED BY <1>5, <1>6, <1>7

\* Who commits has begun.
LEMMA Commits ==
  ASSUME NEW s,
         \/ Confirm(s) \/ Revert(s) \/ Patch(s) \/ Restore(s) \/ Edit(s)
         \/ Query(s) \/ Insert(s) \/ Move(s) \/ Rename(s) \/ Remove(s) \/ Turn(s)
  PROVE  op[s] # "none"
  BY DEF Confirm, Revert, Patch, Restore, Edit, Query, Insert, Move, Rename, Remove, Turn

LEMMA FlowStep ==
  ASSUME Types, FlowInv, [Next]_vars
  PROVE  /\ crowded' \/ FlowInv'
         /\ reports' = reports \/ \E s \in Sessions : Follows /\ Reviewed(s)
  <1>1. ASSUME NEW s \in Sessions, Begins(s)
        PROVE  (crowded' \/ FlowInv') /\ reports' = reports
    <2>1. PICK do \in Ops, i \in 0 .. MaxReports, to \in Statuses \cup States, p \in Period :
              Load(s, do, i, to, p) /\ Job(s, do, i, to) /\ Found(s, do, i, to)
      BY <1>1, BeginLoads
    <2>2. reports' = reports /\ nReports' = nReports
      BY <2>1, Loaded
    <2>6. crowded' \/ Alone'
      BY <2>1, AloneKept DEF FlowInv
    <2>3. \A t \in Sessions : op'[t] = "revert" => \A j \in listed'[t] : reports'[j].state = "draft"
      BY <2>1, <2>2, Loaded DEF Found, FlowInv, Same
    <2>4. \A t \in Sessions : op'[t] \in {"update", "move", "rename", "remove"} =>
                               reports'[id'[t]].state = "draft"
      BY <2>1, <2>2, Loaded DEF Found, FlowInv, Same
    <2>5. ASSUME NEW t \in Sessions, op'[t] = "turn"
          PROVE  /\ reports'[id'[t]] = seen'[t]
                 /\ IF seen'[t].state = "submitted"
                    THEN t \in Reviewers /\ goal'[t] \in {"approved", "rejected"}
                    ELSE t \in Owners /\ <<seen'[t].state, goal'[t]>> \in
                                            {<<"draft", "submitted">>, <<"rejected", "draft">>}
      <3>1. CASE t = s
        BY <2>1, <2>2, <2>5, <3>1, Loaded DEF Found, Job
      <3>2. CASE t # s
        BY <2>1, <2>2, <2>5, <3>2, Loaded DEF FlowInv, Same
      <3> QED BY <3>1, <3>2
    <2> QED BY <2>2, <2>3, <2>4, <2>5, <2>6 DEF FlowInv, Reviewers
  <1>2. ASSUME NEW s \in Sessions,
               Confirm(s) \/ Revert(s) \/ Patch(s) \/ Restore(s) \/ Edit(s)
        PROVE  FlowInv' /\ Follows /\ Reviewed(s)
    BY <1>2, Commits, BudgetTypes, BudgetFlow, FlowRetire
  <1>3. ASSUME NEW s \in Sessions, DeleteBudget(s) PROVE FlowInv' /\ reports' = reports
    BY <1>3 DEF DeleteBudget, reportVars, sessionVars, FlowInv, Alone, Side, Reviewers
  <1>4. ASSUME NEW s \in Sessions, Query(s) PROVE FlowInv' /\ reports' = reports
    <2>1. reports' = reports /\ nReports' = nReports
      BY <1>4 DEF Query, reportVars
    <2>2. CASE Left(s)
      <3>1. Own(s) /\ Fresh'
        BY <2>1 DEF Own, Fresh, FlowInv
      <3> QED BY <1>4, <2>1, <2>2, <3>1, Commits, FlowRetire
    <2>3. CASE ~Left(s)
      <3>1. /\ op' = [op EXCEPT ![s] = IF op[s] = "create" THEN "insert" ELSE "move"]
            /\ op[s] \in {"create", "update"}
            /\ UNCHANGED <<id, goal, seen, listed>>
        BY <1>4, <2>3, Queried
      <3>2. op \in [Sessions -> Ops]
        BY DEF Types, TypeOK
      <3>3. \A t \in Sessions : op'[t] # "none" => op[t] # "none"
        BY <3>1, <3>2
      <3>4. Alone'
        BY <3>3 DEF FlowInv, Alone, Side, Sessions
      <3> QED BY <2>1, <3>1, <3>2, <3>4 DEF FlowInv, Reviewers
    <2> QED BY <2>2, <2>3
  <1>5. ASSUME NEW s \in Sessions,
               Insert(s) \/ Move(s) \/ Rename(s) \/ Remove(s) \/ Turn(s)
        PROVE  FlowInv' /\ Follows /\ Reviewed(s)
    BY <1>5, Commits, ReportTypes, ReportFlow, FlowRetire
  <1>6. CASE UNCHANGED vars
    BY <1>6 DEF vars, reportVars, sessionVars, FlowInv, Alone, Side, Reviewers
  <1> QED BY <1>1, <1>2, <1>3, <1>4, <1>5, <1>6 DEF Next, BudgetStep, ReportStep, Begins

\* Once crowded, always crowded.
LEMMA StaysCrowded ==
  ASSUME Types, [Next]_vars, crowded
  PROVE  crowded'
  <1>1. ASSUME NEW s \in Sessions, Begins(s) PROVE crowded'
    BY <1>1, BeginLoads DEF Load
  <1>2. ASSUME NEW s \in Sessions, Left(s) PROVE crowded'
    BY <1>2 DEF Left, RetireHaving
  <1>3. ASSUME NEW s \in Sessions, Query(s) PROVE crowded'
    BY <1>2, <1>3, Queried
  <1>4. ASSUME NEW s \in Sessions, DeleteBudget(s) PROVE crowded'
    BY <1>4 DEF DeleteBudget, sessionVars
  <1>5. CASE UNCHANGED vars
    BY <1>5 DEF vars, sessionVars
  <1> QED BY <1>1, <1>2, <1>3, <1>4, <1>5, BudgetTypes, ReportTypes
          DEF Next, BudgetStep, ReportStep, Begins

Flows == crowded \/ FlowInv

LEMMA FlowsStep == Types /\ Flows /\ [Next]_vars => Types' /\ Flows'
  BY TypesStep, FlowStep, StaysCrowded DEF Flows

\* Until a side makes two requests at a time, every step of every report is one of the
\* workflow, although a side writes the status on what it loaded before.
THEOREM WorkflowKept == Spec => Workflow
  <1>1. Init => Types /\ Flows
    BY TypesInit, FlowInit DEF Flows
  <1>2. Types /\ Flows /\ [Next]_vars =>
          [~crowded => \A i \in Ids : reports'[i].state # reports[i].state =>
             <<reports[i].state, reports'[i].state>> \in Edges]_vars
    BY FlowStep DEF Flows, Follows
  <1> QED BY <1>1, <1>2, FlowsStep, PTL DEF Spec, Workflow

\* Until a side makes two requests at a time, a decision is on the very report its
\* reviewer loaded.
THEOREM ReviewsOnWhatWasRead == Spec => ReviewsWhatWasRead
  <1>1. Init => Types /\ Flows
    BY TypesInit, FlowInit DEF Flows
  <1>2. Types /\ Flows /\ [Next]_vars =>
          [~crowded => \A i \in Ids :
             reports'[i].state \in {"approved", "rejected"} /\ reports[i].state # reports'[i].state
               => \E s \in Reviewers : id[s] = i /\ seen[s] = reports[i]]_vars
    BY FlowStep DEF Flows, Reviewed
  <1> QED BY <1>1, <1>2, FlowsStep, PTL DEF Spec, ReviewsWhatWasRead
=============================================================================
