--------------------------- MODULE CurrencyLedger ---------------------------
(***************************************************************************)
(* The currency ledger of one budget (services/budget): report-line        *)
(* expenses are allocated first-in-first-out against currency-conversion   *)
(* lots.  Every crud function commits on its own, so a request is a        *)
(* sequence of separately committed steps; the per-budget advisory lock    *)
(* serialises the requests that read balances and write allocation rows,   *)
(* but deleting a line or a report takes no lock.                          *)
(*                                                                         *)
(* Line ids and lot ids are numbered in insertion order, which under the   *)
(* lock is also the order of created_at.  One report stands for the        *)
(* budget's reports: a request checks its status when it starts.           *)
(***************************************************************************)
EXTENDS Integers, FiniteSets, FiniteSetsExt

CONSTANTS
    Requests,   \* concurrent requests, each with its own database session
    Editors,    \* those of them that may edit a line
    NoRequest,  \* owner of the advisory lock when it is free
    Amounts,    \* amounts a client may send; Money allows zero and negatives
    Dates,      \* values of converted_at
    MaxOps,     \* how many operations of each kind are ever started (a bound)
    MaxFaults   \* how many failures are ever injected (a bound)

Kinds == {"create", "update", "convert", "delete", "drop"}

ASSUME RequestsAssumption == NoRequest \notin Requests /\ Editors \subseteq Requests
ASSUME AmountsAssumption == Amounts \subseteq Int
ASSUME DatesAssumption == Dates \subseteq Nat /\ Dates # {}
ASSUME BoundsAssumption == MaxOps \in [Kinds -> Nat] /\ MaxFaults \in Nat

Lines == 1 .. MaxOps["create"]
Lots == 1 .. MaxOps["convert"]
LastLine == MaxOps["create"]

VARIABLES
    report,      \* status of the report the lines belong to
    rows,        \* ids of the report_lines rows that exist
    lineAmount,  \* report_lines.amount
    nLines,      \* report_lines ever inserted
    nLots,       \* currency_conversions inserted; lots are never deleted
    lotAmount,   \* currency_conversions.local_amount
    lotDate,     \* currency_conversions.converted_at
    alloc,       \* alloc[l][k]: amount_allocated of line l from lot k
    drawn,       \* drawn[k]: SUM(amount_allocated) GROUP BY conversion_id,
                 \* with its partial sums: drawn[k][m] is over lines 1..m
    covered,     \* covered[l]: SUM(amount_allocated) GROUP BY report_line_id
    lock,        \* holder of pg_advisory_lock(budget id)
    pc,          \* where each request is
    op,          \* what it is doing
    target,      \* the line or the lot it works on
    amt,         \* amount held by its ORM object
    prev,        \* previous_amount, read before the lock
    pend,        \* entities of _consume_fifo it has yet to visit
    rem,         \* remaining of _consume_fifo
    begun,       \* operations started, per kind (a bound)
    faults       \* failures injected (a bound)

lineVars  == <<report, rows, lineAmount, nLines>>
lotVars   == <<nLots, lotAmount, lotDate>>
allocVars == <<alloc, drawn, covered>>
jobVars   == <<op, target, amt, prev>>
fifoVars  == <<pend, rem>>
bounds    == <<begun, faults>>
vars == <<lineVars, lotVars, allocVars, lock, pc, jobVars, fifoVars, bounds>>

PCs == {"idle", "want", "write", "clear", "read", "draw", "unlock", "commit"}
Ops == Kinds \cup {"restore", "none"}
Sums == [0 .. LastLine -> Int]
Draws == [line : Lines, lot : Lots, bal : Nat]

TypeOK ==
    /\ report \in {"draft", "submitted", "gone"}
    /\ rows \subseteq Lines
    /\ lineAmount \in [Lines -> Int]
    /\ nLines \in 0 .. LastLine
    /\ nLots \in 0 .. MaxOps["convert"]
    /\ lotAmount \in [Lots -> Int]
    /\ lotDate \in [Lots -> Int]
    /\ alloc \in [Lines -> [Lots -> Nat]]
    /\ drawn \in [Lots -> Sums]
    /\ covered \in [Lines -> Int]
    /\ lock \in Requests \cup {NoRequest}
    /\ pc \in [Requests -> PCs]
    /\ op \in [Requests -> Ops]
    /\ target \in [Requests -> Nat]
    /\ amt \in [Requests -> Int]
    /\ prev \in [Requests -> Int]
    /\ pend \in [Requests -> SUBSET Draws]
    /\ rem \in [Requests -> Int]
    /\ begun \in [Kinds -> Nat]
    /\ faults \in Nat

Init ==
    /\ report = "draft"
    /\ rows = {}
    /\ lineAmount = [l \in Lines |-> 0]
    /\ nLines = 0
    /\ nLots = 0
    /\ lotAmount = [k \in Lots |-> 0]
    /\ lotDate = [k \in Lots |-> 0]
    /\ alloc = [l \in Lines |-> [k \in Lots |-> 0]]
    /\ drawn = [k \in Lots |-> [m \in 0 .. LastLine |-> 0]]
    /\ covered = [l \in Lines |-> 0]
    /\ lock = NoRequest
    /\ pc = [r \in Requests |-> "idle"]
    /\ op = [r \in Requests |-> "none"]
    /\ target = [r \in Requests |-> 0]
    /\ amt = [r \in Requests |-> 0]
    /\ prev = [r \in Requests |-> 0]
    /\ pend = [r \in Requests |-> {}]
    /\ rem = [r \in Requests |-> 0]
    /\ begun = [o \in Kinds |-> 0]
    /\ faults = 0

-----------------------------------------------------------------------------
(* Starting a request: the checks made before the lock is asked for. *)

Goto(r, to) == pc' = [pc EXCEPT ![r] = to]

Begin(r, kind, next, line, a, loaded) ==
    /\ pc[r] = "idle"
    /\ begun[kind] < MaxOps[kind]
    /\ begun' = [begun EXCEPT ![kind] = @ + 1]
    /\ Goto(r, next)
    /\ op' = [op EXCEPT ![r] = kind]
    /\ target' = [target EXCEPT ![r] = line]
    /\ amt' = [amt EXCEPT ![r] = a]
    /\ prev' = [prev EXCEPT ![r] = loaded]
    /\ UNCHANGED <<lineVars, lotVars, allocVars, lock, fifoVars, faults>>

BeginCreate(r) ==
    /\ report = "draft"
    /\ \E a \in Amounts : Begin(r, "create", "want", 0, a, 0)

\* The line is loaded here: its amount is read before the lock is held.
BeginUpdate(r) ==
    /\ r \in Editors
    /\ report = "draft"
    /\ \E l \in rows, a \in Amounts :
          Begin(r, "update", "want", l, a, lineAmount[l])

\* converted_at travels in prev; a conversion checks no report status.
BeginConvert(r) ==
    \E a \in Amounts, d \in Dates : Begin(r, "convert", "want", 0, a, d)

BeginDelete(r) ==
    /\ report = "draft"
    /\ \E l \in rows : Begin(r, "delete", "commit", l, 0, 0)

BeginDrop(r) ==
    /\ report = "draft"
    /\ Begin(r, "drop", "commit", 0, 0, 0)

-----------------------------------------------------------------------------
(* The advisory lock, on a connection of its own. *)

\* Mutant: the lock is taken without waiting for its holder.
AcquireAnyway(r) ==
    /\ pc[r] = "want"
    /\ lock' = r
    /\ Goto(r, "write")
    /\ UNCHANGED <<lineVars, lotVars, allocVars, jobVars, fifoVars, bounds>>

Acquire(r) ==
    /\ pc[r] = "want"
    /\ lock = NoRequest
    /\ lock' = r
    /\ Goto(r, "write")
    /\ UNCHANGED <<lineVars, lotVars, allocVars, jobVars, fifoVars, bounds>>

Retire(r) ==
    /\ Goto(r, "idle")
    /\ op' = [op EXCEPT ![r] = "none"]
    /\ target' = [target EXCEPT ![r] = 0]
    /\ amt' = [amt EXCEPT ![r] = 0]
    /\ prev' = [prev EXCEPT ![r] = 0]
    /\ pend' = [pend EXCEPT ![r] = {}]
    /\ rem' = [rem EXCEPT ![r] = 0]

Release(r) ==
    /\ pc[r] = "unlock"
    /\ lock' = NoRequest
    /\ Retire(r)
    /\ UNCHANGED <<lineVars, lotVars, allocVars, bounds>>

-----------------------------------------------------------------------------
(* The write that opens the critical section. *)

InsertLine(r) ==
    /\ pc[r] = "write" /\ op[r] = "create"
    /\ report # "gone"
    /\ nLines + 1 \in Lines
    /\ nLines' = nLines + 1
    /\ rows' = rows \cup {nLines + 1}
    /\ lineAmount' = [lineAmount EXCEPT ![nLines + 1] = amt[r]]
    /\ target' = [target EXCEPT ![r] = nLines + 1]
    /\ Goto(r, "clear")
    /\ UNCHANGED <<report, lotVars, allocVars, lock, op, amt, prev, fifoVars, bounds>>

\* The unit of work compares with the amount loaded before the lock: an edit
\* back to the loaded amount issues no UPDATE at all.
WriteAmount(r) ==
    /\ pc[r] = "write" /\ op[r] = "update"
    /\ \/ amt[r] = prev[r] /\ UNCHANGED lineAmount
       \/ /\ amt[r] # prev[r]
          /\ target[r] \in rows
          /\ lineAmount' = [lineAmount EXCEPT ![target[r]] = amt[r]]
    /\ Goto(r, "clear")
    /\ UNCHANGED <<report, rows, nLines, lotVars, allocVars, lock, jobVars, fifoVars, bounds>>

\* The row, or the report it hangs from, was deleted meanwhile: the flush
\* raises before the try block and nothing is compensated.
WriteFails(r) ==
    /\ pc[r] = "write"
    /\ \/ op[r] = "create" /\ report = "gone"
       \/ op[r] = "update" /\ amt[r] # prev[r] /\ target[r] \notin rows
    /\ Goto(r, "unlock")
    /\ UNCHANGED <<lineVars, lotVars, allocVars, lock, jobVars, fifoVars, bounds>>

InsertLot(r) ==
    /\ pc[r] = "write" /\ op[r] = "convert"
    /\ nLots + 1 \in Lots
    /\ nLots' = nLots + 1
    /\ lotAmount' = [lotAmount EXCEPT ![nLots + 1] = amt[r]]
    /\ lotDate' = [lotDate EXCEPT ![nLots + 1] = prev[r]]
    /\ target' = [target EXCEPT ![r] = nLots + 1]
    /\ Goto(r, "read")
    /\ UNCHANGED <<lineVars, allocVars, lock, op, amt, prev, fifoVars, bounds>>

-----------------------------------------------------------------------------
(* allocate_fifo_service and _backfill_unsatisfied_expenses. *)

\* The partial sums of an aggregate after row l of it changed by n.
Shift(sums, l, n) ==
    [m \in 0 .. LastLine |-> IF l <= m THEN sums[m] + n ELSE sums[m]]

FreeLine(l) ==
    /\ alloc' = [alloc EXCEPT ![l] = [k \in Lots |-> 0]]
    /\ drawn' = [k \in Lots |-> Shift(drawn[k], l, -alloc[l][k])]
    /\ covered' = [covered EXCEPT ![l] = 0]

\* Mutant: the old allocation rows of an edited line stay.
ClearNothing(r) ==
    /\ pc[r] = "clear"
    /\ Goto(r, "read")
    /\ UNCHANGED <<lineVars, lotVars, allocVars, lock, jobVars, fifoVars, bounds>>

Clear(r) ==
    /\ pc[r] = "clear"
    /\ FreeLine(target[r])
    /\ Goto(r, "read")
    /\ UNCHANGED <<lineVars, lotVars, lock, jobVars, fifoVars, bounds>>

Consume(r, entities) ==
    /\ pend' = [pend EXCEPT ![r] = entities]
    /\ rem' = [rem EXCEPT ![r] = amt[r]]
    /\ Goto(r, "draw")
    /\ UNCHANGED <<lineVars, lotVars, allocVars, lock, jobVars, bounds>>

Drawn(k) == drawn[k][LastLine]
Balance(k) == lotAmount[k] - Drawn(k)
Unmet(l) == lineAmount[l] - covered[l]

\* list_unconsumed_lots
ReadLots(r) ==
    /\ pc[r] = "read" /\ op[r] \in {"create", "update", "restore"}
    /\ report # "gone"
    /\ Consume(r, { [line |-> target[r], lot |-> k, bal |-> Balance(k)] :
                      k \in { j \in 1 .. nLots : Balance(j) > 0 } })

\* Mutant: a new conversion pays nobody who waited for it.
ReadNoLines(r) ==
    /\ pc[r] = "read" /\ op[r] = "convert"
    /\ Consume(r, {})

\* list_unsatisfied_report_lines: whatever the status of their report
ReadLines(r) ==
    /\ pc[r] = "read" /\ op[r] = "convert"
    /\ Consume(r, { [line |-> l, lot |-> target[r], bal |-> Unmet(l)] :
                      l \in { j \in rows : Unmet(j) > 0 } })

\* Mutant: the order in which the rows were inserted, not converted_at.
EarlierRow(p, q) == p.lot < q.lot \/ (p.lot = q.lot /\ p.line < q.line)

\* ORDER BY converted_at, created_at for lots; created_at for lines
Earlier(p, q) ==
    \/ lotDate[p.lot] < lotDate[q.lot]
    \/ lotDate[p.lot] = lotDate[q.lot] /\ p.lot < q.lot
    \/ p.lot = q.lot /\ p.line < q.line

Oldest(r, p) == p \in pend[r] /\ \A q \in pend[r] : ~Earlier(q, p)

\* Mutant: max(remaining, balance).
Greatest(a, b) == IF a < b THEN b ELSE a

Least(a, b) == IF a < b THEN a ELSE b

DrawFrom(r, p, take) ==
    /\ alloc' = [alloc EXCEPT ![p.line][p.lot] = @ + take]
    /\ drawn' = [drawn EXCEPT ![p.lot] = Shift(@, p.line, take)]
    /\ covered' = [covered EXCEPT ![p.line] = @ + take]
    /\ rem' = [rem EXCEPT ![r] = @ - take]
    /\ pend' = [pend EXCEPT ![r] = @ \ {p}]

\* Mutant: "if remaining <= 0: break" is dropped.
DrawOn(r) ==
    /\ pc[r] = "draw"
    /\ \E p \in pend[r] :
          /\ Oldest(r, p)
          /\ p.line \in rows
          /\ DrawFrom(r, p, Least(rem[r], p.bal))
    /\ UNCHANGED <<lineVars, lotVars, lock, pc, jobVars, bounds>>

Draw(r) ==
    /\ pc[r] = "draw" /\ rem[r] > 0
    /\ \E p \in pend[r] :
          /\ Oldest(r, p)
          /\ p.line \in rows
          /\ DrawFrom(r, p, Least(rem[r], p.bal))
    /\ UNCHANGED <<lineVars, lotVars, lock, pc, jobVars, bounds>>

DrawDone(r) ==
    /\ pc[r] = "draw"
    /\ pend[r] = {} \/ rem[r] <= 0
    /\ Goto(r, "unlock")
    /\ UNCHANGED <<lineVars, lotVars, allocVars, lock, jobVars, fifoVars, bounds>>

-----------------------------------------------------------------------------
(* Failures inside the critical section. *)

\* The line was deleted meanwhile: inserting its allocation breaks the
\* foreign key, the session must be rolled back, so the compensation in the
\* except block raises as well and changes nothing.
DrawFails(r) ==
    /\ pc[r] = "draw" /\ rem[r] > 0
    /\ \E p \in pend[r] : Oldest(r, p) /\ p.line \notin rows
    /\ Goto(r, "unlock")
    /\ UNCHANGED <<lineVars, lotVars, allocVars, lock, jobVars, fifoVars, bounds>>

\* _get_report_or_404 raises: the report is gone and the line with it.  The
\* compensating delete or update finds no row.
ReadFails(r) ==
    /\ pc[r] = "read" /\ op[r] \in {"create", "update", "restore"}
    /\ report = "gone"
    /\ Goto(r, "unlock")
    /\ UNCHANGED <<lineVars, lotVars, allocVars, lock, jobVars, fifoVars, bounds>>

Fail == faults < MaxFaults /\ faults' = faults + 1 /\ UNCHANGED begun

\* A failure that leaves the session usable (no pooled connection in time):
\* a created line is deleted again.
CompensateCreate(r) ==
    /\ pc[r] \in {"clear", "read"} /\ op[r] = "create"
    /\ Fail
    /\ FreeLine(target[r])
    /\ rows' = rows \ {target[r]}
    /\ Goto(r, "unlock")
    /\ UNCHANGED <<report, lineAmount, nLines, lotVars, lock, jobVars, fifoVars>>

\* ... and an edited line gets previous_amount back and is allocated anew.
CompensateUpdate(r) ==
    /\ pc[r] \in {"clear", "read"} /\ op[r] = "update"
    /\ Fail
    /\ \/ /\ amt[r] = prev[r] \/ target[r] \in rows
          /\ lineAmount' = IF amt[r] = prev[r] THEN lineAmount
                           ELSE [lineAmount EXCEPT ![target[r]] = prev[r]]
          /\ op' = [op EXCEPT ![r] = "restore"]
          /\ amt' = [amt EXCEPT ![r] = prev[r]]
          /\ Goto(r, "clear")
       \/ /\ amt[r] # prev[r] /\ target[r] \notin rows
          /\ Goto(r, "unlock")
          /\ UNCHANGED <<lineAmount, op, amt>>
    /\ UNCHANGED <<report, rows, nLines, lotVars, allocVars, lock, target, prev, fifoVars>>

\* A failed flush or statement poisons the session: compensating raises too.
Poison(r) ==
    /\ pc[r] \in {"clear", "read", "draw"}
    /\ Fail
    /\ Goto(r, "unlock")
    /\ UNCHANGED <<lineVars, lotVars, allocVars, lock, jobVars, fifoVars>>

\* Mutant: the lock outlives the request that held it.
DieHolding(r) ==
    /\ pc[r] # "idle"
    /\ Fail
    /\ Retire(r)
    /\ UNCHANGED <<lineVars, lotVars, allocVars, lock>>

\* The client's task is cancelled or its worker dies: no except Exception
\* handler runs, what was committed stays and the connection gives the lock up.
Die(r) ==
    /\ pc[r] # "idle"
    /\ Fail
    /\ lock' = IF lock = r THEN NoRequest ELSE lock
    /\ Retire(r)
    /\ UNCHANGED <<lineVars, lotVars, allocVars>>

-----------------------------------------------------------------------------
(* Requests that take no lock. *)

\* Mutant: the allocation rows of a deleted line do not cascade.
DeleteLineOnly(r) ==
    /\ pc[r] = "commit" /\ op[r] = "delete"
    /\ rows' = rows \ {target[r]}
    /\ Retire(r)
    /\ UNCHANGED <<report, lineAmount, nLines, lotVars, allocVars, lock, bounds>>

\* session.delete(report_line): its allocation rows cascade.
DeleteLine(r) ==
    /\ pc[r] = "commit" /\ op[r] = "delete"
    /\ \/ /\ target[r] \in rows
          /\ rows' = rows \ {target[r]}
          /\ FreeLine(target[r])
       \/ target[r] \notin rows /\ UNCHANGED <<rows, allocVars>>
    /\ Retire(r)
    /\ UNCHANGED <<report, lineAmount, nLines, lotVars, lock, bounds>>

\* Deleting the report, or reverting its budget to draft: every line goes.
DropReport(r) ==
    /\ pc[r] = "commit" /\ op[r] = "drop"
    /\ report' = "gone"
    /\ rows' = {}
    /\ alloc' = [l \in Lines |-> [k \in Lots |-> 0]]
    /\ drawn' = [k \in Lots |-> [m \in 0 .. LastLine |-> 0]]
    /\ covered' = [l \in Lines |-> 0]
    /\ Retire(r)
    /\ UNCHANGED <<lineAmount, nLines, lotVars, lock, bounds>>

\* A row the unit of work never loaded appeared under the deleted one, so
\* the foreign key rejects the delete.
DeleteFails(r) ==
    /\ pc[r] = "commit"
    /\ lock # NoRequest
    /\ Retire(r)
    /\ UNCHANGED <<lineVars, lotVars, allocVars, lock, bounds>>

\* The report's own lifecycle, reduced to what its lines can tell apart:
\* submitted, then rejected and reopened.
SubmitReport ==
    /\ report = "draft"
    /\ report' = "submitted"
    /\ UNCHANGED <<rows, lineAmount, nLines, lotVars, allocVars, lock, pc,
                   jobVars, fifoVars, bounds>>

ReopenReport ==
    /\ report = "submitted"
    /\ report' = "draft"
    /\ UNCHANGED <<rows, lineAmount, nLines, lotVars, allocVars, lock, pc,
                   jobVars, fifoVars, bounds>>

-----------------------------------------------------------------------------
Start(r) == BeginCreate(r) \/ BeginUpdate(r) \/ BeginConvert(r)
            \/ BeginDelete(r) \/ BeginDrop(r)

Step(r) == \/ InsertLine(r) \/ WriteAmount(r) \/ WriteFails(r) \/ InsertLot(r)
           \/ Clear(r) \/ ReadLots(r) \/ ReadLines(r) \/ ReadFails(r)
           \/ Draw(r) \/ DrawFails(r) \/ DrawDone(r) \/ Release(r)
           \/ DeleteLine(r) \/ DropReport(r) \/ DeleteFails(r)

Fault(r) == CompensateCreate(r) \/ CompensateUpdate(r) \/ Poison(r) \/ Die(r)

Next == \/ \E r \in Requests : Start(r) \/ Acquire(r) \/ Step(r) \/ Fault(r)
        \/ SubmitReport
        \/ ReopenReport

Spec == Init /\ [][Next]_vars

\* A started request runs on, and PostgreSQL serves waiters of an advisory
\* lock in the order they queued, so a waiter is not overtaken for ever.
Fairness == \A r \in Requests : WF_vars(Step(r)) /\ SF_vars(Acquire(r))

FairSpec == Spec /\ Fairness

-----------------------------------------------------------------------------
(* Safety. *)

\* A conversion is never spent twice: whatever requests interleave, fail or
\* die, the allocations drawn from a lot never exceed the local amount the
\* bank paid out (budget_ledger_lock, list_unconsumed_lots, _consume_fifo).
NoDoubleSpend == \A k \in Lots : Drawn(k) > 0 => Drawn(k) <= lotAmount[k]

\* Every allocation row belongs to a report line that still exists and to a
\* recorded conversion, and the two aggregates the ledger reads agree with
\* the rows (delete cascades, delete_allocations_for_report_line).
EveryDrawTraces ==
    /\ \A l \in Lines, k \in Lots : alloc[l][k] > 0 => l \in rows /\ k <= nLots
    /\ \A k \in Lots : Drawn(k) = SumFunctionOnSet([l \in Lines |-> alloc[l][k]], Lines)
    /\ \A l \in Lines : covered[l] = SumFunctionOnSet(alloc[l], Lots)

\* When no request is in the critical section a line has no more allocated
\* to it than its amount (allocate_fifo_service "keeps allocations in sync
\* with edits"), as long as nothing failed on the way.  It needs edits not to
\* overlap: see the run that breaks it.
LineInSync ==
    lock = NoRequest /\ faults = 0 =>
        \A l \in rows : covered[l] > 0 => covered[l] <= lineAmount[l]

\* While nothing but new lines and new conversions has been written, and nothing
\* failed, money is never left in a lot that an older or a newer expense still
\* waits for.
NoIdleFunds ==
    lock = NoRequest /\ faults = 0 /\ begun["update"] + begun["delete"] + begun["drop"] = 0 =>
        ~ \E l \in rows, k \in 1 .. nLots : Unmet(l) > 0 /\ Balance(k) > 0

\* Money leaves the lots oldest first, and reaches waiting expenses oldest
\* first: an expense draws on a lot only when every older lot is empty, and
\* a conversion pays an expense only when every older one is met.
OldestFirst ==
    [][ \A l \in Lines, k \in Lots : alloc'[l][k] > alloc[l][k] =>
          IF op[lock] = "convert"
          THEN \A m \in rows : m < l => Unmet(m) <= 0
          ELSE \A j \in 1 .. nLots :
                 lotDate[j] < lotDate[k] \/ (lotDate[j] = lotDate[k] /\ j < k)
                   => Balance(j) <= 0 ]_vars

\* A report that has been handed over does not change under its reviewer:
\* "Report lines can only be added to a draft report", and only edited or
\* deleted on one.
\* Not so: the status is checked before the lock is waited for, and the report may be
\* submitted meanwhile.
SubmittedFrozen ==
    [][ report = "submitted" /\ report' = "submitted"
          => UNCHANGED <<rows, lineAmount>> ]_vars

(* Liveness. *)

\* A request that asked for the lock gets it, finishes and gives it back,
\* even though another may fail or die in the critical section
\* (budget_ledger_lock's finally, and the end of the session that held it).
RequestsEnd == \A r \in Requests : pc[r] = "want" ~> pc[r] = "idle"

\* What the ledger promises, step by step: see LotAccounts.
Accounts == INSTANCE LotAccounts WITH
                size <- lotAmount,
                balance <- [k \in Lots |-> Balance(k)],
                held <- alloc

AccountsSpec == Accounts!Spec
=============================================================================
