------------------------ MODULE CurrencyLedgerProofs ------------------------
(***************************************************************************)
(* For any number of requests, lines, lots, operations and failures, and   *)
(* any amounts: the state keeps its type, a conversion is never spent      *)
(* twice, every allocation belongs to a line and a lot and is part of the  *)
(* sums that the ledger reads, and every step of the ledger is a step of   *)
(* LotAccounts.                                                            *)
(* If only one request at a time edits, allocations follow the amounts of  *)
(* their lines; where nothing is deleted, money leaves the lots oldest     *)
(* first; and while there are only new lines and conversions and nothing   *)
(* fails, no money idles that an expense waits for.                        *)
(***************************************************************************)
EXTENDS CurrencyLedger, SumTheorems

Expense == {"create", "update", "restore"}
Critical == {"write", "clear", "read", "draw", "unlock"}

(* The inductive invariant. *)

\* What each request works on, by the place it has reached.
JobInv ==
    \A r \in Requests :
        /\ op[r] \in {"delete", "update", "restore"} => target[r] \in Lines
        /\ op[r] = "create" /\ pc[r] \in {"clear", "read", "draw"} => target[r] \in Lines
        /\ pc[r] = "clear" => op[r] \in Expense
        /\ pc[r] \in {"read", "draw"} => op[r] \in Expense \cup {"convert"}
        /\ op[r] = "convert" /\ pc[r] \in {"read", "draw"} => target[r] \in Lots

\* Only the holder of the advisory lock is in the critical section.
LockInv == \A r \in Requests : pc[r] \in Critical => lock = r

\* The partial sums of each lot add up its allocation rows one line at a
\* time, and grow with the lines: every row is a natural number.
SumInv ==
    \A k \in Lots :
        /\ drawn[k][0] = 0
        /\ \A l \in Lines : drawn[k][l] = drawn[k][l - 1] + alloc[l][k]
        /\ \A i, j \in 0 .. LastLine : i <= j => drawn[k][i] <= drawn[k][j]

\* Nothing is known of, or drawn from, a lot that was not recorded yet.
FreshInv ==
    \A k \in Lots : k > nLots =>
        /\ lotAmount[k] = 0
        /\ Drawn(k) = 0
        /\ \A l \in Lines : alloc[l][k] = 0

\* What the lock holder read is still there: a lot it has yet to visit has
\* at least the balance it saw, and a new lot at least what is left of it.
PendOf(r) ==
    /\ pc[r] = "read" /\ op[r] = "convert" =>
          target[r] <= nLots /\ amt[r] <= Balance(target[r])
    /\ pc[r] = "draw" =>
          \A p \in pend[r] : p.lot <= nLots /\ p.bal > 0
    /\ pc[r] = "draw" /\ op[r] \in Expense =>
          /\ \A p \in pend[r] : p.bal <= Balance(p.lot)
          /\ \A p, q \in pend[r] : p.lot = q.lot => p = q
    /\ pc[r] = "draw" /\ op[r] = "convert" =>
          \A p \in pend[r] : p.lot = target[r] /\ rem[r] <= Balance(p.lot)

PendInv == \A r \in Requests : PendOf(r)

Types == TypeOK /\ JobInv
IInv == Types /\ LockInv /\ SumInv /\ FreshInv /\ PendInv /\ NoDoubleSpend

LEMMA LinesAndLots == Lines \subseteq Nat /\ Lots \subseteq Nat
  BY BoundsAssumption DEF Lines, Lots, Kinds

LEMMA InRange ==
  /\ LastLine \in Nat /\ Lines = 1 .. LastLine
  /\ \A l \in Lines : l \in 0 .. LastLine
  /\ \A k \in Lots : k \in 0 .. MaxOps["convert"]
  /\ \A n \in 0 .. MaxOps["convert"] : \A k \in 1 .. n : k \in Lots
  BY BoundsAssumption DEF Lines, Lots, LastLine, Kinds

LEMMA TypesInit == Init => Types
  BY LinesAndLots, InRange, BoundsAssumption
  DEF Init, Types, TypeOK, Sums, JobInv, PCs, Ops, Draws, Kinds

(* Each group of actions keeps Types. *)

LEMMA ShiftType ==
  ASSUME NEW f \in Sums, NEW l \in Lines, NEW n \in Int
  PROVE  Shift(f, l, n) \in Sums
  BY LinesAndLots, InRange DEF Shift, Sums

LEMMA BalanceInt ==
  ASSUME TypeOK
  PROVE  \A k \in Lots : Drawn(k) \in Int /\ Balance(k) \in Int
  BY InRange DEF TypeOK, Drawn, Balance, Sums

LEMMA FreeLineTypes ==
  ASSUME TypeOK, NEW l \in Lines, FreeLine(l)
  PROVE  /\ alloc' \in [Lines -> [Lots -> Nat]]
         /\ drawn' \in [Lots -> Sums]
         /\ covered' \in [Lines -> Int]
  <1>1. \A k \in Lots : Shift(drawn[k], l, -alloc[l][k]) \in Sums
    BY ShiftType DEF TypeOK
  <1> QED BY <1>1 DEF TypeOK, FreeLine

LEMMA LeastBounds ==
  \A a \in Int, b \in Nat : a > 0 =>
      /\ Least(a, b) \in Nat
      /\ Least(a, b) <= a
      /\ Least(a, b) <= b
  BY DEF Least

LEMMA DrawTypes ==
  ASSUME TypeOK, NEW r \in Requests, NEW p \in pend[r], NEW n \in Nat,
         DrawFrom(r, p, n)
  PROVE  /\ alloc' \in [Lines -> [Lots -> Nat]]
         /\ drawn' \in [Lots -> Sums]
         /\ covered' \in [Lines -> Int]
         /\ rem' \in [Requests -> Int]
         /\ pend' \in [Requests -> SUBSET Draws]
  <1>1. p.line \in Lines /\ p.lot \in Lots
    BY DEF TypeOK, Draws
  <1>2. alloc' \in [Lines -> [Lots -> Nat]]
    BY <1>1 DEF DrawFrom, TypeOK
  <1>3. drawn' \in [Lots -> Sums]
    <2>1. Shift(drawn[p.lot], p.line, n) \in Sums
      BY <1>1, ShiftType DEF TypeOK
    <2> QED BY <1>1, <2>1 DEF DrawFrom, TypeOK
  <1>5. covered' \in [Lines -> Int]
    BY <1>1 DEF DrawFrom, TypeOK
  <1>4. rem' \in [Requests -> Int] /\ pend' \in [Requests -> SUBSET Draws]
    BY DEF DrawFrom, TypeOK
  <1> QED BY <1>2, <1>3, <1>4, <1>5

LEMMA RetireTypes ==
  ASSUME Types, NEW r \in Requests, Retire(r),
         rows' \subseteq Lines
  PROVE  /\ pc' \in [Requests -> PCs]
         /\ op' \in [Requests -> Ops]
         /\ target' \in [Requests -> Nat]
         /\ amt' \in [Requests -> Int]
         /\ prev' \in [Requests -> Int]
         /\ pend' \in [Requests -> SUBSET Draws]
         /\ rem' \in [Requests -> Int]
         /\ JobInv'
  BY LinesAndLots DEF Types, TypeOK, JobInv, Retire, Goto, PCs, Ops, Draws

LEMMA StartTypes ==
  ASSUME Types, NEW r \in Requests, Start(r)
  PROVE  Types'
  <1> USE LinesAndLots, AmountsAssumption, DatesAssumption
      DEF Types, TypeOK, JobInv, Begin, Goto, PCs, Ops, Kinds, Expense,
          lineVars, lotVars, allocVars, fifoVars, bounds
  <1>1. CASE BeginCreate(r)
    BY <1>1 DEF BeginCreate
  <1>2. CASE BeginUpdate(r)
    BY <1>2 DEF BeginUpdate
  <1>3. CASE BeginConvert(r)
    BY <1>3 DEF BeginConvert
  <1>4. CASE BeginDelete(r)
    BY <1>4 DEF BeginDelete
  <1>5. CASE BeginDrop(r)
    BY <1>5 DEF BeginDrop
  <1> QED BY <1>1, <1>2, <1>3, <1>4, <1>5 DEF Start

LEMMA StepTypes ==
  ASSUME Types, NEW r \in Requests, Acquire(r) \/ Step(r)
  PROVE  Types'
  <1> USE LinesAndLots
      DEF Types, TypeOK, JobInv, Goto, PCs, Ops, Kinds, Expense,
          lineVars, lotVars, allocVars, jobVars, fifoVars, bounds
  <1>1. CASE Acquire(r)
    BY <1>1 DEF Acquire
  <1>2. CASE InsertLine(r)
    BY <1>2, InRange DEF InsertLine
  <1>3. CASE WriteAmount(r)
    BY <1>3 DEF WriteAmount
  <1>4. CASE WriteFails(r)
    BY <1>4 DEF WriteFails
  <1>5. CASE InsertLot(r)
    BY <1>5, InRange DEF InsertLot
  <1>6. CASE Clear(r)
    BY <1>6, FreeLineTypes DEF Clear
  <1>7. CASE ReadLots(r)
    <2> DEFINE E == { [line |-> target[r], lot |-> k, bal |-> Balance(k)] :
                        k \in { j \in 1 .. nLots : Balance(j) > 0 } }
    <2>1. \A k \in 1 .. nLots : k \in Lots
      BY InRange
    <2>2. \A k \in Lots : Balance(k) \in Int
      BY BalanceInt
    <2>3. target[r] \in Lines
      BY <1>7 DEF ReadLots
    <2>4. E \subseteq Draws
      BY <2>1, <2>2, <2>3 DEF Draws
    <2> HIDE DEF E
    <2>5. Consume(r, E)
      BY <1>7 DEF ReadLots, E
    <2> QED BY <1>7, <2>4, <2>5 DEF ReadLots, Consume
  <1>8. CASE ReadLines(r)
    <2> DEFINE E == { [line |-> l, lot |-> target[r], bal |-> Unmet(l)] :
                        l \in { j \in rows : Unmet(j) > 0 } }
    <2>1. \A l \in rows : l \in Lines /\ Unmet(l) \in Int
      BY DEF Unmet
    <2>2. target[r] \in Lots
      BY <1>8 DEF ReadLines
    <2>3. E \subseteq Draws
      BY <2>1, <2>2 DEF Draws
    <2> HIDE DEF E
    <2>4. Consume(r, E)
      BY <1>8 DEF ReadLines, E
    <2> QED BY <1>8, <2>3, <2>4 DEF ReadLines, Consume
  <1>9. CASE ReadFails(r)
    BY <1>9 DEF ReadFails
  <1>10. CASE Draw(r)
    <2>1. PICK p \in pend[r] : DrawFrom(r, p, Least(rem[r], p.bal))
      BY <1>10 DEF Draw
    <2>2. Least(rem[r], p.bal) \in Nat
      BY <1>10, LeastBounds DEF Draw, Draws
    <2> QED BY <1>10, <2>1, <2>2, DrawTypes DEF Draw
  <1>11. CASE DrawFails(r)
    BY <1>11 DEF DrawFails
  <1>12. CASE DrawDone(r)
    BY <1>12 DEF DrawDone
  <1>13. CASE Release(r)
    BY <1>13, RetireTypes DEF Release
  <1>14. CASE DeleteLine(r)
    BY <1>14, RetireTypes, FreeLineTypes DEF DeleteLine
  <1>15. CASE DropReport(r)
    <2>1. [k \in Lots |-> [m \in 0 .. LastLine |-> 0]] \in [Lots -> Sums]
      BY DEF Sums
    <2>2. /\ alloc' \in [Lines -> [Lots -> Nat]]
          /\ drawn' \in [Lots -> Sums]
          /\ covered' \in [Lines -> Int]
      <3>1. [k \in Lots |-> 0] \in [Lots -> Nat]
        OBVIOUS
      <3>2. [l \in Lines |-> [k \in Lots |-> 0]] \in [Lines -> [Lots -> Nat]]
        BY <3>1
      <3>3. [l \in Lines |-> 0] \in [Lines -> Int]
        OBVIOUS
      <3> QED BY <1>15, <2>1, <3>2, <3>3 DEF DropReport
    <2>3. rows' \subseteq Lines /\ Retire(r)
      BY <1>15 DEF DropReport
    <2> QED BY <1>15, <2>2, <2>3, RetireTypes DEF DropReport
  <1>16. CASE DeleteFails(r)
    BY <1>16, RetireTypes DEF DeleteFails
  <1> QED
    BY <1>1, <1>2, <1>3, <1>4, <1>5, <1>6, <1>7, <1>8, <1>9, <1>10, <1>11,
       <1>12, <1>13, <1>14, <1>15, <1>16 DEF Step

LEMMA FaultTypes ==
  ASSUME Types, NEW r \in Requests, Fault(r)
  PROVE  Types'
  <1> USE LinesAndLots
      DEF Types, TypeOK, JobInv, Goto, PCs, Ops, Kinds, Expense, Fail,
          lineVars, lotVars, allocVars, jobVars, fifoVars, bounds
  <1>1. CASE CompensateCreate(r)
    <2>1. target[r] \in Lines
      BY <1>1 DEF CompensateCreate
    <2>2. FreeLine(target[r])
      BY <1>1 DEF CompensateCreate
    <2>3. /\ alloc' \in [Lines -> [Lots -> Nat]]
          /\ drawn' \in [Lots -> Sums]
          /\ covered' \in [Lines -> Int]
      BY <2>1, <2>2, FreeLineTypes
    <2>4. rows' \subseteq Lines
      BY <1>1 DEF CompensateCreate
    <2>5. pc' \in [Requests -> PCs] /\ JobInv'
      BY <1>1 DEF CompensateCreate
    <2> QED BY <1>1, <2>3, <2>4, <2>5 DEF CompensateCreate
  <1>2. CASE CompensateUpdate(r)
    BY <1>2 DEF CompensateUpdate
  <1>3. CASE Poison(r)
    BY <1>3 DEF Poison
  <1>4. CASE Die(r)
    BY <1>4, RetireTypes DEF Die
  <1> QED BY <1>1, <1>2, <1>3, <1>4 DEF Fault

LEMMA NextTypes ==
  ASSUME Types, [Next]_vars
  PROVE  Types'
  <1>1. CASE \E r \in Requests : Start(r) \/ Acquire(r) \/ Step(r) \/ Fault(r)
    BY <1>1, StartTypes, StepTypes, FaultTypes
  <1>2. CASE SubmitReport \/ ReopenReport
    BY <1>2 DEF SubmitReport, ReopenReport, Types, TypeOK, JobInv, PCs,
                lotVars, allocVars, jobVars, fifoVars, bounds
  <1>3. CASE UNCHANGED vars
    BY <1>3 DEF vars, Types, TypeOK, JobInv,
                lineVars, lotVars, allocVars, jobVars, fifoVars, bounds
  <1> QED BY <1>1, <1>2, <1>3 DEF Next

\* The state of the ledger keeps its type: in particular no step of
\* services/budget indexes a line or a lot that it did not load or create.
THEOREM TypeCorrect == Spec => []TypeOK
  <1>1. Spec => []Types
    BY TypesInit, NextTypes, PTL DEF Spec
  <1>2. Types => TypeOK
    BY DEF Types
  <1> QED BY <1>1, <1>2, PTL

-----------------------------------------------------------------------------
(* Safety: who may be in the critical section. *)

LEMMA LockStep ==
  ASSUME Types, LockInv, [Next]_vars
  PROVE  LockInv'
  <1> USE DEF LockInv, Types, TypeOK, Critical, Goto,
              lineVars, lotVars, allocVars, jobVars, fifoVars, bounds
  <1>1. ASSUME NEW r \in Requests, Start(r) PROVE LockInv'
    BY <1>1 DEF Start, Begin, BeginCreate, BeginUpdate, BeginConvert,
                BeginDelete, BeginDrop
  <1>2. ASSUME NEW r \in Requests, Acquire(r) PROVE LockInv'
    BY <1>2, RequestsAssumption DEF Acquire
  <1>3. ASSUME NEW r \in Requests, Step(r) PROVE LockInv'
    <2>1. CASE InsertLine(r) \/ WriteAmount(r) \/ WriteFails(r) \/ InsertLot(r)
      BY <2>1 DEF InsertLine, WriteAmount, WriteFails, InsertLot
    <2>2. CASE Clear(r) \/ ReadLots(r) \/ ReadLines(r) \/ ReadFails(r)
      BY <2>2 DEF Clear, ReadLots, ReadLines, ReadFails, Consume
    <2>3. CASE Draw(r) \/ DrawFails(r) \/ DrawDone(r)
      BY <2>3 DEF Draw, DrawFails, DrawDone
    <2>4. CASE Release(r)
      BY <2>4 DEF Release, Retire
    <2>5. CASE DeleteLine(r) \/ DropReport(r) \/ DeleteFails(r)
      BY <2>5 DEF DeleteLine, DropReport, DeleteFails, Retire
    <2> QED BY <1>3, <2>1, <2>2, <2>3, <2>4, <2>5 DEF Step
  <1>4. ASSUME NEW r \in Requests, Fault(r) PROVE LockInv'
    BY <1>4 DEF Fault, CompensateCreate, CompensateUpdate, Poison, Die, Retire
  <1>5. CASE SubmitReport \/ ReopenReport \/ UNCHANGED vars
    BY <1>5 DEF SubmitReport, ReopenReport, vars
  <1> QED BY <1>1, <1>2, <1>3, <1>4, <1>5 DEF Next

-----------------------------------------------------------------------------
(* Safety: what the aggregates say. *)

LEMMA FreeLineSums ==
  ASSUME TypeOK, SumInv, NEW l \in Lines, FreeLine(l)
  PROVE  /\ SumInv'
         /\ \A k \in Lots : Drawn(k)' = Drawn(k) - alloc[l][k]
  <1>1. \A k \in Lots : drawn'[k] = Shift(drawn[k], l, -alloc[l][k])
    BY DEF FreeLine
  <1>2. \A k \in Lots, m \in Lines :
          /\ alloc'[m][k] = IF m = l THEN 0 ELSE alloc[m][k]
          /\ alloc[m][k] \in Nat
    BY DEF FreeLine, TypeOK
  <1>3. \A k \in Lots, m \in 0 .. LastLine :
          /\ drawn'[k][m] = IF l <= m THEN drawn[k][m] - alloc[l][k] ELSE drawn[k][m]
          /\ drawn[k][m] \in Int
    <2> SUFFICES ASSUME NEW k \in Lots, NEW m \in 0 .. LastLine
                 PROVE  /\ drawn'[k][m] = IF l <= m THEN drawn[k][m] - alloc[l][k]
                                          ELSE drawn[k][m]
                        /\ drawn[k][m] \in Int
      OBVIOUS
    <2>1. drawn[k] \in Sums /\ alloc[l][k] \in Nat
      BY <1>2 DEF TypeOK
    <2>2. drawn'[k] = Shift(drawn[k], l, -alloc[l][k])
      BY <1>1
    <2> QED BY <2>1, <2>2 DEF Shift, Sums
  <1>4. \A k \in Lots : drawn'[k][0] = 0
    BY <1>3, InRange DEF SumInv
  <1>5. \A k \in Lots, m \in Lines : drawn'[k][m] = drawn'[k][m - 1] + alloc'[m][k]
    <2> SUFFICES ASSUME NEW k \in Lots, NEW m \in Lines
                 PROVE  drawn'[k][m] = drawn'[k][m - 1] + alloc'[m][k]
      OBVIOUS
    <2>1. m \in 0 .. LastLine /\ m - 1 \in 0 .. LastLine /\ l \in 0 .. LastLine
      BY InRange
    <2>2. drawn[k][m] = drawn[k][m - 1] + alloc[m][k]
      BY DEF SumInv
    <2> QED BY <1>2, <1>3, <2>1, <2>2
  <1>6. \A k \in Lots, i, j \in 0 .. LastLine :
          i <= j => drawn'[k][i] <= drawn'[k][j]
    <2> SUFFICES ASSUME NEW k \in Lots, NEW i \in 0 .. LastLine,
                        NEW j \in 0 .. LastLine, i <= j
                 PROVE  drawn'[k][i] <= drawn'[k][j]
      OBVIOUS
    <2>1. l - 1 \in 0 .. LastLine /\ l \in 0 .. LastLine
      BY InRange
    <2>2. drawn[k][l] = drawn[k][l - 1] + alloc[l][k] /\ drawn[k][i] <= drawn[k][j]
      BY DEF SumInv
    <2>3. i < l => drawn[k][i] <= drawn[k][l - 1]
      BY <2>1 DEF SumInv
    <2>4. l <= j => drawn[k][l] <= drawn[k][j]
      BY <2>1 DEF SumInv
    <2> QED BY <1>2, <1>3, <2>1, <2>2, <2>3, <2>4
  <1>7. \A k \in Lots : Drawn(k)' = Drawn(k) - alloc[l][k]
    <2>1. l <= LastLine /\ LastLine \in 0 .. LastLine
      BY InRange
    <2> QED BY <1>3, <2>1 DEF Drawn
  <1> QED BY <1>4, <1>5, <1>6, <1>7 DEF SumInv

LEMMA DrawSums ==
  ASSUME TypeOK, SumInv, NEW r \in Requests, NEW p \in pend[r],
         NEW n \in Nat, DrawFrom(r, p, n)
  PROVE  /\ SumInv'
         /\ \A k \in Lots : Drawn(k)' = IF k = p.lot THEN Drawn(k) + n ELSE Drawn(k)
  <1> DEFINE l == p.line
  <1>0. l \in Lines /\ p.lot \in Lots
    BY DEF TypeOK, Draws
  <1> HIDE DEF l
  <1>1. \A k \in Lots :
          drawn'[k] = IF k = p.lot THEN Shift(drawn[k], l, n) ELSE drawn[k]
    BY <1>0 DEF DrawFrom, TypeOK, l
  <1>2. \A k \in Lots, m \in Lines :
          /\ alloc'[m][k] = IF m = l /\ k = p.lot THEN alloc[m][k] + n ELSE alloc[m][k]
          /\ alloc[m][k] \in Nat
    BY <1>0 DEF DrawFrom, TypeOK, l
  <1>3. \A k \in Lots, m \in 0 .. LastLine :
          /\ drawn'[k][m] = IF k = p.lot /\ l <= m THEN drawn[k][m] + n ELSE drawn[k][m]
          /\ drawn[k][m] \in Int
    <2> SUFFICES ASSUME NEW k \in Lots, NEW m \in 0 .. LastLine
                 PROVE  /\ drawn'[k][m] = IF k = p.lot /\ l <= m THEN drawn[k][m] + n
                                          ELSE drawn[k][m]
                        /\ drawn[k][m] \in Int
      OBVIOUS
    <2>1. drawn[k] \in Sums
      BY DEF TypeOK
    <2>2. drawn'[k] = IF k = p.lot THEN Shift(drawn[k], l, n) ELSE drawn[k]
      BY <1>1
    <2> QED BY <2>1, <2>2 DEF Shift, Sums
  <1>4. \A k \in Lots : drawn'[k][0] = 0
    <2>1. 0 \in 0 .. LastLine /\ ~(l <= 0)
      BY <1>0, InRange
    <2> QED BY <1>3, <2>1 DEF SumInv
  <1>5. \A k \in Lots, m \in Lines : drawn'[k][m] = drawn'[k][m - 1] + alloc'[m][k]
    <2> SUFFICES ASSUME NEW k \in Lots, NEW m \in Lines
                 PROVE  drawn'[k][m] = drawn'[k][m - 1] + alloc'[m][k]
      OBVIOUS
    <2>1. m \in 0 .. LastLine /\ m - 1 \in 0 .. LastLine /\ l \in 0 .. LastLine
      BY <1>0, InRange
    <2>2. drawn[k][m] = drawn[k][m - 1] + alloc[m][k]
      BY DEF SumInv
    <2> QED BY <1>0, <1>2, <1>3, <2>1, <2>2
  <1>6. \A k \in Lots, i, j \in 0 .. LastLine :
          i <= j => drawn'[k][i] <= drawn'[k][j]
    <2> SUFFICES ASSUME NEW k \in Lots, NEW i \in 0 .. LastLine,
                        NEW j \in 0 .. LastLine, i <= j
                 PROVE  drawn'[k][i] <= drawn'[k][j]
      OBVIOUS
    <2>1. drawn[k][i] <= drawn[k][j]
      BY DEF SumInv
    <2> QED BY <1>0, <1>3, <2>1, LinesAndLots, InRange
  <1>7. \A k \in Lots : Drawn(k)' = IF k = p.lot THEN Drawn(k) + n ELSE Drawn(k)
    <2>1. l <= LastLine /\ LastLine \in 0 .. LastLine
      BY <1>0, InRange
    <2> QED BY <1>3, <2>1 DEF Drawn
  <1> QED BY <1>4, <1>5, <1>6, <1>7 DEF SumInv

\* The total drawn from a lot is at least zero, and what one line holds of it.
LEMMA DrawnBounds ==
  ASSUME TypeOK, SumInv
  PROVE  \A k \in Lots : Drawn(k) >= 0
  BY InRange, BalanceInt DEF SumInv, Drawn

-----------------------------------------------------------------------------
(* Safety: what the lock holder read stays true until it has used it. *)

Untouched(r) ==
    \A q \in Requests \ {r} :
        /\ pc'[q] = pc[q]
        /\ op'[q] = op[q]
        /\ target'[q] = target[q]
        /\ amt'[q] = amt[q]
        /\ pend'[q] = pend[q]
        /\ rem'[q] = rem[q]

\* r is not about to use anything it has read
Unread(r) == pc'[r] # "draw" /\ (pc'[r] = "read" => op'[r] # "convert")

Safe == SumInv /\ FreshInv /\ PendInv /\ NoDoubleSpend

LEMMA OthersPend ==
  ASSUME Types, PendInv, NEW q \in Requests, NEW r \in Requests \ {q},
         Untouched(r), nLots' = nLots,
         \A k \in Lots : Balance(k)' \in Int /\ Balance(k) <= Balance(k)'
  PROVE  PendOf(q)'
  <1>1. /\ pc'[q] = pc[q] /\ op'[q] = op[q] /\ target'[q] = target[q]
        /\ amt'[q] = amt[q] /\ pend'[q] = pend[q] /\ rem'[q] = rem[q]
    BY DEF Untouched
  <1>2. PendOf(q)
    BY DEF PendInv
  <1>3. \A k \in Lots : Balance(k) \in Int
    BY BalanceInt DEF Types
  <1>4. \A p \in pend[q] : p.lot \in Lots /\ p.bal \in Nat
    BY DEF Types, TypeOK, Draws
  <1>5. amt[q] \in Int /\ rem[q] \in Int
    BY DEF Types, TypeOK
  <1>6. pc[q] = "read" /\ op[q] = "convert" => target[q] \in Lots
    BY DEF Types, JobInv
  <1>7. ASSUME pc'[q] = "read", op'[q] = "convert"
        PROVE  target'[q] <= nLots' /\ amt'[q] <= Balance(target[q])'
    BY <1>1, <1>2, <1>3, <1>5, <1>6, <1>7 DEF PendOf
  <1>8. ASSUME pc'[q] = "draw", op'[q] \in Expense, NEW p \in pend[q]
        PROVE  p.bal <= Balance(p.lot)'
    BY <1>1, <1>2, <1>3, <1>4, <1>8 DEF PendOf
  <1>9. ASSUME pc'[q] = "draw", op'[q] = "convert", NEW p \in pend[q]
        PROVE  p.lot = target'[q] /\ rem'[q] <= Balance(p.lot)'
    BY <1>1, <1>2, <1>3, <1>4, <1>5, <1>9 DEF PendOf
  <1> QED BY <1>1, <1>2, <1>7, <1>8, <1>9 DEF PendOf, Balance, Drawn

\* A step that writes no allocation and no lot.
LEMMA OffLedger ==
  ASSUME IInv, NEW r \in Requests, Untouched(r), Unread(r),
         UNCHANGED <<alloc, drawn, nLots, lotAmount>>
  PROVE  Safe'
  <1>1. \A k \in Lots :
          /\ Drawn(k)' = Drawn(k) /\ Balance(k)' = Balance(k)
          /\ Balance(k) \in Int
    BY BalanceInt DEF Drawn, Balance, IInv, Types
  <1>2. SumInv' /\ FreshInv' /\ NoDoubleSpend'
    BY <1>1 DEF IInv, SumInv, FreshInv, NoDoubleSpend
  <1>3. ASSUME NEW q \in Requests, q # r PROVE PendOf(q)'
    BY <1>1, <1>3, OthersPend DEF IInv
  <1>4. PendOf(r)'
    BY DEF Unread, PendOf
  <1> QED BY <1>2, <1>3, <1>4 DEF Safe, PendInv

\* A step that only lowers what is drawn from lots.
LEMMA LessDrawn ==
  ASSUME IInv, TypeOK', NEW r \in Requests, Untouched(r), Unread(r),
         UNCHANGED <<nLots, lotAmount>>, SumInv',
         \A k \in Lots : Drawn(k)' <= Drawn(k),
         \A l \in Lines, k \in Lots : alloc[l][k] = 0 => alloc'[l][k] = 0
  PROVE  Safe'
  <1>1. \A k \in Lots : Drawn(k) \in Int /\ Drawn(k) >= 0 /\ lotAmount[k] \in Int
    BY BalanceInt, DrawnBounds DEF IInv, Types, TypeOK
  <1>2. \A k \in Lots : Drawn(k)' \in Int
    BY InRange DEF TypeOK, Drawn, Sums
  <1>3. \A k \in Lots : Drawn(k)' >= 0
    BY <1>2, InRange DEF SumInv, Drawn
  <1>4. \A k \in Lots : Balance(k)' \in Int /\ Balance(k) <= Balance(k)'
    BY <1>1, <1>2 DEF Balance
  <1>5. FreshInv' /\ NoDoubleSpend'
    BY <1>1, <1>2, <1>3 DEF IInv, FreshInv, NoDoubleSpend
  <1>6. ASSUME NEW q \in Requests, q # r PROVE PendOf(q)'
    BY <1>4, <1>6, OthersPend DEF IInv
  <1>7. PendOf(r)'
    BY DEF Unread, PendOf
  <1> QED BY <1>5, <1>6, <1>7 DEF Safe, PendInv

LEMMA FreeSafe ==
  ASSUME IInv, TypeOK', NEW r \in Requests, Untouched(r), Unread(r),
         UNCHANGED <<nLots, lotAmount>>, NEW l \in Lines, FreeLine(l)
  PROVE  Safe'
  <1>1. SumInv' /\ \A k \in Lots : Drawn(k)' = Drawn(k) - alloc[l][k]
    BY FreeLineSums DEF IInv, Types
  <1>2. \A m \in Lines, k \in Lots :
          alloc[m][k] \in Nat /\ (alloc[m][k] = 0 => alloc'[m][k] = 0)
    BY DEF FreeLine, IInv, Types, TypeOK
  <1>3. \A k \in Lots : Drawn(k)' <= Drawn(k)
    BY <1>1, <1>2, BalanceInt DEF IInv, Types
  <1> QED BY <1>1, <1>2, <1>3, LessDrawn

LEMMA DropSafe ==
  ASSUME IInv, TypeOK', NEW r \in Requests, Untouched(r), Unread(r),
         UNCHANGED <<nLots, lotAmount>>, DropReport(r)
  PROVE  Safe'
  <1>1. \A k \in Lots : drawn'[k] = [m \in 0 .. LastLine |-> 0]
    BY DEF DropReport
  <1>2. \A l \in Lines, k \in Lots : alloc'[l][k] = 0
    BY DEF DropReport
  <1>3. \A l \in Lines : l \in 0 .. LastLine /\ l - 1 \in 0 .. LastLine
    BY InRange
  <1>4. 0 \in 0 .. LastLine /\ LastLine \in 0 .. LastLine
    BY InRange
  <1>5. SumInv'
    BY <1>1, <1>2, <1>3, <1>4 DEF SumInv
  <1>6. \A k \in Lots : Drawn(k)' <= Drawn(k)
    BY <1>1, <1>4, DrawnBounds DEF IInv, Types, Drawn
  <1> QED BY <1>2, <1>5, <1>6, LessDrawn

\* While r is in the critical section nobody else has read anything.
LEMMA AloneInside ==
  ASSUME LockInv, NEW r \in Requests, pc[r] \in Critical, Untouched(r),
         NEW q \in Requests, q # r
  PROVE  PendOf(q)'
  BY DEF LockInv, Critical, Untouched, PendOf

LEMMA StartSafe ==
  ASSUME IInv, NEW r \in Requests, Start(r) \/ Acquire(r)
  PROVE  Safe'
  <1>1. Untouched(r) /\ Unread(r) /\ UNCHANGED <<alloc, drawn, nLots, lotAmount>>
    BY DEF Start, Begin, BeginCreate, BeginUpdate, BeginConvert, BeginDelete,
           BeginDrop, Acquire, Goto, Untouched, Unread, IInv, Types, TypeOK,
           lotVars, allocVars, jobVars, fifoVars
  <1> QED BY <1>1, OffLedger

LEMMA WriteSafe ==
  ASSUME IInv, NEW r \in Requests,
         \/ InsertLine(r) \/ WriteAmount(r) \/ WriteFails(r) \/ ReadFails(r)
         \/ DrawFails(r) \/ DrawDone(r) \/ Release(r) \/ DeleteFails(r)
  PROVE  Safe'
  <1>1. Untouched(r) /\ Unread(r) /\ UNCHANGED <<alloc, drawn, nLots, lotAmount>>
    BY DEF InsertLine, WriteAmount, WriteFails, ReadFails, DrawFails, DrawDone,
           Release, DeleteFails, Retire, Goto, Untouched, Unread, IInv, Types, TypeOK,
           lotVars, allocVars, jobVars, fifoVars
  <1> QED BY <1>1, OffLedger

LEMMA FaultSafe ==
  ASSUME IInv, TypeOK', NEW r \in Requests, Fault(r)
  PROVE  Safe'
  <1>1. CASE CompensateUpdate(r) \/ Poison(r) \/ Die(r)
    <2>1. Untouched(r) /\ Unread(r) /\ UNCHANGED <<alloc, drawn, nLots, lotAmount>>
      BY <1>1 DEF CompensateUpdate, Poison, Die, Retire, Goto, Untouched, Unread,
                  IInv, Types, TypeOK, lotVars, allocVars, jobVars, fifoVars
    <2> QED BY <2>1, OffLedger
  <1>2. CASE CompensateCreate(r)
    <2>1. Untouched(r) /\ Unread(r) /\ UNCHANGED <<nLots, lotAmount>>
      BY <1>2 DEF CompensateCreate, Goto, Untouched, Unread,
                  IInv, Types, TypeOK, lotVars, jobVars, fifoVars
    <2>2. target[r] \in Lines /\ FreeLine(target[r])
      BY <1>2 DEF CompensateCreate, IInv, Types, JobInv
    <2> QED BY <2>1, <2>2, FreeSafe
  <1> QED BY <1>1, <1>2 DEF Fault

LEMMA FreeingSafe ==
  ASSUME IInv, TypeOK', NEW r \in Requests,
         Clear(r) \/ DeleteLine(r) \/ DropReport(r)
  PROVE  Safe'
  <1>1. Untouched(r) /\ Unread(r) /\ UNCHANGED <<nLots, lotAmount>>
    <2> USE DEF Goto, Untouched, Unread, IInv, Types, TypeOK, lotVars
    <2>1. CASE Clear(r)
      BY <2>1 DEF Clear, JobInv, Expense, jobVars, fifoVars
    <2>2. CASE DeleteLine(r)
      BY <2>2 DEF DeleteLine, Retire
    <2>3. CASE DropReport(r)
      BY <2>3 DEF DropReport, Retire
    <2> QED BY <2>1, <2>2, <2>3
  <1>2. CASE Clear(r)
    <2>1. target[r] \in Lines /\ FreeLine(target[r])
      BY <1>2 DEF Clear, IInv, Types, JobInv, Expense
    <2> QED BY <1>1, <2>1, FreeSafe
  <1>3. CASE DeleteLine(r) /\ target[r] \in rows
    BY <1>1, <1>3, FreeSafe DEF DeleteLine, IInv, Types, TypeOK
  <1>4. CASE DeleteLine(r) /\ target[r] \notin rows
    BY <1>1, <1>4, OffLedger DEF DeleteLine, allocVars
  <1>5. CASE DropReport(r)
    BY <1>1, <1>5, DropSafe
  <1> QED BY <1>2, <1>3, <1>4, <1>5

LEMMA InsertLotSafe ==
  ASSUME IInv, NEW r \in Requests, InsertLot(r)
  PROVE  Safe'
  <1>1. PICK k \in Lots :
        /\ k = nLots + 1 /\ nLots' = k /\ alloc' = alloc /\ drawn' = drawn
        /\ lotAmount' = [lotAmount EXCEPT ![k] = amt[r]]
    BY DEF InsertLot, allocVars
  <1>2. Drawn(k) = 0 /\ \A j \in Lots : Drawn(j)' = Drawn(j)
    BY <1>1, LinesAndLots DEF IInv, FreshInv, Drawn, Types, TypeOK
  <1>3. /\ lotAmount'[k] = amt[r] /\ amt[r] \in Int /\ nLots \in Nat
        /\ \A j \in Lots \ {k} : lotAmount'[j] = lotAmount[j]
    BY <1>1 DEF IInv, Types, TypeOK
  <1>4. SumInv'
    BY <1>1 DEF IInv, SumInv
  <1>5. FreshInv'
    BY <1>1, <1>2, <1>3, LinesAndLots DEF IInv, FreshInv
  <1>6. NoDoubleSpend'
    BY <1>2, <1>3 DEF IInv, NoDoubleSpend
  <1>7. PendInv'
    <2>1. Untouched(r) /\ pc[r] \in Critical
      BY DEF InsertLot, Goto, Untouched, Critical, IInv, Types, TypeOK, fifoVars
    <2>2. ASSUME NEW q \in Requests, q # r PROVE PendOf(q)'
      BY <2>1, <2>2, AloneInside DEF IInv
    <2>3. PendOf(r)'
      <3>1. pc'[r] = "read" /\ target'[r] = k /\ amt'[r] = amt[r]
        BY <1>1 DEF InsertLot, Goto, IInv, Types, TypeOK
      <3>2. lotAmount'[k] - Drawn(k)' = amt[r]
        BY <1>1, <1>2, <1>3
      <3> QED BY <1>1, <1>3, <3>1, <3>2 DEF PendOf, Balance, Drawn
    <2> QED BY <2>2, <2>3 DEF PendInv
  <1> QED BY <1>4, <1>5, <1>6, <1>7 DEF Safe

LEMMA ReadSafe ==
  ASSUME IInv, NEW r \in Requests, ReadLots(r) \/ ReadLines(r)
  PROVE  Safe'
  <1>1. /\ UNCHANGED <<lotAmount, nLots, alloc, drawn, op, target>>
        /\ Untouched(r) /\ pc[r] \in Critical /\ pc'[r] = "draw"
    BY DEF ReadLots, ReadLines, Consume, Goto, Untouched, Critical, IInv, Types, TypeOK,
           lotVars, allocVars, jobVars
  <1>2. /\ SumInv' /\ FreshInv' /\ NoDoubleSpend'
        /\ \A k \in Lots : Balance(k)' = Balance(k)
    BY <1>1 DEF IInv, SumInv, FreshInv, NoDoubleSpend, Drawn, Balance
  <1>3. ASSUME NEW q \in Requests, q # r PROVE PendOf(q)'
    BY <1>1, <1>3, AloneInside DEF IInv
  <1>4. CASE ReadLots(r)
    <2>1. pend'[r] = { [line |-> target[r], lot |-> k, bal |-> Balance(k)] :
                         k \in { j \in 1 .. nLots : Balance(j) > 0 } }
      BY <1>4 DEF ReadLots, Consume, IInv, Types, TypeOK
    <2>2. \A p \in pend'[r] : p.lot \in 1 .. nLots /\ p.bal = Balance(p.lot)
                                /\ p.bal > 0 /\ p.line = target[r]
      BY <2>1
    <2>3. \A p, q \in pend'[r] : p.lot = q.lot => p = q
      BY <2>1
    <2>4. op[r] \in Expense /\ op[r] # "convert"
      BY <1>4 DEF ReadLots, Expense
    <2>5. \A k \in 1 .. nLots : k \in Lots /\ k <= nLots /\ Balance(k) \in Int
      <3>1. nLots \in 0 .. MaxOps["convert"] /\ nLots \in Nat
        BY LinesAndLots DEF IInv, Types, TypeOK
      <3>2. \A k \in 1 .. nLots : k \in Lots
        BY <3>1, InRange
      <3> QED BY <3>1, <3>2, BalanceInt DEF IInv, Types
    <2>6. \A p \in pend'[r] : p.bal <= lotAmount'[p.lot] - drawn'[p.lot][LastLine]
      BY <1>1, <2>2, <2>5 DEF Balance, Drawn
    <2>7. PendOf(r)'
      BY <1>1, <2>2, <2>3, <2>4, <2>5, <2>6 DEF PendOf, Balance, Drawn
    <2> QED BY <1>2, <1>3, <2>7 DEF Safe, PendInv
  <1>5. CASE ReadLines(r)
    <2>1. /\ pend'[r] = { [line |-> l, lot |-> target[r], bal |-> Unmet(l)] :
                            l \in { j \in rows : Unmet(j) > 0 } }
          /\ rem'[r] = amt[r]
      BY <1>5 DEF ReadLines, Consume, IInv, Types, TypeOK
    <2>2. \A p \in pend'[r] : p.lot = target[r] /\ p.bal > 0
      BY <2>1
    <2>3. op[r] = "convert" /\ pc[r] = "read"
      BY <1>5 DEF ReadLines
    <2>4. target[r] <= nLots /\ amt[r] <= Balance(target[r])
      BY <2>3 DEF IInv, PendInv, PendOf
    <2>5. PendOf(r)'
      BY <1>1, <2>1, <2>2, <2>3, <2>4 DEF PendOf, Balance, Drawn, Expense
    <2> QED BY <1>2, <1>3, <2>5 DEF Safe, PendInv
  <1> QED BY <1>4, <1>5

LEMMA DrawSafe ==
  ASSUME IInv, NEW r \in Requests, Draw(r)
  PROVE  Safe'
  <1>1. PICK p \in pend[r] : DrawFrom(r, p, Least(rem[r], p.bal))
    BY DEF Draw
  <1>2. p.line \in Lines /\ p.lot \in Lots /\ p.bal \in Nat
    BY DEF IInv, Types, TypeOK, Draws
  <1>3. PICK n \in Nat : /\ DrawFrom(r, p, n)
                         /\ n <= rem[r] /\ n <= p.bal
    <2>1. rem[r] \in Int /\ rem[r] > 0
      BY DEF Draw, IInv, Types, TypeOK
    <2> QED BY <1>1, <1>2, <2>1, LeastBounds
  <1>4. /\ UNCHANGED <<lotAmount, nLots, op, target, pc, amt>>
        /\ Untouched(r) /\ pc[r] = "draw" /\ pc[r] \in Critical
    BY <1>3 DEF Draw, DrawFrom, Untouched, Critical, IInv, Types, TypeOK,
           lotVars, jobVars
  <1>5. /\ SumInv'
        /\ \A k \in Lots : Drawn(k)' = IF k = p.lot THEN Drawn(k) + n ELSE Drawn(k)
    BY <1>3, DrawSums DEF IInv, Types
  <1>6. p.lot <= nLots /\ n <= Balance(p.lot)
    <2>1. op[r] \in Expense \cup {"convert"} /\ PendOf(r)
      BY <1>4 DEF IInv, Types, JobInv, PendInv
    <2>2. rem[r] \in Int /\ Balance(p.lot) \in Int
      BY <1>2, BalanceInt DEF IInv, Types, TypeOK
    <2> QED BY <1>2, <1>3, <1>4, <2>1, <2>2 DEF PendOf
  <1>7. \A k \in Lots :
          /\ Drawn(k) \in Int /\ Balance(k) \in Int /\ lotAmount[k] \in Int
          /\ Balance(k) = lotAmount[k] - Drawn(k)
    BY BalanceInt DEF IInv, Types, TypeOK, Balance
  <1>8. NoDoubleSpend'
    BY <1>4, <1>5, <1>6, <1>7 DEF IInv, NoDoubleSpend
  <1>9. FreshInv'
    <2>1. \A l \in Lines, k \in Lots : k # p.lot => alloc'[l][k] = alloc[l][k]
      BY <1>2, <1>3 DEF DrawFrom, IInv, Types, TypeOK
    <2>2. \A k \in Lots : k > nLots => k # p.lot
      BY <1>2, <1>6, LinesAndLots DEF IInv, Types, TypeOK
    <2> QED BY <1>4, <1>5, <2>1, <2>2 DEF IInv, FreshInv
  <1>10. ASSUME NEW q \in Requests, q # r PROVE PendOf(q)'
    BY <1>4, <1>10, AloneInside DEF IInv
  <1>11. PendOf(r)'
    <2>1. pend'[r] = pend[r] \ {p} /\ rem'[r] = rem[r] - n /\ rem[r] \in Int
      BY <1>3 DEF DrawFrom, IInv, Types, TypeOK
    <2>2. PendOf(r)
      BY DEF IInv, PendInv
    <2>3. \A s \in pend[r] : s.lot \in Lots /\ s.bal \in Nat
      BY DEF IInv, Types, TypeOK, Draws
    <2>4. \A k \in Lots : lotAmount'[k] - drawn'[k][LastLine]
                            = IF k = p.lot THEN Balance(k) - n ELSE Balance(k)
      BY <1>4, <1>5, <1>7 DEF Drawn
    <2>5. CASE op[r] \in Expense
      <3>1. op[r] # "convert"
        BY <2>5 DEF Expense
      <3>2. \A s \in pend[r] \ {p} : s.lot # p.lot
        BY <1>4, <2>2, <2>5 DEF PendOf
      <3> QED BY <1>4, <2>1, <2>2, <2>3, <2>4, <2>5, <3>1, <3>2
              DEF PendOf, Balance, Drawn
    <2>6. CASE op[r] = "convert"
      <3>1. op[r] \notin Expense
        BY <2>6 DEF Expense
      <3>2. \A s \in pend[r] : s.lot = p.lot /\ s.lot = target[r] /\ rem[r] <= Balance(s.lot)
        BY <1>4, <2>2, <2>6 DEF PendOf
      <3>3. \A s \in pend[r] : rem'[r] <= lotAmount'[s.lot] - drawn'[s.lot][LastLine]
        BY <1>2, <1>7, <2>1, <2>3, <2>4, <3>2
      <3> QED BY <1>4, <2>1, <2>2, <2>6, <3>1, <3>2, <3>3 DEF PendOf, Balance, Drawn
    <2> QED BY <1>4, <2>5, <2>6 DEF IInv, Types, JobInv
  <1> QED BY <1>5, <1>8, <1>9, <1>10, <1>11 DEF Safe, PendInv

LEMMA InvInit == Init => IInv
  <1> SUFFICES ASSUME Init PROVE IInv
    OBVIOUS
  <1>1. Types
    BY TypesInit
  <1>2. \A k \in Lots : drawn[k] = [m \in 0 .. LastLine |-> 0] /\ Drawn(k) = 0
    BY InRange DEF Init, Drawn
  <1>3. SumInv
    BY <1>2, InRange DEF Init, SumInv
  <1> QED BY <1>1, <1>2, <1>3 DEF Init, IInv, LockInv, FreshInv, PendInv, PendOf,
                                  NoDoubleSpend, Critical

LEMMA InvStep ==
  ASSUME IInv, [Next]_vars
  PROVE  IInv'
  <1>1. Types' /\ LockInv'
    BY NextTypes, LockStep DEF IInv
  <1>2. TypeOK'
    BY <1>1 DEF Types
  <1>3. ASSUME NEW r \in Requests, Start(r) \/ Acquire(r) \/ Step(r) \/ Fault(r)
        PROVE  Safe'
    BY <1>2, <1>3, StartSafe, WriteSafe, FreeingSafe, InsertLotSafe, ReadSafe,
       DrawSafe, FaultSafe DEF Step
  <1>4. ASSUME SubmitReport \/ ReopenReport \/ UNCHANGED vars
        PROVE  Safe'
    <2>1. UNCHANGED <<alloc, drawn, nLots, lotAmount, pc, op, target, amt, pend, rem>>
      BY <1>4 DEF SubmitReport, ReopenReport, vars, lotVars, allocVars, jobVars, fifoVars
    <2>2. SumInv' /\ FreshInv' /\ NoDoubleSpend'
      BY <2>1 DEF IInv, SumInv, FreshInv, NoDoubleSpend, Drawn
    <2>3. PendInv'
      BY <2>1 DEF IInv, PendInv, PendOf, Drawn, Balance
    <2> QED BY <2>2, <2>3 DEF Safe
  <1>5. Safe'
    <2>1. CASE \E r \in Requests : Start(r) \/ Acquire(r) \/ Step(r) \/ Fault(r)
      BY <1>3, <2>1
    <2> QED BY <1>4, <2>1 DEF Next
  <1> QED BY <1>1, <1>5 DEF IInv, Safe

\* A conversion is never spent twice: for any number of requests, in any
\* interleaving, with any failures and deaths, what the report lines of the
\* budget have drawn from a lot never exceeds what the bank paid for it.
THEOREM NeverDoubleSpent == Spec => []NoDoubleSpend
  <1>1. Spec => []IInv
    BY InvInit, InvStep, PTL DEF Spec
  <1>2. IInv => NoDoubleSpend
    BY DEF IInv
  <1> QED BY <1>1, <1>2, PTL

-----------------------------------------------------------------------------
(* Refinement: the ledger implements LotAccounts. *)

Bal == [k \in Lots |-> Balance(k)]

AccountsVars == <<lotAmount, Bal, alloc>>

LEMMA AccountsInit == Init => Accounts!Init
  <1> SUFFICES ASSUME Init PROVE Accounts!Init
    OBVIOUS
  <1>1. \A k \in Lots : Balance(k) = 0
    BY InRange DEF Init, Balance, Drawn
  <1> QED BY <1>1 DEF Init, Accounts!Init

LEMMA StutterAccounts ==
  ASSUME UNCHANGED <<alloc, drawn, lotAmount>>
  PROVE  UNCHANGED AccountsVars
  BY DEF AccountsVars, Bal, Balance, Drawn

LEMMA FreeAccounts ==
  ASSUME IInv, NEW l \in Lines, FreeLine(l), UNCHANGED lotAmount
  PROVE  Accounts!GiveBack(l)
  <1>1. \A k \in Lots : Drawn(k)' = Drawn(k) - alloc[l][k]
    BY FreeLineSums DEF IInv, Types
  <1>2. \A k \in Lots : Drawn(k) \in Int /\ lotAmount[k] \in Int /\ alloc[l][k] \in Int
    BY BalanceInt DEF IInv, Types, TypeOK
  <1>3. \A k \in Lots : Balance(k)' = Balance(k) + alloc[l][k]
    BY <1>1, <1>2 DEF Balance
  <1> QED BY <1>3 DEF FreeLine, Accounts!GiveBack

LEMMA OpenAccounts ==
  ASSUME IInv, TypeOK', NEW r \in Requests, InsertLot(r)
  PROVE  \E k \in Lots : Accounts!Open(k)
  <1>1. PICK k \in Lots : k = nLots + 1
    BY DEF InsertLot
  <1>2. /\ lotAmount[k] = 0 /\ Balance(k) = 0
        /\ \A j \in Lots : Drawn(j)' = Drawn(j) /\ Drawn(j) \in Int
    BY <1>1, LinesAndLots, BalanceInt
    DEF IInv, FreshInv, InsertLot, Balance, Drawn, allocVars, Types, TypeOK
  <1>3. /\ alloc' = alloc /\ lotAmount' \in [Lots -> Int]
        /\ \A j \in Lots \ {k} : lotAmount'[j] = lotAmount[j]
    BY <1>1 DEF InsertLot, allocVars, IInv, Types, TypeOK
  <1>4. \A j \in Lots : Balance(j)' = IF j = k THEN lotAmount'[k] ELSE Balance(j)
    BY <1>1, <1>2, <1>3, LinesAndLots DEF Balance, IInv, FreshInv, Types, TypeOK
  <1> QED BY <1>2, <1>3, <1>4 DEF Accounts!Open

LEMMA TakeAccounts ==
  ASSUME IInv, NEW r \in Requests, Draw(r)
  PROVE  \E l \in Lines, k \in Lots : \E n \in 1 .. Balance(k) : Accounts!Take(l, k, n)
  <1>1. PICK p \in pend[r] : DrawFrom(r, p, Least(rem[r], p.bal))
    BY DEF Draw
  <1>2. p.line \in Lines /\ p.lot \in Lots /\ p.bal \in Nat
    BY DEF IInv, Types, TypeOK, Draws
  <1>3. /\ rem[r] \in Int /\ rem[r] > 0 /\ pc[r] = "draw"
        /\ op[r] \in Expense \cup {"convert"} /\ PendOf(r)
        /\ Balance(p.lot) \in Int
    BY <1>2, BalanceInt DEF Draw, IInv, Types, TypeOK, JobInv, PendInv
  <1>4. PICK n \in Nat : DrawFrom(r, p, n) /\ 1 <= n /\ n <= rem[r] /\ n <= p.bal
    <2>1. p.bal > 0
      BY <1>3 DEF PendOf
    <2>2. Least(rem[r], p.bal) \in Nat /\ 1 <= Least(rem[r], p.bal)
      BY <1>2, <1>3, <2>1 DEF Least
    <2> QED BY <1>1, <1>2, <1>3, <2>2, LeastBounds
  <1>5. n \in 1 .. Balance(p.lot)
    BY <1>2, <1>3, <1>4 DEF PendOf
  <1>6. \A k \in Lots : Drawn(k)' = IF k = p.lot THEN Drawn(k) + n ELSE Drawn(k)
    BY <1>4, DrawSums DEF IInv, Types
  <1>7. lotAmount' = lotAmount
    BY DEF Draw, lotVars
  <1>8. \A k \in Lots : Drawn(k) \in Int /\ lotAmount[k] \in Int
    BY BalanceInt DEF IInv, Types, TypeOK
  <1>9. \A k \in Lots : Balance(k)' = IF k = p.lot THEN Balance(k) - n ELSE Balance(k)
    BY <1>6, <1>7, <1>8 DEF Balance
  <1>10. alloc' = [alloc EXCEPT ![p.line][p.lot] = @ + n]
    BY <1>4 DEF DrawFrom
  <1>11. Accounts!Take(p.line, p.lot, n)
    BY <1>2, <1>7, <1>9, <1>10 DEF Accounts!Take
  <1> QED BY <1>2, <1>5, <1>11

LEMMA DropAccounts ==
  ASSUME NEW r \in Requests, DropReport(r), IInv
  PROVE  Accounts!GiveAllBack
  <1>1. lotAmount' = lotAmount
    BY DEF DropReport, lotVars
  <1>2. \A k \in Lots : Drawn(k)' = 0
    BY InRange DEF DropReport, Drawn
  <1>3. \A k \in Lots : Balance(k)' = lotAmount[k]
    BY <1>1, <1>2 DEF Balance, IInv, Types, TypeOK
  <1>4. [k \in Lots |-> Balance(k)]' = lotAmount
    BY <1>3 DEF IInv, Types, TypeOK
  <1> QED BY <1>1, <1>4 DEF DropReport, Accounts!GiveAllBack

LEMMA AccountsStep ==
  ASSUME IInv, TypeOK', [Next]_vars
  PROVE  [Accounts!Next]_AccountsVars
  <1> DEFINE Goal == [Accounts!Next]_AccountsVars
  <1>1. ASSUME NEW r \in Requests, NEW l \in Lines, FreeLine(l), UNCHANGED lotVars
        PROVE  Goal
    BY <1>1, FreeAccounts DEF lotVars, Accounts!Next
  <1>2. ASSUME UNCHANGED allocVars, UNCHANGED lotVars PROVE Goal
    BY <1>2, StutterAccounts DEF allocVars, lotVars
  <1>3. ASSUME NEW r \in Requests, Start(r) \/ Acquire(r) PROVE Goal
    BY <1>2, <1>3 DEF Start, Begin, BeginCreate, BeginUpdate, BeginConvert,
                      BeginDelete, BeginDrop, Acquire
  <1>4. ASSUME NEW r \in Requests, Step(r) PROVE Goal
    <2>1. CASE \/ InsertLine(r) \/ WriteAmount(r) \/ WriteFails(r) \/ ReadLots(r)
               \/ ReadLines(r) \/ ReadFails(r) \/ DrawFails(r) \/ DrawDone(r)
               \/ Release(r) \/ DeleteFails(r)
      BY <1>2, <2>1 DEF InsertLine, WriteAmount, WriteFails, ReadLots, ReadLines,
                        Consume, ReadFails, DrawFails, DrawDone, Release, DeleteFails
    <2>2. CASE Clear(r)
      <3>1. target[r] \in Lines
        BY <2>2 DEF Clear, IInv, Types, JobInv, Expense
      <3> QED BY <1>1, <2>2, <3>1 DEF Clear
    <2>3. CASE DeleteLine(r)
      <3>1. target[r] \in rows => target[r] \in Lines
        BY DEF IInv, Types, TypeOK
      <3> QED BY <1>1, <1>2, <2>3, <3>1 DEF DeleteLine
    <2>4. CASE InsertLot(r)
      BY <2>4, OpenAccounts DEF Accounts!Next
    <2>5. CASE Draw(r)
      BY <2>5, TakeAccounts DEF Accounts!Next
    <2>6. CASE DropReport(r)
      BY <2>6, DropAccounts DEF Accounts!Next
    <2> QED BY <1>4, <2>1, <2>2, <2>3, <2>4, <2>5, <2>6 DEF Step
  <1>5. ASSUME NEW r \in Requests, Fault(r) PROVE Goal
    <2>1. CASE CompensateUpdate(r) \/ Poison(r) \/ Die(r)
      BY <1>2, <2>1 DEF CompensateUpdate, Poison, Die
    <2>2. CASE CompensateCreate(r)
      <3>1. target[r] \in Lines
        BY <2>2 DEF CompensateCreate, IInv, Types, JobInv
      <3> QED BY <1>1, <2>2, <3>1 DEF CompensateCreate
    <2> QED BY <1>5, <2>1, <2>2 DEF Fault
  <1>6. CASE SubmitReport \/ ReopenReport \/ UNCHANGED vars
    BY <1>2, <1>6 DEF SubmitReport, ReopenReport, vars
  <1>7. CASE \E r \in Requests : Start(r) \/ Acquire(r) \/ Step(r) \/ Fault(r)
    BY <1>3, <1>4, <1>5, <1>7
  <1> QED BY <1>6, <1>7 DEF Next

\* The ledger keeps the promise of LotAccounts: every committed step of every
\* request opens an account, takes from one lot money that is there, gives a
\* whole line or the whole report back, or moves no money at all.
THEOREM LedgerImplementsAccounts == Spec => AccountsSpec
  <1>1. Spec => []IInv
    BY InvInit, InvStep, PTL DEF Spec
  <1>2. Init => Accounts!Init
    BY AccountsInit
  <1>3. IInv /\ IInv' /\ [Next]_vars
          => [Accounts!Next]_<<lotAmount, [k \in Lots |-> Balance(k)], alloc>>
    <2> SUFFICES ASSUME IInv, IInv', [Next]_vars
                 PROVE  [Accounts!Next]_<<lotAmount, [k \in Lots |-> Balance(k)], alloc>>
      OBVIOUS
    <2>1. [Accounts!Next]_AccountsVars
      BY AccountsStep DEF IInv, Types
    <2> QED BY <2>1 DEF AccountsVars, Bal
  <1> QED BY <1>1, <1>2, <1>3, PTL DEF Spec, AccountsSpec, Accounts!Spec

-----------------------------------------------------------------------------
(* Every allocation has its line and its lot, and the aggregates are sums. *)

\* What the lines have drawn from a lot, line by line.
OfLot(k) == [l \in Lines |-> alloc[l][k]]

\* Where each allocation row hangs, and what the aggregates add up to.
HangsRight == \A l \in Lines, k \in Lots : alloc[l][k] > 0 => l \in rows /\ k <= nLots
LotSums == \A k \in Lots : Drawn(k) = SumFunctionOnSet(OfLot(k), Lines)
LineSums == \A l \in Lines : covered[l] = SumFunctionOnSet(alloc[l], Lots)

\* The parts make up EveryDrawTraces.
LEMMA TraceParts == EveryDrawTraces <=> HangsRight /\ LotSums /\ LineSums
  BY DEF EveryDrawTraces, HangsRight, LotSums, LineSums, OfLot

\* There are finitely many lines and lots.
LEMMA FiniteTables == IsFiniteSet(Lines) /\ IsFiniteSet(Lots)
  BY BoundsAssumption, FS_Interval DEF Lines, Lots, Kinds

\* The types of the rows and of their sums.
LEMMA RowTypes ==
  ASSUME TypeOK
  PROVE  /\ \A l \in Lines, k \in Lots : alloc[l][k] \in Nat /\ OfLot(k)[l] = alloc[l][k]
         /\ \A k \in Lots : Drawn(k) \in Int
         /\ \A l \in Lines : covered[l] \in Int
  BY BalanceInt DEF TypeOK, OfLot

\* One row changes: so do its lot's sum and its line's.
LEMMA RowSums ==
  ASSUME TypeOK, TypeOK', LotSums, LineSums, NEW l \in Lines, NEW k \in Lots, NEW n \in Int,
         \A m \in Lines, j \in Lots :
            alloc'[m][j] = IF m = l /\ j = k THEN alloc[m][j] + n ELSE alloc[m][j],
         \A j \in Lots : Drawn(j)' = IF j = k THEN Drawn(j) + n ELSE Drawn(j),
         \A m \in Lines : covered'[m] = IF m = l THEN covered[m] + n ELSE covered[m]
  PROVE  LotSums' /\ LineSums'
  <1>1. /\ \A m \in Lines, j \in Lots : alloc[m][j] \in Int /\ OfLot(j)[m] = alloc[m][j]
        /\ \A m \in Lines, j \in Lots : alloc'[m][j] \in Int /\ OfLot(j)'[m] = alloc'[m][j]
    BY DEF TypeOK, OfLot
  <1>2. ASSUME NEW j \in Lots PROVE Drawn(j)' = SumFunctionOnSet(OfLot(j)', Lines)
    <2> DEFINE f == OfLot(j)
               g == OfLot(j)'
    <2>1. Drawn(j) = SumFunctionOnSet(f, Lines)
      BY DEF LotSums
    <2>2. \A m \in Lines : f[m] \in Int /\ g[m] \in Int
                             /\ (g[m] = IF m = l /\ j = k THEN f[m] + n ELSE f[m])
      BY <1>1
    <2> HIDE DEF f, g
    <2>3. CASE j = k
      <3>1. SumFunctionOnSet(g, Lines) = SumFunctionOnSet(f, Lines) - f[l] + g[l]
        BY <2>2, <2>3, FiniteTables, SumChange
      <3>2. SumFunctionOnSet(f, Lines) \in Int
        BY <2>2, FiniteTables, SumType
      <3>3. Drawn(j)' = Drawn(j) + n /\ g[l] = f[l] + n /\ f[l] \in Int
        BY <2>2, <2>3
      <3> QED BY <2>1, <3>1, <3>2, <3>3 DEF g
    <2>4. CASE j # k
      <3>1. SumFunctionOnSet(f, Lines) = SumFunctionOnSet(g, Lines)
        BY <2>2, <2>4, FiniteTables, SumSame
      <3> QED BY <2>1, <2>4, <3>1 DEF g
    <2> QED BY <2>3, <2>4
  <1>3. ASSUME NEW m \in Lines PROVE covered'[m] = SumFunctionOnSet(alloc'[m], Lots)
    <2> DEFINE f == alloc[m]
               g == alloc'[m]
    <2>1. covered[m] = SumFunctionOnSet(f, Lots)
      BY DEF LineSums
    <2>2. \A j \in Lots : f[j] \in Int /\ g[j] \in Int
                             /\ (g[j] = IF m = l /\ j = k THEN f[j] + n ELSE f[j])
      BY <1>1
    <2> HIDE DEF f, g
    <2>3. CASE m = l
      <3>1. SumFunctionOnSet(g, Lots) = SumFunctionOnSet(f, Lots) - f[k] + g[k]
        BY <2>2, <2>3, FiniteTables, SumChange
      <3>2. SumFunctionOnSet(f, Lots) \in Int
        BY <2>2, FiniteTables, SumType
      <3>3. covered'[m] = covered[m] + n /\ g[k] = f[k] + n /\ f[k] \in Int
        BY <2>2, <2>3
      <3> QED BY <2>1, <3>1, <3>2, <3>3 DEF g
    <2>4. CASE m # l
      <3>1. SumFunctionOnSet(f, Lots) = SumFunctionOnSet(g, Lots)
        BY <2>2, <2>4, FiniteTables, SumSame
      <3> QED BY <2>1, <2>4, <3>1 DEF g
    <2> QED BY <2>3, <2>4
  <1> QED BY <1>2, <1>3 DEF LotSums, LineSums

\* A whole line is given back.
LEMMA FreeTraces ==
  ASSUME TypeOK, TypeOK', SumInv, LotSums, LineSums, NEW l \in Lines, FreeLine(l)
  PROVE  LotSums' /\ LineSums'
  <1>1. /\ \A m \in Lines, j \in Lots : alloc'[m][j] = IF m = l THEN 0 ELSE alloc[m][j]
        /\ \A m \in Lines : covered'[m] = IF m = l THEN 0 ELSE covered[m]
        /\ \A m \in Lines, j \in Lots : alloc[m][j] \in Int /\ OfLot(j)[m] = alloc[m][j]
        /\ \A m \in Lines, j \in Lots : alloc'[m][j] \in Int /\ OfLot(j)'[m] = alloc'[m][j]
    BY DEF FreeLine, TypeOK, OfLot
  <1>2. \A j \in Lots : Drawn(j)' = Drawn(j) - alloc[l][j]
    BY FreeLineSums
  <1>3. ASSUME NEW j \in Lots PROVE Drawn(j)' = SumFunctionOnSet(OfLot(j)', Lines)
    <2> DEFINE f == OfLot(j)
               g == OfLot(j)'
    <2>1. Drawn(j) = SumFunctionOnSet(f, Lines) /\ Drawn(j)' = Drawn(j) - f[l]
      BY <1>1, <1>2 DEF LotSums
    <2>2. \A m \in Lines : f[m] \in Int /\ g[m] \in Int /\ (g[m] = IF m = l THEN 0 ELSE f[m])
      BY <1>1
    <2> HIDE DEF f, g
    <2>3. SumFunctionOnSet(g, Lines) = SumFunctionOnSet(f, Lines) - f[l] + g[l]
      BY <2>2, FiniteTables, SumChange
    <2>4. SumFunctionOnSet(f, Lines) \in Int
      BY <2>2, FiniteTables, SumType
    <2> QED BY <2>1, <2>2, <2>3, <2>4 DEF g
  <1>4. ASSUME NEW m \in Lines PROVE covered'[m] = SumFunctionOnSet(alloc'[m], Lots)
    <2> DEFINE f == alloc[m]
               g == alloc'[m]
    <2>1. covered[m] = SumFunctionOnSet(f, Lots)
      BY DEF LineSums
    <2>2. \A j \in Lots : f[j] \in Int /\ g[j] \in Int /\ (g[j] = IF m = l THEN 0 ELSE f[j])
      BY <1>1
    <2> HIDE DEF f, g
    <2>3. CASE m = l
      <3>1. SumFunctionOnSet(g, Lots) = 0
        BY <2>2, <2>3, FiniteTables, SumOfZeros
      <3> QED BY <1>1, <2>3, <3>1 DEF g
    <2>4. CASE m # l
      <3>1. SumFunctionOnSet(f, Lots) = SumFunctionOnSet(g, Lots)
        BY <2>2, <2>4, FiniteTables, SumSame
      <3> QED BY <1>1, <2>1, <2>4, <3>1 DEF g
    <2> QED BY <2>3, <2>4
  <1> QED BY <1>3, <1>4 DEF LotSums, LineSums

\* No row changes.
LEMMA SameTraces ==
  ASSUME EveryDrawTraces, TypeOK, UNCHANGED <<alloc, drawn, covered>>,
         rows \subseteq rows', nLots' \in Nat, nLots <= nLots'
  PROVE  EveryDrawTraces'
  <1>1. HangsRight'
    <2> SUFFICES ASSUME NEW l \in Lines, NEW k \in Lots, alloc'[l][k] > 0
                 PROVE  l \in rows' /\ k <= nLots'
      BY DEF HangsRight
    <2>1. l \in rows /\ k <= nLots
      BY TraceParts DEF HangsRight
    <2> QED BY <2>1, LinesAndLots DEF TypeOK
  <1>2. LotSums' /\ LineSums'
    BY TraceParts DEF LotSums, LineSums, OfLot, Drawn
  <1> QED BY <1>1, <1>2 DEF EveryDrawTraces, HangsRight, LotSums, LineSums, OfLot

\* A line is given back, and its row may go with it.
LEMMA FreeKeepsTraces ==
  ASSUME IInv, TypeOK', EveryDrawTraces, NEW l \in Lines, FreeLine(l),
         rows \subseteq rows' \cup {l}, nLots' = nLots
  PROVE  EveryDrawTraces'
  <1>1. LotSums' /\ LineSums'
    BY FreeTraces, TraceParts DEF IInv, Types
  <1>2. HangsRight'
    <2> SUFFICES ASSUME NEW m \in Lines, NEW k \in Lots, alloc'[m][k] > 0
                 PROVE  m \in rows' /\ k <= nLots'
      BY DEF HangsRight
    <2>1. m # l /\ alloc'[m][k] = alloc[m][k]
      BY DEF FreeLine, IInv, Types, TypeOK
    <2>2. m \in rows /\ k <= nLots
      BY <2>1, TraceParts DEF HangsRight
    <2> QED BY <2>1, <2>2
  <1> QED BY <1>1, <1>2 DEF EveryDrawTraces, HangsRight, LotSums, LineSums, OfLot

\* The rows of a report go with it.
LEMMA DropKeepsTraces ==
  ASSUME EveryDrawTraces, NEW r \in Requests, DropReport(r)
  PROVE  EveryDrawTraces'
  <1>1. \A l \in Lines, k \in Lots : alloc'[l][k] = 0 /\ OfLot(k)'[l] = 0
    BY DEF DropReport, OfLot
  <1>2. \A l \in Lines : covered'[l] = 0
    BY DEF DropReport
  <1>3. \A k \in Lots : Drawn(k)' = 0
    BY InRange DEF DropReport, Drawn
  <1>4. HangsRight'
    BY <1>1 DEF HangsRight
  <1>5. \A k \in Lots : SumFunctionOnSet(OfLot(k)', Lines) = 0
    BY <1>1, FiniteTables, SumOfZeros
  <1>6. \A l \in Lines : SumFunctionOnSet(alloc'[l], Lots) = 0
    BY <1>1, FiniteTables, SumOfZeros
  <1>7. LotSums' /\ LineSums'
    BY <1>2, <1>3, <1>5, <1>6 DEF LotSums, LineSums
  <1> QED BY <1>4, <1>7 DEF EveryDrawTraces, HangsRight, LotSums, LineSums, OfLot

\* A draw inserts a row for a line that is there, from a lot that was recorded.
LEMMA DrawKeepsTraces ==
  ASSUME IInv, TypeOK', EveryDrawTraces, NEW r \in Requests, Draw(r)
  PROVE  EveryDrawTraces'
  <1>1. PICK p \in pend[r] : p.line \in rows /\ DrawFrom(r, p, Least(rem[r], p.bal))
    BY DEF Draw
  <1>2. p.line \in Lines /\ p.lot \in Lots /\ p.bal \in Nat
    BY DEF IInv, Types, TypeOK, Draws
  <1>3. rem[r] \in Int /\ rem[r] > 0
    BY DEF Draw, IInv, Types, TypeOK
  <1>4. PICK n \in Nat : DrawFrom(r, p, n)
    BY <1>1, <1>2, <1>3, LeastBounds
  <1>5. \A k \in Lots : Drawn(k)' = IF k = p.lot THEN Drawn(k) + n ELSE Drawn(k)
    BY <1>4, DrawSums DEF IInv, Types
  <1>6. /\ \A l \in Lines : covered'[l] = IF l = p.line THEN covered[l] + n ELSE covered[l]
        /\ \A l \in Lines, k \in Lots :
             alloc'[l][k] = IF l = p.line /\ k = p.lot THEN alloc[l][k] + n ELSE alloc[l][k]
    BY <1>2, <1>4 DEF DrawFrom, IInv, Types, TypeOK
  <1>7. LotSums' /\ LineSums'
    BY <1>2, <1>5, <1>6, RowSums, TraceParts DEF IInv, Types
  <1>8. HangsRight'
    <2>1. pc[r] = "draw" /\ rows' = rows /\ nLots' = nLots
      BY DEF Draw, lineVars, lotVars
    <2>2. p.lot <= nLots
      BY <2>1 DEF IInv, PendInv, PendOf
    <2> SUFFICES ASSUME NEW l \in Lines, NEW k \in Lots, alloc'[l][k] > 0
                 PROVE  l \in rows' /\ k <= nLots'
      BY DEF HangsRight
    <2>3. CASE l = p.line /\ k = p.lot
      BY <1>1, <2>1, <2>2, <2>3
    <2>4. CASE ~(l = p.line /\ k = p.lot)
      BY <1>6, <2>1, <2>4, TraceParts DEF HangsRight
    <2> QED BY <2>3, <2>4
  <1> QED BY <1>7, <1>8 DEF EveryDrawTraces, HangsRight, LotSums, LineSums, OfLot

\* At the start nothing is allocated.
LEMMA TraceInit == Init => EveryDrawTraces
  <1> SUFFICES ASSUME Init PROVE EveryDrawTraces
    OBVIOUS
  <1>1. \A l \in Lines, k \in Lots : alloc[l][k] = 0 /\ OfLot(k)[l] = 0
    BY DEF Init, OfLot
  <1>2. \A k \in Lots : Drawn(k) = 0
    BY InRange DEF Init, Drawn
  <1>3. \A k \in Lots : SumFunctionOnSet(OfLot(k), Lines) = 0
    BY <1>1, FiniteTables, SumOfZeros
  <1>4. \A l \in Lines : SumFunctionOnSet(alloc[l], Lots) = 0
    BY <1>1, FiniteTables, SumOfZeros
  <1>5. HangsRight /\ LotSums /\ LineSums
    BY <1>1, <1>2, <1>3, <1>4 DEF Init, HangsRight, LotSums, LineSums
  <1> QED BY <1>5, TraceParts

\* Every step keeps the rows hanging and the sums right.
LEMMA TraceStep ==
  ASSUME IInv, TypeOK', EveryDrawTraces, [Next]_vars
  PROVE  EveryDrawTraces'
  <1>0. nLots \in Nat /\ nLots' \in Nat
    BY LinesAndLots, InRange, BoundsAssumption DEF IInv, Types, TypeOK, Kinds
  <1>1. ASSUME NEW r \in Requests, Start(r) \/ Acquire(r) PROVE EveryDrawTraces'
    <2>1. UNCHANGED <<alloc, drawn, covered, rows, nLots>>
      BY <1>1 DEF Start, Begin, BeginCreate, BeginUpdate, BeginConvert, BeginDelete, BeginDrop,
                  Acquire, lineVars, lotVars, allocVars
    <2> QED BY <1>0, <2>1, SameTraces DEF IInv, Types
  <1>2. ASSUME NEW r \in Requests,
               \/ InsertLine(r) \/ WriteAmount(r) \/ WriteFails(r) \/ ReadLots(r)
               \/ ReadLines(r) \/ ReadFails(r) \/ DrawFails(r) \/ DrawDone(r)
               \/ Release(r) \/ DeleteFails(r) \/ InsertLot(r)
        PROVE  EveryDrawTraces'
    <2>1. UNCHANGED <<alloc, drawn, covered>> /\ rows \subseteq rows' /\ nLots <= nLots'
      BY <1>0, <1>2 DEF InsertLine, WriteAmount, WriteFails, ReadLots, ReadLines, Consume,
                  ReadFails, DrawFails, DrawDone, Release, DeleteFails, InsertLot,
                  lineVars, lotVars, allocVars
    <2> QED BY <1>0, <2>1, SameTraces DEF IInv, Types
  <1>3. ASSUME NEW r \in Requests, Clear(r) \/ DeleteLine(r) PROVE EveryDrawTraces'
    <2>1. CASE Clear(r)
      <3>1. target[r] \in Lines /\ FreeLine(target[r])
        BY <2>1 DEF Clear, IInv, Types, JobInv, Expense
      <3>2. rows' = rows /\ nLots' = nLots
        BY <2>1 DEF Clear, lineVars, lotVars
      <3> QED BY <3>1, <3>2, FreeKeepsTraces
    <2>2. CASE DeleteLine(r) /\ target[r] \in rows
      <3>1. target[r] \in Lines /\ FreeLine(target[r])
        BY <2>2 DEF DeleteLine, IInv, Types, TypeOK
      <3>2. rows' = rows \ {target[r]} /\ nLots' = nLots
        BY <2>2 DEF DeleteLine, lotVars
      <3> QED BY <3>1, <3>2, FreeKeepsTraces
    <2>3. CASE DeleteLine(r) /\ target[r] \notin rows
      <3>1. UNCHANGED <<alloc, drawn, covered, rows, nLots>>
        BY <2>3 DEF DeleteLine, allocVars, lotVars
      <3> QED BY <1>0, <3>1, SameTraces DEF IInv, Types
    <2> QED BY <1>3, <2>1, <2>2, <2>3
  <1>4. ASSUME NEW r \in Requests, Step(r) PROVE EveryDrawTraces'
    BY <1>2, <1>3, <1>4, DrawKeepsTraces, DropKeepsTraces DEF Step
  <1>5. ASSUME NEW r \in Requests, Fault(r) PROVE EveryDrawTraces'
    <2>1. CASE CompensateUpdate(r) \/ Poison(r) \/ Die(r)
      <3>1. UNCHANGED <<alloc, drawn, covered, rows, nLots>>
        BY <2>1 DEF CompensateUpdate, Poison, Die, lineVars, lotVars, allocVars
      <3> QED BY <1>0, <3>1, SameTraces DEF IInv, Types
    <2>2. CASE CompensateCreate(r)
      <3>1. target[r] \in Lines /\ FreeLine(target[r])
        BY <2>2 DEF CompensateCreate, IInv, Types, JobInv
      <3>2. rows' = rows \ {target[r]} /\ nLots' = nLots
        BY <2>2 DEF CompensateCreate, lotVars
      <3> QED BY <3>1, <3>2, FreeKeepsTraces
    <2> QED BY <1>5, <2>1, <2>2 DEF Fault
  <1>6. ASSUME SubmitReport \/ ReopenReport \/ UNCHANGED vars PROVE EveryDrawTraces'
    <2>1. UNCHANGED <<alloc, drawn, covered, rows, nLots>>
      BY <1>6 DEF SubmitReport, ReopenReport, vars, lineVars, lotVars, allocVars
    <2> QED BY <1>0, <2>1, SameTraces DEF IInv, Types
  <1>7. CASE \E r \in Requests : Start(r) \/ Acquire(r) \/ Step(r) \/ Fault(r)
    BY <1>1, <1>4, <1>5, <1>7
  <1> QED BY <1>6, <1>7 DEF Next

\* Every allocation row hangs from a line that is there and a lot that was recorded, and the
\* two aggregates that the ledger reads are what its rows add up to, whatever is deleted, fails
\* or dies meanwhile.
THEOREM AllocationsTrace == Spec => []EveryDrawTraces
  <1>1. Spec => []IInv
    BY InvInit, InvStep, PTL DEF Spec
  <1>2. IInv => TypeOK
    BY DEF IInv, Types
  <1>3. Init => EveryDrawTraces
    BY TraceInit
  <1>4. IInv /\ TypeOK' /\ EveryDrawTraces /\ [Next]_vars => EveryDrawTraces'
    BY TraceStep
  <1> QED BY <1>1, <1>2, <1>3, <1>4, PTL DEF Spec

-----------------------------------------------------------------------------
(* In which order, and for whom: under what conditions. *)

\* The hypotheses.
OneEditor == \A r, s \in Editors : r = s
NothingDeleted == MaxOps["delete"] = 0 /\ MaxOps["drop"] = 0

(* The inductive invariants. *)

\* A line that was not inserted yet has nothing, and a new one not before it is allocated.
NewInv ==
    /\ \A l \in Lines : l > nLines =>
          l \notin rows /\ covered[l] = 0 /\ \A k \in Lots : alloc[l][k] = 0
    /\ \A r \in Requests :
          /\ op[r] \in {"update", "restore", "delete"} => target[r] <= nLines
          /\ op[r] = "create" /\ pc[r] \in {"clear", "read", "draw"} => target[r] <= nLines
          /\ op[r] = "create" /\ pc[r] = "clear" =>
                covered[target[r]] = 0 /\ \A k \in Lots : alloc[target[r]][k] = 0

\* What the lock holder has yet to allocate to a line, as long as the line is there.
AmountOf(r) ==
    /\ op[r] = "create" /\ pc[r] \in {"clear", "read", "draw"} => lineAmount[target[r]] = amt[r]
    /\ op[r] \in Expense /\ pc[r] = "read" /\ target[r] \in rows => covered[target[r]] = 0
    /\ op[r] \in Expense /\ pc[r] = "draw" =>
          /\ target[r] \in rows => rem[r] + covered[target[r]] = amt[r]
          /\ \A p \in pend[r] : p.line = target[r]
    /\ op[r] = "convert" /\ pc[r] = "draw" =>
          /\ \A p \in pend[r] : p.line \in rows => p.bal = Unmet(p.line)
          /\ \A p, q \in pend[r] : p.line = q.line => p = q

AmountInv == \A r \in Requests : AmountOf(r)

\* Nothing failed, so nothing is restored: an edit compares with what the line is worth.
SyncInv ==
    /\ \A r \in Requests : op[r] = "update" => r \in Editors
    /\ faults = 0 =>
        /\ \A r \in Requests :
              /\ op[r] # "restore"
              /\ op[r] = "update" /\ pc[r] \in {"want", "write"} /\ target[r] \in rows
                    => prev[r] = lineAmount[target[r]]
              /\ op[r] = "update" /\ pc[r] \in {"clear", "read", "draw"} /\ target[r] \in rows
                    => lineAmount[target[r]] = amt[r]
        /\ \A l \in rows :
              \/ covered[l] > 0 => covered[l] <= lineAmount[l]
              \/ \E r \in Requests : op[r] = "update" /\ pc[r] = "clear" /\ target[r] = l

\* Where nothing is deleted, what the lock holder has yet to visit is all there is, and
\* as it was read.
KeptOf(r) ==
    /\ op[r] = "create" /\ pc[r] \in {"clear", "read", "draw"} => target[r] \in rows
    /\ pc[r] = "draw" /\ op[r] \in Expense =>
          /\ \A p \in pend[r] : p.bal = Balance(p.lot)
          /\ \A k \in 1 .. nLots : Balance(k) > 0 /\ rem[r] > 0 => \E p \in pend[r] : p.lot = k
    /\ pc[r] = "draw" /\ op[r] = "convert" =>
          /\ \A p \in pend[r] : p.line \in rows
          /\ \A l \in rows : Unmet(l) > 0 /\ rem[r] > 0 => \E p \in pend[r] : p.line = l

Kept == begun["delete"] = 0 /\ begun["drop"] = 0

KeptInv ==
    Kept => /\ report # "gone"
            /\ \A r \in Requests : op[r] \notin {"delete", "drop"} /\ KeptOf(r)

\* Only new lines and conversions, and no failures.
Quiet == Kept /\ begun["update"] = 0 /\ faults = 0

\* A line and a lot that should have been brought together.
Apart(l, k) == Unmet(l) > 0 /\ Balance(k) > 0

\* The lock holder has it in hand to bring them together.
Bringing(r, l, k) ==
    \/ op[r] = "create" /\ pc[r] \in {"clear", "read", "draw"} /\ l = target[r]
    \/ op[r] = "convert" /\ pc[r] \in {"read", "draw"} /\ k = target[r]

QuietInv ==
    Quiet =>
        /\ \A r \in Requests :
              /\ op[r] \notin {"update", "restore"}
              /\ op[r] = "convert" /\ pc[r] = "read" => amt[r] = Balance(target[r])
              /\ op[r] = "convert" /\ pc[r] = "draw" => rem[r] = Balance(target[r])
        /\ \A l \in rows, k \in 1 .. nLots :
              Apart(l, k) => \E r \in Requests : Bringing(r, l, k)

-----------------------------------------------------------------------------
(* Lines that are new, or not there yet. *)

LEMMA NewInit == Init => NewInv
  BY DEF Init, NewInv

LEMMA Freed ==
  ASSUME TypeOK, NEW l \in Lines, FreeLine(l)
  PROVE  /\ \A m \in Lines : covered'[m] = IF m = l THEN 0 ELSE covered[m]
         /\ \A m \in Lines, k \in Lots : alloc'[m][k] = IF m = l THEN 0 ELSE alloc[m][k]
  BY DEF FreeLine, TypeOK

\* What a draw changes.
LEMMA Drew ==
  ASSUME IInv, NEW r \in Requests, Draw(r)
  PROVE  \E p \in pend[r] : \E n \in Nat :
           /\ Oldest(r, p) /\ p.line \in rows /\ p.line \in Lines /\ p.lot \in Lots
           /\ p.bal \in Nat /\ rem[r] \in Int /\ rem[r] > 0
           /\ (n = rem[r] \/ n = p.bal) /\ n <= rem[r] /\ n <= p.bal
           /\ rem'[r] = rem[r] - n /\ pend'[r] = pend[r] \ {p}
           /\ \A l \in Lines : covered'[l] = IF l = p.line THEN covered[l] + n ELSE covered[l]
           /\ \A l \in Lines, k \in Lots :
                alloc'[l][k] = IF l = p.line /\ k = p.lot THEN alloc[l][k] + n ELSE alloc[l][k]
           /\ \A k \in Lots : Drawn(k)' = IF k = p.lot THEN Drawn(k) + n ELSE Drawn(k)
  <1>1. PICK p \in pend[r] : /\ Oldest(r, p) /\ p.line \in rows
                             /\ DrawFrom(r, p, Least(rem[r], p.bal))
    BY DEF Draw
  <1>2. p.line \in Lines /\ p.lot \in Lots /\ p.bal \in Nat
    BY DEF IInv, Types, TypeOK, Draws
  <1>3. rem[r] \in Int /\ rem[r] > 0
    BY DEF Draw, IInv, Types, TypeOK
  <1>4. PICK n \in Nat : /\ n = Least(rem[r], p.bal) /\ (n = rem[r] \/ n = p.bal)
                         /\ n <= rem[r] /\ n <= p.bal
    BY <1>2, <1>3, LeastBounds DEF Least
  <1>5. DrawFrom(r, p, n)
    BY <1>1, <1>4
  <1>6. \A k \in Lots : Drawn(k)' = IF k = p.lot THEN Drawn(k) + n ELSE Drawn(k)
    BY <1>5, DrawSums DEF IInv, Types
  <1>7. /\ \A l \in Lines : covered'[l] = IF l = p.line THEN covered[l] + n ELSE covered[l]
        /\ \A l \in Lines, k \in Lots :
             alloc'[l][k] = IF l = p.line /\ k = p.lot THEN alloc[l][k] + n ELSE alloc[l][k]
        /\ rem'[r] = rem[r] - n /\ pend'[r] = pend[r] \ {p}
    BY <1>2, <1>5 DEF DrawFrom, IInv, Types, TypeOK
  <1> QED BY <1>1, <1>2, <1>3, <1>4, <1>6, <1>7

LEMMA NextIsClean ==
  ASSUME NewInv, nLines \in Nat, nLines + 1 \in Lines
  PROVE  covered[nLines + 1] = 0 /\ \A k \in Lots : alloc[nLines + 1][k] = 0
  <1>1. nLines + 1 > nLines
    OBVIOUS
  <1> QED BY <1>1 DEF NewInv

\* Where the lines' tables change: a line appears, is drawn for, or goes.
LEMMA NewTables ==
  ASSUME IInv, NewInv, NEW r \in Requests,
         InsertLine(r) \/ Draw(r) \/ DeleteLine(r) \/ DropReport(r)
  PROVE  \A l \in Lines : l > nLines' =>
           l \notin rows' /\ covered'[l] = 0 /\ \A k \in Lots : alloc'[l][k] = 0
  <1>0. /\ nLines \in Nat /\ rows \subseteq Lines /\ target \in [Requests -> Nat]
        /\ \A l \in Lines : l > nLines =>
             l \notin rows /\ covered[l] = 0 /\ \A k \in Lots : alloc[l][k] = 0
    BY InRange DEF IInv, Types, TypeOK, NewInv
  <1>1. CASE InsertLine(r)
    BY <1>0, <1>1, LinesAndLots DEF InsertLine, allocVars
  <1>2. CASE Draw(r)
    <2>1. PICK p \in pend[r], n \in Nat :
            /\ p.line \in rows
            /\ \A l \in Lines : covered'[l] = IF l = p.line THEN covered[l] + n ELSE covered[l]
            /\ \A l \in Lines, k \in Lots :
                 alloc'[l][k] = IF l = p.line /\ k = p.lot THEN alloc[l][k] + n ELSE alloc[l][k]
      BY <1>2, Drew
    <2>2. UNCHANGED <<rows, nLines>>
      BY <1>2 DEF Draw, lineVars
    <2> QED BY <1>0, <2>1, <2>2
  <1>3. CASE DeleteLine(r)
    <2>1. UNCHANGED nLines /\ rows' \subseteq rows
      BY <1>3 DEF DeleteLine
    <2>2. CASE target[r] \in rows
      <3>1. target[r] \in Lines /\ FreeLine(target[r]) /\ TypeOK
        BY <1>0, <1>3, <2>2 DEF DeleteLine, IInv, Types
      <3> QED BY <1>0, <2>1, <3>1, Freed
    <2>3. CASE target[r] \notin rows
      BY <1>0, <1>3, <2>1, <2>3 DEF DeleteLine, allocVars
    <2> QED BY <2>2, <2>3
  <1>4. CASE DropReport(r)
    BY <1>0, <1>4 DEF DropReport
  <1> QED BY <1>1, <1>2, <1>3, <1>4

\* A new line that waits to be allocated stays untouched.
LEMMA NewKeptClean ==
  ASSUME IInv, NewInv, NEW r \in Requests, DeleteLine(r) \/ DropReport(r),
         NEW q \in Requests, op'[q] = "create", pc'[q] = "clear"
  PROVE  /\ op[q] = "create" /\ pc[q] = "clear" /\ target'[q] = target[q]
         /\ covered'[target[q]] = 0 /\ \A k \in Lots : alloc'[target[q]][k] = 0
  <1>1. q # r /\ op[q] = "create" /\ pc[q] = "clear" /\ target'[q] = target[q]
    BY DEF DeleteLine, DropReport, Retire, Goto, IInv, Types, TypeOK
  <1>2. /\ target[q] \in Lines
        /\ covered[target[q]] = 0 /\ \A k \in Lots : alloc[target[q]][k] = 0
    BY <1>1 DEF NewInv, IInv, Types, JobInv
  <1>3. CASE DropReport(r)
    BY <1>1, <1>2, <1>3 DEF DropReport
  <1>4. CASE DeleteLine(r) /\ target[r] \in rows
    <2>1. target[r] \in Lines /\ FreeLine(target[r]) /\ TypeOK
      BY <1>4 DEF DeleteLine, IInv, Types, TypeOK
    <2> QED BY <1>1, <1>2, <2>1, Freed
  <1>5. CASE DeleteLine(r) /\ target[r] \notin rows
    BY <1>1, <1>2, <1>5 DEF DeleteLine, allocVars
  <1> QED BY <1>3, <1>4, <1>5

LEMMA NewStep ==
  ASSUME IInv, NewInv, [Next]_vars
  PROVE  NewInv'
  <1> USE LinesAndLots
      DEF IInv, Types, TypeOK, NewInv, Goto, Kinds, Expense,
          lineVars, lotVars, allocVars, jobVars, fifoVars, bounds
  <1>1. ASSUME NEW r \in Requests, Start(r) PROVE NewInv'
    BY <1>1 DEF Start, Begin, BeginCreate, BeginUpdate, BeginConvert, BeginDelete, BeginDrop
  <1>2. ASSUME NEW r \in Requests, Acquire(r) PROVE NewInv'
    BY <1>2 DEF Acquire
  <1>3. ASSUME NEW r \in Requests, Step(r) PROVE NewInv'
    <2>1. CASE InsertLine(r)
      <3>1. \A l \in Lines : l > nLines' =>
              l \notin rows' /\ covered'[l] = 0 /\ \A k \in Lots : alloc'[l][k] = 0
        BY <2>1, NewTables
      <3>2. /\ nLines' = nLines + 1 /\ nLines \in Nat /\ pc'[r] = "clear" /\ op' = op
            /\ target'[r] = nLines + 1 /\ nLines + 1 \in Lines /\ op[r] = "create"
            /\ UNCHANGED <<covered, alloc>>
            /\ \A q \in Requests \ {r} : pc'[q] = pc[q] /\ target'[q] = target[q]
        BY <2>1, InRange DEF InsertLine
      <3>3. covered[nLines + 1] = 0 /\ \A k \in Lots : alloc[nLines + 1][k] = 0
        BY <3>2, NextIsClean
      <3> QED BY <3>1, <3>2, <3>3
    <2>2. CASE WriteAmount(r) \/ WriteFails(r)
      BY <2>2 DEF WriteAmount, WriteFails
    <2>3. CASE InsertLot(r)
      BY <2>3 DEF InsertLot
    <2>4. CASE Clear(r)
      BY <2>4, Freed DEF Clear, JobInv
    <2>5. CASE ReadLots(r) \/ ReadLines(r) \/ ReadFails(r)
      BY <2>5 DEF ReadLots, ReadLines, ReadFails, Consume
    <2>6. CASE Draw(r)
      <3>1. \A l \in Lines : l > nLines' =>
              l \notin rows' /\ covered'[l] = 0 /\ \A k \in Lots : alloc'[l][k] = 0
        BY <2>6, NewTables
      <3>2. /\ UNCHANGED <<rows, nLines, op, target, pc>> /\ pc[r] = "draw" /\ lock = r
            /\ \A q \in Requests : pc[q] = "clear" => q = r
        BY <2>6 DEF Draw, LockInv, Critical
      <3> QED BY <3>1, <3>2
    <2>7. CASE DrawFails(r) \/ DrawDone(r)
      BY <2>7 DEF DrawFails, DrawDone
    <2>8. CASE Release(r) \/ DeleteFails(r)
      BY <2>8 DEF Release, DeleteFails, Retire
    <2>9. CASE DeleteLine(r) \/ DropReport(r)
      <3>1. \A l \in Lines : l > nLines' =>
              l \notin rows' /\ covered'[l] = 0 /\ \A k \in Lots : alloc'[l][k] = 0
        BY <2>9, NewTables
      <3>2. /\ UNCHANGED nLines /\ op'[r] = "none"
            /\ \A q \in Requests \ {r} :
                 op'[q] = op[q] /\ pc'[q] = pc[q] /\ target'[q] = target[q]
        BY <2>9 DEF DeleteLine, DropReport, Retire
      <3>3. ASSUME NEW q \in Requests, op'[q] = "create", pc'[q] = "clear"
            PROVE  covered'[target'[q]] = 0 /\ \A k \in Lots : alloc'[target'[q]][k] = 0
        BY <2>9, <3>3, NewKeptClean
      <3> QED BY <3>1, <3>2, <3>3
    <2> QED BY <1>3, <2>1, <2>2, <2>3, <2>4, <2>5, <2>6, <2>7, <2>8, <2>9 DEF Step
  <1>4. ASSUME NEW r \in Requests, Fault(r) PROVE NewInv'
    <2>1. CASE CompensateCreate(r)
      BY <2>1, Freed DEF CompensateCreate, JobInv
    <2>2. CASE CompensateUpdate(r)
      BY <2>2 DEF CompensateUpdate
    <2>3. CASE Poison(r) \/ Die(r)
      BY <2>3 DEF Poison, Die, Retire
    <2> QED BY <1>4, <2>1, <2>2, <2>3 DEF Fault
  <1>5. CASE SubmitReport \/ ReopenReport \/ UNCHANGED vars
    BY <1>5 DEF SubmitReport, ReopenReport, vars
  <1> QED BY <1>1, <1>2, <1>3, <1>4, <1>5 DEF Next

-----------------------------------------------------------------------------
(* What the lock holder has yet to allocate. *)

Aside == {"idle", "want", "commit", "write", "unlock"}

LEMMA AmountInit == Init => AmountInv
  BY DEF Init, AmountInv, AmountOf, Expense

LEMMA AmountAside ==
  ASSUME NEW r \in Requests, pc'[r] \in Aside
  PROVE  AmountOf(r)'
  BY DEF Aside, AmountOf

\* Outside the critical section lines only go.
LEMMA AmountOthers ==
  ASSUME IInv, AmountInv, NEW r \in Requests, Untouched(r),
         \/ pc[r] \in Critical
         \/ /\ lineAmount' = lineAmount /\ rows' \subseteq rows
            /\ \A l \in rows' : covered'[l] = covered[l]
  PROVE  \A q \in Requests \ {r} : AmountOf(q)'
  <1> SUFFICES ASSUME NEW q \in Requests \ {r} PROVE AmountOf(q)'
    OBVIOUS
  <1>1. /\ pc'[q] = pc[q] /\ op'[q] = op[q] /\ target'[q] = target[q] /\ amt'[q] = amt[q]
        /\ pend'[q] = pend[q] /\ rem'[q] = rem[q]
    BY DEF Untouched
  <1>2. CASE pc[r] \in Critical
    <2>1. pc[q] \notin Critical
      BY <1>2 DEF IInv, LockInv
    <2> QED BY <1>1, <2>1 DEF AmountOf, Critical
  <1>3. CASE /\ lineAmount' = lineAmount /\ rows' \subseteq rows
             /\ \A l \in rows' : covered'[l] = covered[l]
    <2>1. AmountOf(q)
      BY DEF AmountInv
    <2> QED BY <1>1, <1>3, <2>1 DEF AmountOf, Unmet
  <1> QED BY <1>2, <1>3

\* A step that ends what r does in the critical section, or comes before it.
Apace(r) ==
    \/ Start(r) \/ Acquire(r) \/ WriteFails(r) \/ ReadFails(r) \/ DrawFails(r) \/ DrawDone(r)
    \/ Release(r) \/ DeleteFails(r) \/ Poison(r) \/ Die(r)

LEMMA ApaceKeeps ==
  ASSUME Types, NEW r \in Requests, Apace(r)
  PROVE  /\ Untouched(r) /\ pc'[r] \in Aside
         /\ UNCHANGED <<report, rows, nLines, lineAmount, covered, alloc, drawn, nLots, lotAmount,
                        lotDate>>
         /\ \A q \in Requests \ {r} : prev'[q] = prev[q]
  <1> USE DEF Types, TypeOK, Goto, Untouched, Aside,
              lineVars, lotVars, allocVars, jobVars, fifoVars, bounds
  <1>1. CASE Start(r)
    BY <1>1 DEF Start, Begin, BeginCreate, BeginUpdate, BeginConvert, BeginDelete, BeginDrop
  <1>2. CASE Acquire(r) \/ WriteFails(r) \/ ReadFails(r) \/ DrawFails(r) \/ DrawDone(r)
    BY <1>2 DEF Acquire, WriteFails, ReadFails, DrawFails, DrawDone
  <1>3. CASE Release(r) \/ DeleteFails(r) \/ Poison(r) \/ Die(r)
    BY <1>3 DEF Release, DeleteFails, Poison, Die, Retire
  <1> QED BY <1>1, <1>2, <1>3 DEF Apace

\* The others, in any step of r.
LEMMA StepUntouched ==
  ASSUME Types, NEW r \in Requests, Start(r) \/ Acquire(r) \/ Step(r) \/ Fault(r)
  PROVE  Untouched(r) /\ \A q \in Requests \ {r} : prev'[q] = prev[q]
  <1>1. CASE Apace(r)
    BY <1>1, ApaceKeeps
  <1> USE DEF Types, TypeOK, Goto, Untouched,
              lineVars, lotVars, allocVars, jobVars, fifoVars, bounds
  <1>2. CASE InsertLine(r) \/ WriteAmount(r) \/ InsertLot(r)
    BY <1>2 DEF InsertLine, WriteAmount, InsertLot
  <1>3. CASE Clear(r) \/ ReadLots(r) \/ ReadLines(r)
    BY <1>3 DEF Clear, ReadLots, ReadLines, Consume
  <1>4. CASE Draw(r)
    BY <1>4 DEF Draw, DrawFrom
  <1>5. CASE DeleteLine(r) \/ DropReport(r)
    BY <1>5 DEF DeleteLine, DropReport, Retire
  <1>6. CASE CompensateCreate(r) \/ CompensateUpdate(r)
    BY <1>6 DEF CompensateCreate, CompensateUpdate
  <1> QED BY <1>1, <1>2, <1>3, <1>4, <1>5, <1>6 DEF Apace, Step, Fault

\* What a delete leaves of the other lines.
LEMMA Deleted ==
  ASSUME IInv, NEW r \in Requests, DeleteLine(r) \/ DropReport(r)
  PROVE  /\ lineAmount' = lineAmount /\ rows' \subseteq rows /\ pc'[r] \in Aside
         /\ \A l \in rows' : covered'[l] = covered[l]
  <1>0. rows \subseteq Lines /\ TypeOK /\ pc'[r] = "idle"
    BY DEF IInv, Types, TypeOK, DeleteLine, DropReport, Retire, Goto
  <1>1. CASE DropReport(r)
    BY <1>0, <1>1 DEF DropReport, Aside
  <1>2. CASE DeleteLine(r) /\ target[r] \in rows
    <2>1. target[r] \in Lines /\ FreeLine(target[r]) /\ rows' = rows \ {target[r]}
      BY <1>0, <1>2 DEF DeleteLine
    <2>2. \A m \in Lines : covered'[m] = IF m = target[r] THEN 0 ELSE covered[m]
      BY <1>0, <2>1, Freed
    <2> QED BY <1>0, <1>2, <2>1, <2>2 DEF DeleteLine, Aside
  <1>3. CASE DeleteLine(r) /\ target[r] \notin rows
    BY <1>0, <1>3 DEF DeleteLine, Aside, allocVars
  <1> QED BY <1>1, <1>2, <1>3

LEMMA AmountStep ==
  ASSUME IInv, AmountInv, [Next]_vars
  PROVE  AmountInv'
  <1>0. TypeOK /\ JobInv
    BY DEF IInv, Types
  <1>1. ASSUME NEW r \in Requests, Apace(r) PROVE AmountInv'
    <2>1. AmountOf(r)' /\ \A q \in Requests \ {r} : AmountOf(q)'
      BY <1>1, ApaceKeeps, AmountAside, AmountOthers DEF IInv
    <2> QED BY <2>1 DEF AmountInv
  <1>2. ASSUME NEW r \in Requests, DeleteLine(r) \/ DropReport(r) PROVE AmountInv'
    <2>1. Untouched(r)
      BY <1>2, StepUntouched DEF Step, IInv
    <2>2. AmountOf(r)' /\ \A q \in Requests \ {r} : AmountOf(q)'
      BY <1>2, <2>1, Deleted, AmountAside, AmountOthers
    <2> QED BY <2>2 DEF AmountInv
  <1>3. ASSUME NEW r \in Requests,
               \/ InsertLine(r) \/ WriteAmount(r) \/ InsertLot(r) \/ Clear(r) \/ ReadLots(r)
               \/ ReadLines(r) \/ Draw(r) \/ CompensateCreate(r) \/ CompensateUpdate(r)
        PROVE  AmountInv'
    <2>1. Untouched(r) /\ pc[r] \in Critical
      <3>1. Untouched(r)
        BY <1>3, StepUntouched DEF Step, Fault, IInv
      <3>2. pc[r] \in Critical
        BY <1>3 DEF InsertLine, WriteAmount, InsertLot, Clear, ReadLots, ReadLines, Draw,
                    CompensateCreate, CompensateUpdate, Critical
      <3> QED BY <3>1, <3>2
    <2>2. \A q \in Requests \ {r} : AmountOf(q)'
      BY <2>1, AmountOthers
    <2>3. AmountOf(r)
      BY DEF AmountInv
    <2>4. AmountOf(r)'
      <3>1. CASE InsertLine(r)
        <4>1. /\ pc'[r] = "clear" /\ target'[r] = nLines + 1 /\ nLines + 1 \in Lines
              /\ amt'[r] = amt[r] /\ lineAmount' = [lineAmount EXCEPT ![nLines + 1] = amt[r]]
          BY <1>0, <3>1 DEF InsertLine, Goto, TypeOK
        <4> QED BY <1>0, <4>1 DEF AmountOf, TypeOK
      <3>2. CASE WriteAmount(r) \/ InsertLot(r)
        BY <1>0, <3>2 DEF WriteAmount, InsertLot, Goto, TypeOK, AmountOf, jobVars, Expense
      <3>3. CASE Clear(r)
        <4>1. /\ pc[r] = "clear" /\ pc'[r] = "read" /\ FreeLine(target[r]) /\ target[r] \in Lines
              /\ UNCHANGED <<lineAmount, op, target, amt>>
          BY <1>0, <3>3 DEF Clear, Goto, TypeOK, JobInv, Expense, jobVars, lineVars
        <4>2. covered'[target[r]] = 0
          BY <1>0, <4>1, Freed
        <4> QED BY <2>3, <4>1, <4>2 DEF AmountOf
      <3>4. CASE ReadLots(r)
        <4>1. /\ pc[r] = "read" /\ pc'[r] = "draw" /\ rem'[r] = amt[r] /\ op[r] # "convert"
              /\ UNCHANGED <<lineAmount, covered, rows, op, target, amt>>
              /\ pend'[r] = { [line |-> target[r], lot |-> k, bal |-> Balance(k)] :
                                k \in { j \in 1 .. nLots : Balance(j) > 0 } }
          BY <1>0, <3>4 DEF ReadLots, Consume, Goto, TypeOK, jobVars, lineVars, allocVars
        <4>2. \A p \in pend'[r] : p.line = target'[r]
          BY <4>1
        <4>3. op[r] \in Expense /\ amt[r] \in Int
          BY <1>0, <3>4 DEF ReadLots, Expense, TypeOK
        <4>4. target[r] \in rows => covered[target[r]] = 0
          BY <2>3, <4>1, <4>3 DEF AmountOf
        <4> QED BY <2>3, <4>1, <4>2, <4>3, <4>4 DEF AmountOf
      <3>5. CASE ReadLines(r)
        <4>1. /\ pc'[r] = "draw" /\ op[r] = "convert"
              /\ UNCHANGED <<lineAmount, covered, rows, op, target, amt>>
              /\ pend'[r] = { [line |-> l, lot |-> target[r], bal |-> Unmet(l)] :
                                l \in { j \in rows : Unmet(j) > 0 } }
          BY <1>0, <3>5 DEF ReadLines, Consume, Goto, TypeOK, jobVars, lineVars, allocVars
        <4>2. \A p \in pend'[r] : p.bal = Unmet(p.line)
          BY <4>1
        <4>3. \A p, q \in pend'[r] : p.line = q.line => p = q
          BY <4>1
        <4> QED BY <4>1, <4>2, <4>3 DEF AmountOf, Unmet, Expense
      <3>6. CASE Draw(r)
        <4>1. /\ pc[r] = "draw" /\ UNCHANGED <<lineAmount, rows, op, target, amt, pc>>
          BY <3>6 DEF Draw, jobVars, lineVars
        <4>2. PICK p \in pend[r], n \in Nat :
                /\ p.line \in rows /\ p.line \in Lines /\ rem[r] \in Int
                /\ rem'[r] = rem[r] - n /\ pend'[r] = pend[r] \ {p}
                /\ \A l \in Lines : covered'[l] = IF l = p.line THEN covered[l] + n ELSE covered[l]
          BY <3>6, Drew
        <4>3. rows \subseteq Lines /\ covered \in [Lines -> Int]
          BY <1>0 DEF TypeOK
        <4>4. CASE op[r] \in Expense
          <5>1. op[r] # "convert" /\ p.line = target[r]
            BY <2>3, <4>1, <4>2, <4>4 DEF AmountOf, Expense
          <5>2. rem[r] + covered[target[r]] = amt[r]
            BY <2>3, <4>1, <4>2, <4>4, <5>1 DEF AmountOf
          <5>3. rem'[r] + covered'[target[r]] = amt[r]
            BY <4>2, <4>3, <5>1, <5>2
          <5> QED BY <2>3, <4>1, <4>2, <5>1, <5>3 DEF AmountOf
        <4>5. CASE op[r] = "convert"
          <5>1. op[r] \notin Expense
            BY <4>5 DEF Expense
          <5>2. \A s \in pend'[r] : s.line # p.line
            BY <2>3, <4>1, <4>2, <4>5 DEF AmountOf
          <5>3. ASSUME NEW s \in pend'[r], s.line \in rows
                PROVE  s.bal = lineAmount[s.line] - covered'[s.line]
            <6>1. s.bal = lineAmount[s.line] - covered[s.line]
              BY <2>3, <4>1, <4>2, <4>5, <5>3 DEF AmountOf, Unmet
            <6> QED BY <4>2, <4>3, <5>2, <5>3, <6>1
          <5> QED BY <2>3, <4>1, <4>2, <4>5, <5>1, <5>3 DEF AmountOf, Unmet
        <4>6. op[r] \in Expense \cup {"convert"}
          BY <1>0, <4>1 DEF JobInv
        <4> QED BY <4>4, <4>5, <4>6
      <3>7. CASE CompensateCreate(r) \/ CompensateUpdate(r)
        BY <1>0, <3>7 DEF CompensateCreate, CompensateUpdate, Goto, TypeOK, AmountOf
      <3> QED BY <1>3, <3>1, <3>2, <3>3, <3>4, <3>5, <3>6, <3>7
    <2> QED BY <2>2, <2>4 DEF AmountInv
  <1>4. CASE SubmitReport \/ ReopenReport \/ UNCHANGED vars
    BY <1>4 DEF SubmitReport, ReopenReport, vars, lineVars, lotVars, allocVars, jobVars, fifoVars,
                AmountInv, AmountOf, Unmet
  <1> QED BY <1>1, <1>2, <1>3, <1>4 DEF Next, Step, Fault, Apace

-----------------------------------------------------------------------------
(* One editor: allocations follow the amounts of their lines. *)

LEMMA SyncInit == Init => SyncInv
  BY DEF Init, SyncInv

\* Failures are counted, never uncounted.
LEMMA FaultsCount ==
  ASSUME Types, [Next]_vars, faults' = 0
  PROVE  faults = 0 /\ \A r \in Requests : ~Fault(r)
  <1>0. faults \in Nat
    BY DEF Types, TypeOK
  <1>1. ASSUME NEW r \in Requests, Fault(r) PROVE FALSE
    BY <1>0, <1>1 DEF Fault, CompensateCreate, CompensateUpdate, Poison, Die, Fail
  <1>2. ASSUME NEW r \in Requests, Start(r) \/ Acquire(r) \/ Step(r) PROVE faults = 0
    <2> USE DEF bounds
    <2>1. CASE Start(r) \/ Acquire(r)
      BY <2>1 DEF Start, Begin, BeginCreate, BeginUpdate, BeginConvert, BeginDelete, BeginDrop,
                  Acquire
    <2>2. CASE Step(r)
      BY <2>2 DEF Step, InsertLine, WriteAmount, WriteFails, InsertLot, Clear, ReadLots,
                  ReadLines, ReadFails, Consume, Draw, DrawFails, DrawDone, Release, DeleteLine,
                  DropReport, DeleteFails
    <2> QED BY <1>2, <2>1, <2>2
  <1>3. ASSUME SubmitReport \/ ReopenReport \/ UNCHANGED vars PROVE faults = 0
    BY <1>3 DEF SubmitReport, ReopenReport, vars, bounds
  <1>4. faults = 0
    BY <1>1, <1>2, <1>3 DEF Next
  <1> QED
    <2>1. ASSUME NEW r \in Requests PROVE ~Fault(r)
      BY <1>1, <2>1
    <2> QED BY <1>4, <2>1

LEMMA EditorsEdit ==
  ASSUME Types, SyncInv, [Next]_vars
  PROVE  \A r \in Requests : op'[r] = "update" => r \in Editors
  <1>0. \A r \in Requests : op[r] = "update" => r \in Editors
    BY DEF SyncInv
  <1>1. ASSUME NEW r \in Requests, Start(r) \/ Acquire(r) \/ Step(r) \/ Fault(r)
        PROVE  op'[r] = "update" => op[r] = "update" \/ r \in Editors
    <2> USE DEF Types, TypeOK, jobVars
    <2>1. CASE Start(r)
      BY <2>1 DEF Start, Begin, BeginCreate, BeginUpdate, BeginConvert, BeginDelete, BeginDrop
    <2>2. CASE Acquire(r)
      BY <2>2 DEF Acquire
    <2>3. CASE Step(r)
      BY <2>3 DEF Step, InsertLine, WriteAmount, WriteFails, InsertLot, Clear, ReadLots,
                  ReadLines, ReadFails, Consume, Draw, DrawFails, DrawDone, Release, DeleteLine,
                  DropReport, DeleteFails, Retire
    <2>4. CASE Fault(r)
      BY <2>4 DEF Fault, CompensateCreate, CompensateUpdate, Poison, Die, Retire
    <2> QED BY <1>1, <2>1, <2>2, <2>3, <2>4
  <1>2. CASE \E r \in Requests : Start(r) \/ Acquire(r) \/ Step(r) \/ Fault(r)
    BY <1>0, <1>1, <1>2, StepUntouched DEF Untouched
  <1>3. CASE SubmitReport \/ ReopenReport \/ UNCHANGED vars
    BY <1>0, <1>3 DEF SubmitReport, ReopenReport, vars, jobVars
  <1> QED BY <1>2, <1>3 DEF Next

\* The parts of SyncInv.
SyncOf(r) ==
    /\ op[r] # "restore"
    /\ op[r] = "update" /\ pc[r] \in {"want", "write"} /\ target[r] \in rows
          => prev[r] = lineAmount[target[r]]
    /\ op[r] = "update" /\ pc[r] \in {"clear", "read", "draw"} /\ target[r] \in rows
          => lineAmount[target[r]] = amt[r]

Synced(l) == covered[l] > 0 => covered[l] <= lineAmount[l]
Clearing(l) == \E r \in Requests : op[r] = "update" /\ pc[r] = "clear" /\ target[r] = l

SyncedInv ==
    (\A r \in Requests : SyncOf(r)) /\ (\A l \in rows : Synced(l) \/ Clearing(l))

LEMMA SyncParts == SyncInv <=> /\ \A r \in Requests : op[r] = "update" => r \in Editors
                               /\ faults = 0 => SyncedInv
  BY DEF SyncInv, SyncedInv, SyncOf, Synced, Clearing

\* A step of r that changes nothing of the lines that stay.
LEMMA SyncOthers ==
  ASSUME Types, SyncedInv, NEW r \in Requests, Untouched(r), pc[r] # "clear",
         \A q \in Requests \ {r} : prev'[q] = prev[q],
         lineAmount' = lineAmount, rows' \subseteq rows, \A l \in rows' : covered'[l] = covered[l],
         SyncOf(r)'
  PROVE  SyncedInv'
  <1>1. ASSUME NEW q \in Requests PROVE SyncOf(q)'
    <2>1. SyncOf(q)
      BY DEF SyncedInv
    <2> QED BY <2>1 DEF SyncOf, Untouched
  <1>2. ASSUME NEW l \in rows' PROVE Synced(l)' \/ Clearing(l)'
    <2>1. Synced(l) \/ Clearing(l)
      BY DEF SyncedInv
    <2>2. Synced(l) => Synced(l)'
      BY DEF Synced
    <2>3. Clearing(l) => Clearing(l)'
      BY DEF Clearing, Untouched
    <2> QED BY <2>1, <2>2, <2>3
  <1> QED BY <1>1, <1>2 DEF SyncedInv

LEMMA SyncApace ==
  ASSUME Types, SyncedInv, NEW r \in Requests, Apace(r), ~Fault(r)
  PROVE  SyncedInv'
  <1>1. /\ Untouched(r) /\ \A q \in Requests \ {r} : prev'[q] = prev[q]
        /\ UNCHANGED <<rows, lineAmount, covered>>
    BY ApaceKeeps
  <1>2. SyncOf(r)
    BY DEF SyncedInv
  <1>3. SyncOf(r)' /\ pc[r] # "clear"
    <2> USE DEF Types, TypeOK, Goto, jobVars, lineVars, SyncOf
    <2>1. CASE Start(r)
      BY <2>1 DEF Start, Begin, BeginCreate, BeginUpdate, BeginConvert, BeginDelete, BeginDrop
    <2>2. CASE Acquire(r) \/ WriteFails(r) \/ ReadFails(r) \/ DrawFails(r) \/ DrawDone(r)
      BY <1>2, <2>2 DEF Acquire, WriteFails, ReadFails, DrawFails, DrawDone
    <2>3. CASE Release(r) \/ DeleteFails(r)
      BY <2>3 DEF Release, DeleteFails, Retire
    <2> QED BY <2>1, <2>2, <2>3 DEF Apace, Fault
  <1> QED BY <1>1, <1>3, SyncOthers

\* In the critical section nobody else has an edit past its write.
LEMMA NobodyElse ==
  ASSUME LockInv, NEW r \in Requests, pc[r] \in Critical
  PROVE  \A q \in Requests \ {r} : pc[q] \notin Critical
  BY DEF LockInv

LEMMA SyncInsert ==
  ASSUME IInv, NewInv, SyncedInv, NEW r \in Requests, InsertLine(r)
  PROVE  SyncedInv'
  <1> DEFINE n == nLines + 1
  <1>0. /\ nLines \in Nat /\ n \in Lines /\ rows \subseteq Lines /\ lineAmount \in [Lines -> Int]
        /\ pc[r] = "write" /\ op' = op /\ op[r] = "create" /\ rows' = rows \cup {n}
        /\ lineAmount' = [lineAmount EXCEPT ![n] = amt[r]] /\ covered' = covered
    BY InRange DEF InsertLine, allocVars, IInv, Types, TypeOK
  <1>1. covered[n] = 0 /\ n \notin rows
    <2>1. n > nLines
      BY <1>0
    <2> QED BY <1>0, <2>1 DEF NewInv
  <1>2. Untouched(r) /\ \A q \in Requests \ {r} : prev'[q] = prev[q]
    BY StepUntouched DEF Step, IInv
  <1>3. ASSUME NEW q \in Requests PROVE SyncOf(q)'
    <2>1. CASE q = r
      BY <1>0, <2>1 DEF SyncOf
    <2>2. CASE q # r
      <3>1. op[q] = "update" => target[q] <= nLines /\ target[q] \in Nat
        BY DEF NewInv, IInv, Types, TypeOK
      <3>2. op[q] = "update" => target[q] # n
        BY <1>0, <3>1
      <3>3. SyncOf(q)
        BY DEF SyncedInv
      <3>4. op[q] = "update" /\ target[q] \in rows' => target[q] \in rows
                                                    /\ lineAmount'[target[q]] = lineAmount[target[q]]
        BY <1>0, <3>2
      <3> HIDE DEF n
      <3> QED BY <1>2, <2>2, <3>3, <3>4 DEF SyncOf, Untouched
    <2> QED BY <2>1, <2>2
  <1>4. ASSUME NEW l \in rows' PROVE Synced(l)' \/ Clearing(l)'
    <2>1. CASE l = n
      BY <1>0, <1>1, <2>1 DEF Synced
    <2>2. CASE l # n
      <3>1. l \in rows /\ covered'[l] = covered[l] /\ lineAmount'[l] = lineAmount[l]
        BY <1>0, <2>2
      <3>2. Synced(l) \/ Clearing(l)
        BY <3>1 DEF SyncedInv
      <3>3. Clearing(l) => Clearing(l)'
        BY <1>0, <1>2 DEF Clearing, Untouched
      <3> QED BY <3>1, <3>2, <3>3 DEF Synced
    <2> QED BY <2>1, <2>2
  <1> QED BY <1>3, <1>4 DEF SyncedInv

LEMMA SyncWrite ==
  ASSUME OneEditor, IInv, SyncInv, SyncedInv, NEW r \in Requests, WriteAmount(r)
  PROVE  SyncedInv'
  <1>0. /\ op[r] = "update" /\ op' = op /\ target' = target /\ amt' = amt
        /\ pc[r] = "write" /\ pc'[r] = "clear" /\ UNCHANGED <<rows, covered>>
        /\ rows \subseteq Lines /\ lineAmount \in [Lines -> Int]
        /\ \/ amt[r] = prev[r] /\ lineAmount' = lineAmount
           \/ lineAmount' = [lineAmount EXCEPT ![target[r]] = amt[r]]
    BY DEF WriteAmount, Goto, jobVars, allocVars, IInv, Types, TypeOK
  <1>1. \A q \in Requests \ {r} : op[q] # "update"
    BY <1>0 DEF SyncInv, OneEditor
  <1>2. ASSUME NEW q \in Requests PROVE SyncOf(q)'
    <2>1. SyncOf(q)
      BY DEF SyncedInv
    <2> QED BY <1>0, <1>1, <2>1 DEF SyncOf
  <1>3. ASSUME NEW l \in rows' PROVE Synced(l)' \/ Clearing(l)'
    <2>1. CASE l = target[r]
      BY <1>0, <2>1 DEF Clearing
    <2>2. CASE l # target[r]
      <3>1. l \in rows /\ covered'[l] = covered[l] /\ lineAmount'[l] = lineAmount[l]
        BY <1>0, <2>2
      <3>2. ~Clearing(l)
        BY <1>0, <1>1 DEF Clearing
      <3> QED BY <3>1, <3>2 DEF Synced, SyncedInv
    <2> QED BY <2>1, <2>2
  <1> QED BY <1>2, <1>3 DEF SyncedInv

LEMMA SyncClear ==
  ASSUME IInv, SyncedInv, NEW r \in Requests, Clear(r)
  PROVE  SyncedInv'
  <1>0. /\ target[r] \in Lines /\ FreeLine(target[r]) /\ TypeOK /\ rows \subseteq Lines
        /\ pc[r] = "clear" /\ pc'[r] = "read" /\ UNCHANGED <<rows, lineAmount, op, target, amt, prev>>
    BY DEF Clear, Goto, jobVars, lineVars, IInv, Types, TypeOK, JobInv, Expense
  <1>1. \A m \in Lines : covered'[m] = IF m = target[r] THEN 0 ELSE covered[m]
    BY <1>0, Freed
  <1>2. Untouched(r)
    BY StepUntouched DEF Step, IInv
  <1>3. ASSUME NEW q \in Requests PROVE SyncOf(q)'
    <2>1. SyncOf(q)
      BY DEF SyncedInv
    <2> QED BY <1>0, <1>2, <2>1 DEF SyncOf, Untouched
  <1>4. ASSUME NEW l \in rows' PROVE Synced(l)'
    <2>1. CASE l = target[r]
      BY <1>0, <1>1, <2>1 DEF Synced
    <2>2. CASE l # target[r]
      <3>1. ~Clearing(l)
        BY <1>0, <2>2 DEF Clearing, IInv, LockInv, Critical
      <3> QED BY <1>0, <1>1, <2>2, <3>1 DEF Synced, SyncedInv
    <2> QED BY <2>1, <2>2
  <1> QED BY <1>3, <1>4 DEF SyncedInv

LEMMA SyncReads ==
  ASSUME IInv, SyncedInv, NEW r \in Requests, InsertLot(r) \/ ReadLots(r) \/ ReadLines(r)
  PROVE  SyncedInv'
  <1>1. Untouched(r) /\ \A q \in Requests \ {r} : prev'[q] = prev[q]
    BY StepUntouched DEF Step, IInv
  <1>2. /\ UNCHANGED <<rows, lineAmount, covered>> /\ pc[r] # "clear"
        /\ \/ op[r] = "convert" /\ op' = op
           \/ /\ pc[r] = "read" /\ pc'[r] = "draw"
              /\ UNCHANGED <<op, target, amt>>
    BY DEF InsertLot, ReadLots, ReadLines, Consume, Goto, jobVars, lineVars, allocVars,
           IInv, Types, TypeOK
  <1>3. SyncOf(r)'
    BY <1>2 DEF SyncedInv, SyncOf
  <1> QED BY <1>1, <1>2, <1>3, SyncOthers DEF IInv

LEMMA SyncDraw ==
  ASSUME IInv, AmountInv, SyncedInv, NEW r \in Requests, Draw(r)
  PROVE  SyncedInv'
  <1>0. /\ pc[r] = "draw" /\ UNCHANGED <<rows, lineAmount, op, target, amt, prev, pc>>
        /\ rows \subseteq Lines /\ covered \in [Lines -> Int] /\ lineAmount \in [Lines -> Int]
        /\ amt[r] \in Int
        /\ op[r] \in Expense \cup {"convert"}
    BY DEF Draw, jobVars, lineVars, IInv, Types, TypeOK, JobInv
  <1>1. PICK p \in pend[r], n \in Nat :
          /\ p.line \in rows /\ rem[r] \in Int /\ n <= rem[r] /\ n <= p.bal /\ p.bal \in Nat
          /\ \A l \in Lines : covered'[l] = IF l = p.line THEN covered[l] + n ELSE covered[l]
    BY Drew
  <1>2. ASSUME NEW q \in Requests PROVE SyncOf(q)'
    <2>1. SyncOf(q)
      BY DEF SyncedInv
    <2> QED BY <1>0, <2>1 DEF SyncOf
  <1>3. AmountOf(r) /\ SyncOf(r)
    BY DEF AmountInv, SyncedInv
  <1>4. covered[p.line] + n <= lineAmount[p.line]
    <2>1. CASE op[r] = "convert"
      <3>1. p.bal = lineAmount[p.line] - covered[p.line]
        BY <1>0, <1>1, <1>3, <2>1 DEF AmountOf, Unmet
      <3> QED BY <1>0, <1>1, <3>1
    <2>2. CASE op[r] \in Expense
      <3>1. p.line = target[r] /\ rem[r] + covered[p.line] = amt[r]
        BY <1>0, <1>1, <1>3, <2>2 DEF AmountOf
      <3>2. lineAmount[p.line] = amt[r]
        BY <1>0, <1>1, <1>3, <2>2, <3>1 DEF AmountOf, SyncOf, Expense
      <3> QED BY <1>0, <1>1, <3>1, <3>2
    <2> QED BY <1>0, <2>1, <2>2
  <1>5. ASSUME NEW l \in rows' PROVE Synced(l)'
    <2>1. ~Clearing(l)
      BY <1>0 DEF Clearing, IInv, LockInv, Critical
    <2>2. Synced(l)
      BY <1>0, <2>1 DEF SyncedInv
    <2> QED BY <1>0, <1>1, <1>4, <2>2 DEF Synced
  <1> QED BY <1>2, <1>5 DEF SyncedInv

LEMMA SyncStep ==
  ASSUME OneEditor, IInv, NewInv, AmountInv, SyncInv, [Next]_vars
  PROVE  SyncInv'
  <1> SUFFICES ASSUME faults' = 0 PROVE SyncedInv'
    <2>1. (\A r \in Requests : op[r] = "update" => r \in Editors)'
      BY EditorsEdit DEF IInv
    <2> QED BY <2>1 DEF SyncInv, SyncedInv, SyncOf, Synced, Clearing
  <1>0. Types /\ faults = 0 /\ SyncedInv /\ \A r \in Requests : ~Fault(r)
    BY FaultsCount, SyncParts DEF IInv
  <1>1. ASSUME NEW r \in Requests, Apace(r) PROVE SyncedInv'
    BY <1>0, <1>1, SyncApace
  <1>2. ASSUME NEW r \in Requests, DeleteLine(r) \/ DropReport(r) PROVE SyncedInv'
    <2>1. Untouched(r) /\ \A q \in Requests \ {r} : prev'[q] = prev[q]
      BY <1>0, <1>2, StepUntouched DEF Step
    <2>2. SyncOf(r)' /\ pc[r] # "clear"
      BY <1>0, <1>2 DEF DeleteLine, DropReport, Retire, SyncOf, Types, TypeOK
    <2> QED BY <1>0, <1>2, <2>1, <2>2, Deleted, SyncOthers
  <1>3. ASSUME NEW r \in Requests, InsertLine(r) \/ WriteAmount(r) \/ InsertLot(r) \/ Clear(r)
                                     \/ ReadLots(r) \/ ReadLines(r) \/ Draw(r)
        PROVE  SyncedInv'
    BY <1>0, <1>3, SyncInsert, SyncWrite, SyncClear, SyncReads, SyncDraw
  <1>4. CASE SubmitReport \/ ReopenReport \/ UNCHANGED vars
    <2>1. UNCHANGED <<rows, lineAmount, covered, op, pc, target, amt, prev>>
      BY <1>4 DEF SubmitReport, ReopenReport, vars, lineVars, allocVars, jobVars
    <2> QED BY <1>0, <2>1 DEF SyncedInv, SyncOf, Synced, Clearing
  <1> QED BY <1>0, <1>1, <1>2, <1>3, <1>4 DEF Next, Step, Apace

LEMMA BaseAlways == Spec => [](IInv /\ NewInv /\ AmountInv)
  <1>1. Init => IInv /\ NewInv /\ AmountInv
    BY InvInit, NewInit, AmountInit
  <1>2. IInv /\ NewInv /\ AmountInv /\ [Next]_vars => (IInv /\ NewInv /\ AmountInv)'
    BY InvStep, NewStep, AmountStep
  <1> QED BY <1>1, <1>2, PTL DEF Spec

\* Allocations follow edits: with one request that edits at a time, and whatever is added,
\* converted and deleted meanwhile, no line has more allocated to it than its amount once
\* the lock is free and unless something failed (allocate_fifo_service; update_report_line
\* compares with what it loaded before the lock, which is why a second editor breaks it).
THEOREM EditsFollowed ==
  ASSUME OneEditor
  PROVE  Spec => []LineInSync
  <1>1. IInv /\ NewInv /\ AmountInv /\ SyncInv /\ [Next]_vars => SyncInv'
    BY SyncStep
  <1>2. IInv /\ SyncInv => LineInSync
    <2> SUFFICES ASSUME IInv, SyncInv, lock = NoRequest, faults = 0, NEW l \in rows
                 PROVE  covered[l] > 0 => covered[l] <= lineAmount[l]
      BY DEF LineInSync
    <2>1. \A r \in Requests : pc[r] # "clear"
      BY RequestsAssumption DEF IInv, LockInv, Critical
    <2> QED BY <2>1 DEF SyncInv
  <1> QED BY BaseAlways, SyncInit, <1>1, <1>2, PTL DEF Spec

-----------------------------------------------------------------------------
(* Nothing deleted: what is left to visit is all there is. *)

\* How a request comes by what it does, and that what was begun stays begun.
OpFrom(r) ==
    \/ op'[r] \in {op[r], "none"}
    \/ op'[r] = "restore" /\ Fault(r)
    \/ op'[r] \in Kinds /\ begun'[op'[r]] = begun[op'[r]] + 1

LEMMA BegunStep ==
  ASSUME Types, [Next]_vars
  PROVE  /\ \A o \in Kinds : begun[o] \in Nat /\ begun'[o] \in {begun[o], begun[o] + 1}
         /\ \A o \in Kinds : begun'[o] # begun[o] => begun[o] < MaxOps[o]
         /\ \A r \in Requests : OpFrom(r)
  <1> DEFINE Goal == /\ \A o \in Kinds : begun'[o] \in {begun[o], begun[o] + 1}
                     /\ \A o \in Kinds : begun'[o] # begun[o] => begun[o] < MaxOps[o]
                     /\ \A r \in Requests : OpFrom(r)
  <1>0. /\ begun \in [Kinds -> Nat] /\ op \in [Requests -> Ops]
        /\ \A o \in Kinds : begun[o] \in Nat
    BY DEF Types, TypeOK
  <1>1. ASSUME NEW r \in Requests, NEW o \in Kinds, begun[o] < MaxOps[o],
               begun' = [begun EXCEPT ![o] = @ + 1], op' = [op EXCEPT ![r] = o]
        PROVE  Goal
    BY <1>0, <1>1 DEF OpFrom
  <1>2. ASSUME NEW r \in Requests, Start(r) PROVE Goal
    <2>1. PICK o \in Kinds : /\ begun[o] < MaxOps[o] /\ begun' = [begun EXCEPT ![o] = @ + 1]
                             /\ op' = [op EXCEPT ![r] = o]
      BY <1>2 DEF Start, Begin, BeginCreate, BeginUpdate, BeginConvert, BeginDelete, BeginDrop,
                  Kinds
    <2> QED BY <1>1, <2>1
  <1>3. ASSUME begun' = begun, NEW r \in Requests, OpFrom(r),
               \A q \in Requests \ {r} : op'[q] = op[q]
        PROVE  Goal
    BY <1>0, <1>3 DEF OpFrom
  <1>4. ASSUME NEW r \in Requests, Acquire(r) \/ Step(r) \/ Fault(r) PROVE Goal
    <2>1. \A q \in Requests \ {r} : op'[q] = op[q]
      BY <1>4, StepUntouched DEF Untouched
    <2>2. begun' = begun /\ OpFrom(r)
      <3> USE <1>0 DEF OpFrom, bounds, jobVars
      <3>1. CASE Acquire(r)
        BY <3>1 DEF Acquire
      <3>2. CASE Step(r)
        BY <3>2 DEF Step, InsertLine, WriteAmount, WriteFails, InsertLot, Clear, ReadLots,
                    ReadLines, ReadFails, Consume, Draw, DrawFails, DrawDone, Release, DeleteLine,
                    DropReport, DeleteFails, Retire
      <3>3. CASE Fault(r)
        <4>1. begun' = begun
          BY <3>3 DEF Fault, Fail, CompensateCreate, CompensateUpdate, Poison, Die
        <4>2. op'[r] \in {op[r], "none", "restore"}
          BY <3>3 DEF Fault, CompensateCreate, CompensateUpdate, Poison, Die, Retire
        <4> QED BY <3>3, <4>1, <4>2
      <3> QED BY <1>4, <3>1, <3>2, <3>3
    <2> HIDE DEF Goal
    <2> QED BY <1>3, <2>1, <2>2
  <1>5. ASSUME SubmitReport \/ ReopenReport \/ UNCHANGED vars PROVE Goal
    BY <1>0, <1>5 DEF SubmitReport, ReopenReport, vars, bounds, jobVars, OpFrom
  <1> HIDE DEF Goal
  <1>6. Goal
    BY <1>2, <1>4, <1>5 DEF Next
  <1> QED BY <1>0, <1>6 DEF Goal

\* Where nothing was deleted so far, nothing is being deleted either.
NoDeletes == report # "gone" /\ \A r \in Requests : op[r] \notin {"delete", "drop"}

LEMMA KeptBefore ==
  ASSUME Types, [Next]_vars, Kept'
  PROVE  Kept
  <1>1. \A o \in Kinds : begun[o] \in Nat /\ begun'[o] \in {begun[o], begun[o] + 1}
    BY BegunStep
  <1> QED BY <1>1 DEF Kept, Kinds

LEMMA NoDeletesStep ==
  ASSUME Types, [Next]_vars, Kept', NoDeletes
  PROVE  /\ NoDeletes'
         /\ \A r \in Requests : ~DeleteLine(r) /\ ~DropReport(r)
  <1>1. /\ begun'["delete"] = 0 /\ begun["delete"] = 0
        /\ begun'["drop"] = 0 /\ begun["drop"] = 0
    BY KeptBefore DEF Kept
  <1>2. ASSUME NEW r \in Requests PROVE op'[r] \notin {"delete", "drop"}
    <2>1. OpFrom(r)
      BY BegunStep
    <2> QED BY <1>1, <2>1 DEF OpFrom, NoDeletes
  <1>3. \A r \in Requests : ~DeleteLine(r) /\ ~DropReport(r)
    BY DEF NoDeletes, DeleteLine, DropReport
  <1>4. report' # "gone"
    <2>1. ASSUME NEW r \in Requests, Start(r) \/ Acquire(r) \/ Step(r) \/ Fault(r)
          PROVE  report' = report
      <3>1. CASE Apace(r)
        BY <3>1, ApaceKeeps
      <3>2. CASE Step(r) \/ Fault(r)
        BY <1>3, <3>1, <3>2
        DEF Step, Fault, Apace, InsertLine, WriteAmount, InsertLot, Clear, ReadLots, ReadLines,
            Consume, Draw, CompensateCreate, CompensateUpdate, lineVars
      <3> QED BY <2>1, <3>1, <3>2 DEF Apace
    <2>2. ASSUME SubmitReport \/ ReopenReport \/ UNCHANGED vars PROVE report' # "gone"
      BY <2>2 DEF SubmitReport, ReopenReport, vars, lineVars, NoDeletes
    <2> QED BY <2>1, <2>2 DEF Next, NoDeletes
  <1> QED BY <1>2, <1>3, <1>4 DEF NoDeletes

LEMMA KeptAside ==
  ASSUME NEW r \in Requests, pc'[r] \in Aside
  PROVE  KeptOf(r)'
  BY DEF Aside, KeptOf

\* Another request in the critical section is none of r's steps' business.
LEMMA KeptOthers ==
  ASSUME IInv, NEW r \in Requests, Untouched(r), \A q \in Requests : KeptOf(q),
         pc[r] \in Critical \/ UNCHANGED <<rows, nLots, lineAmount, covered, lotAmount, drawn>>
  PROVE  \A q \in Requests \ {r} : KeptOf(q)'
  <1> SUFFICES ASSUME NEW q \in Requests \ {r} PROVE KeptOf(q)'
    OBVIOUS
  <1>1. /\ pc'[q] = pc[q] /\ op'[q] = op[q] /\ target'[q] = target[q]
        /\ pend'[q] = pend[q] /\ rem'[q] = rem[q]
    BY DEF Untouched
  <1>2. CASE pc[r] \in Critical
    <2>1. pc[q] \notin Critical
      BY <1>2 DEF IInv, LockInv
    <2> QED BY <1>1, <2>1 DEF KeptOf, Critical
  <1>3. CASE UNCHANGED <<rows, nLots, lineAmount, covered, lotAmount, drawn>>
    <2>1. KeptOf(q)
      OBVIOUS
    <2> QED BY <1>1, <1>3, <2>1 DEF KeptOf, Unmet, Balance, Drawn
  <1> QED BY <1>2, <1>3

LEMMA KeptReads ==
  ASSUME Types, NEW r \in Requests, ReadLots(r) \/ ReadLines(r), KeptOf(r)
  PROVE  KeptOf(r)'
  <1>0. TypeOK
    BY DEF Types
  <1>1. CASE ReadLots(r)
    <2>1. /\ pc[r] = "read" /\ op' = op /\ op[r] # "convert" /\ target' = target
          /\ UNCHANGED <<rows, nLots, lotAmount, drawn>>
          /\ pend'[r] = { [line |-> target[r], lot |-> k, bal |-> Balance(k)] :
                            k \in { j \in 1 .. nLots : Balance(j) > 0 } }
      BY <1>0, <1>1 DEF ReadLots, Consume, TypeOK, jobVars, lineVars, lotVars, allocVars
    <2>2. \A p \in pend'[r] : p.bal = Balance(p.lot)
      BY <2>1
    <2>3. \A k \in 1 .. nLots : Balance(k) > 0 => \E p \in pend'[r] : p.lot = k
      <3> SUFFICES ASSUME NEW k \in 1 .. nLots, Balance(k) > 0
                   PROVE  \E p \in pend'[r] : p.lot = k
        OBVIOUS
      <3> DEFINE p == [line |-> target[r], lot |-> k, bal |-> Balance(k)]
      <3>1. p \in pend'[r] /\ p.lot = k
        BY <2>1
      <3> QED BY <3>1
    <2>4. UNCHANGED <<nLots, lotAmount, drawn>>
      BY <2>1
    <2> QED BY <2>1, <2>2, <2>3, <2>4 DEF KeptOf, Balance, Drawn
  <1>2. CASE ReadLines(r)
    <2>1. /\ op' = op /\ op[r] = "convert" /\ UNCHANGED <<rows, lineAmount, covered>>
          /\ pend'[r] = { [line |-> l, lot |-> target[r], bal |-> Unmet(l)] :
                            l \in { j \in rows : Unmet(j) > 0 } }
      BY <1>0, <1>2 DEF ReadLines, Consume, TypeOK, jobVars, lineVars, allocVars
    <2>2. \A p \in pend'[r] : p.line \in rows
      BY <2>1
    <2>3. \A l \in rows : Unmet(l) > 0 => \E p \in pend'[r] : p.line = l
      <3> SUFFICES ASSUME NEW l \in rows, Unmet(l) > 0
                   PROVE  \E p \in pend'[r] : p.line = l
        OBVIOUS
      <3> DEFINE p == [line |-> l, lot |-> target[r], bal |-> Unmet(l)]
      <3>1. p \in pend'[r] /\ p.line = l
        BY <2>1
      <3> QED BY <3>1
    <2> QED BY <2>1, <2>2, <2>3 DEF KeptOf, Unmet, Expense
  <1> QED BY <1>1, <1>2

LEMMA KeptDraw ==
  ASSUME IInv, NEW r \in Requests, AmountOf(r), Draw(r), KeptOf(r)
  PROVE  KeptOf(r)'
  <1>0. /\ TypeOK /\ rows \subseteq Lines /\ covered \in [Lines -> Int]
        /\ lineAmount \in [Lines -> Int] /\ \A k \in Lots : Drawn(k) \in Int
        /\ lotAmount \in [Lots -> Int]
    BY BalanceInt DEF IInv, Types, TypeOK
  <1>1. /\ pc[r] = "draw" /\ UNCHANGED <<rows, lineAmount, nLots, lotAmount, op, target, pc>>
    BY DEF Draw, lineVars, lotVars, jobVars
  <1>2. PICK p \in pend[r], n \in Nat :
          /\ p.line \in rows /\ p.line \in Lines /\ p.lot \in Lots /\ p.bal \in Nat
          /\ rem[r] \in Int /\ rem[r] > 0 /\ (n = rem[r] \/ n = p.bal)
          /\ rem'[r] = rem[r] - n /\ pend'[r] = pend[r] \ {p}
          /\ \A l \in Lines : covered'[l] = IF l = p.line THEN covered[l] + n ELSE covered[l]
          /\ \A k \in Lots : Drawn(k)' = IF k = p.lot THEN Drawn(k) + n ELSE Drawn(k)
    BY Drew
  <1>3. op[r] \in Expense \cup {"convert"}
    BY <1>1 DEF IInv, Types, JobInv
  <1>4. PendOf(r)
    BY DEF IInv, PendInv
  <1>5. CASE op[r] \in Expense
    <2>0. op[r] # "convert" /\ (op[r] = "create" => target[r] \in rows)
      BY <1>1, <1>5 DEF Expense, KeptOf
    <2>1. \A q \in pend[r] : q.bal = Balance(q.lot) /\ q.lot \in Lots
      BY <1>0, <1>1, <1>5 DEF KeptOf, TypeOK, Draws
    <2>2. \A q \in pend'[r] : q.lot # p.lot
      BY <1>1, <1>2, <1>4, <1>5 DEF PendOf
    <2>3. \A k \in Lots : k # p.lot => Balance(k)' = Balance(k)
      BY <1>0, <1>1, <1>2 DEF Balance
    <2>4. Balance(p.lot)' = p.bal - n
      <3>1. p.bal = lotAmount[p.lot] - Drawn(p.lot)
        BY <2>1, <1>2 DEF Balance
      <3> QED BY <1>0, <1>1, <1>2, <3>1 DEF Balance
    <2>5. \A q \in pend'[r] : q.bal = Balance(q.lot)'
      BY <1>2, <2>1, <2>2, <2>3
    <2>6. ASSUME NEW k \in 1 .. nLots, Balance(k)' > 0, rem'[r] > 0
          PROVE  \E q \in pend'[r] : q.lot = k
      <3>1. k # p.lot
        BY <1>2, <2>4, <2>6
      <3>2. k \in Lots
        BY InRange, <1>0 DEF TypeOK
      <3>3. Balance(k) > 0
        BY <2>3, <2>6, <3>1, <3>2
      <3>4. PICK q \in pend[r] : q.lot = k
        BY <1>1, <1>2, <1>5, <3>3 DEF KeptOf
      <3> QED BY <1>2, <3>1, <3>4
    <2> QED BY <1>1, <2>0, <2>5, <2>6 DEF KeptOf
  <1>6. CASE op[r] = "convert"
    <2>0. op[r] \notin Expense /\ op[r] # "create"
      BY <1>6 DEF Expense
    <2>1. \A q \in pend[r] : q.line \in rows
      BY <1>1, <1>6 DEF KeptOf
    <2>2. Unmet(p.line)' = p.bal - n
      <3>1. p.bal = lineAmount[p.line] - covered[p.line]
        BY <1>1, <1>2, <1>6 DEF AmountOf, Unmet
      <3> QED BY <1>0, <1>1, <1>2, <3>1 DEF Unmet
    <2>3. ASSUME NEW l \in rows, Unmet(l)' > 0, rem'[r] > 0
          PROVE  \E q \in pend'[r] : q.line = l
      <3>1. l # p.line
        BY <1>2, <2>2, <2>3
      <3>2. Unmet(l)' = Unmet(l)
        BY <1>0, <1>1, <1>2, <3>1 DEF Unmet
      <3>3. PICK q \in pend[r] : q.line = l
        BY <1>1, <1>2, <1>6, <2>3, <3>2 DEF KeptOf
      <3> QED BY <1>2, <3>1, <3>3
    <2> QED BY <1>1, <1>2, <2>0, <2>1, <2>3 DEF KeptOf
  <1> QED BY <1>3, <1>5, <1>6

LEMMA KeptStep ==
  ASSUME IInv, AmountInv, KeptInv, [Next]_vars
  PROVE  KeptInv'
  <1> SUFFICES ASSUME Kept' PROVE NoDeletes' /\ \A r \in Requests : KeptOf(r)'
    BY DEF KeptInv, NoDeletes
  <1>0. Types /\ NoDeletes /\ \A r \in Requests : KeptOf(r)
    BY KeptBefore DEF IInv, KeptInv, NoDeletes
  <1>1. NoDeletes' /\ \A r \in Requests : ~DeleteLine(r) /\ ~DropReport(r)
    BY <1>0, NoDeletesStep
  <1>2. ASSUME NEW r \in Requests, Apace(r) PROVE \A q \in Requests : KeptOf(q)'
    <2>1. KeptOf(r)' /\ \A q \in Requests \ {r} : KeptOf(q)'
      BY <1>0, <1>2, ApaceKeeps, KeptAside, KeptOthers
    <2> QED BY <2>1
  <1>3. ASSUME NEW r \in Requests,
               \/ InsertLine(r) \/ WriteAmount(r) \/ InsertLot(r) \/ Clear(r) \/ ReadLots(r)
               \/ ReadLines(r) \/ Draw(r) \/ CompensateCreate(r) \/ CompensateUpdate(r)
        PROVE  \A q \in Requests : KeptOf(q)'
    <2>1. Untouched(r)
      BY <1>0, <1>3, StepUntouched DEF Step, Fault
    <2>2. pc[r] \in Critical
      BY <1>3 DEF InsertLine, WriteAmount, InsertLot, Clear, ReadLots, ReadLines, Draw,
                  CompensateCreate, CompensateUpdate, Critical
    <2>3. \A q \in Requests \ {r} : KeptOf(q)'
      BY <1>0, <2>1, <2>2, KeptOthers
    <2>4. KeptOf(r)'
      <3> USE <1>0 DEF Types, TypeOK, Goto, jobVars, lineVars
      <3>1. CASE InsertLine(r)
        BY <3>1 DEF InsertLine, KeptOf
      <3>2. CASE WriteAmount(r) \/ InsertLot(r)
        BY <3>2 DEF WriteAmount, InsertLot, KeptOf
      <3>3. CASE Clear(r)
        BY <3>3 DEF Clear, KeptOf
      <3>4. CASE ReadLots(r) \/ ReadLines(r)
        BY <3>4, KeptReads
      <3>5. CASE Draw(r)
        BY <3>5, KeptDraw DEF AmountInv
      <3>6. CASE CompensateCreate(r) \/ CompensateUpdate(r)
        BY <3>6 DEF CompensateCreate, CompensateUpdate, KeptOf
      <3> QED BY <1>3, <3>1, <3>2, <3>3, <3>4, <3>5, <3>6
    <2> QED BY <2>3, <2>4
  <1>4. ASSUME SubmitReport \/ ReopenReport \/ UNCHANGED vars
        PROVE  \A q \in Requests : KeptOf(q)'
    BY <1>0, <1>4 DEF SubmitReport, ReopenReport, vars, lineVars, lotVars, allocVars, jobVars,
                      fifoVars, KeptOf, Unmet, Balance, Drawn
  <1> QED BY <1>1, <1>2, <1>3, <1>4 DEF Next, Step, Fault, Apace

LEMMA KeptInit == Init => KeptInv
  BY DEF Init, KeptInv, KeptOf

\* Only a draw allocates.
LEMMA OnlyDrawsAllocate ==
  ASSUME IInv, [Next]_vars, NEW l \in Lines, NEW k \in Lots, alloc'[l][k] > alloc[l][k]
  PROVE  \E r \in Requests : Draw(r)
  <1>0. TypeOK /\ JobInv /\ rows \subseteq Lines /\ alloc[l][k] \in Nat
    BY DEF IInv, Types, TypeOK
  <1>1. ASSUME NEW r \in Requests, FreeLine(target[r]), target[r] \in Lines PROVE FALSE
    BY <1>0, <1>1, Freed
  <1>2. ASSUME NEW r \in Requests, Start(r) \/ Acquire(r) \/ Step(r) \/ Fault(r), ~Draw(r)
        PROVE  FALSE
    <2>1. CASE Apace(r)
      BY <1>0, <2>1, ApaceKeeps DEF IInv
    <2>2. CASE \/ InsertLine(r) \/ WriteAmount(r) \/ InsertLot(r) \/ ReadLots(r) \/ ReadLines(r)
               \/ CompensateUpdate(r)
      BY <1>0, <2>2 DEF InsertLine, WriteAmount, InsertLot, ReadLots, ReadLines, Consume,
                        CompensateUpdate, allocVars
    <2>3. CASE Clear(r) \/ CompensateCreate(r)
      BY <1>0, <1>1, <2>3 DEF Clear, CompensateCreate, JobInv, Expense
    <2>4. CASE DeleteLine(r)
      BY <1>0, <1>1, <2>4 DEF DeleteLine, allocVars
    <2>5. CASE DropReport(r)
      BY <1>0, <2>5 DEF DropReport
    <2> QED BY <1>2, <2>1, <2>2, <2>3, <2>4, <2>5 DEF Apace, Step, Fault
  <1>3. ASSUME SubmitReport \/ ReopenReport \/ UNCHANGED vars PROVE FALSE
    BY <1>0, <1>3 DEF SubmitReport, ReopenReport, vars, allocVars
  <1> QED BY <1>2, <1>3 DEF Next

\* Nothing older was left behind by the lock holder.
LEMMA DrawsOldest ==
  ASSUME IInv, NEW r \in Requests, KeptOf(r), Draw(r),
         NEW l \in Lines, NEW k \in Lots, alloc'[l][k] > alloc[l][k]
  PROVE  IF op[lock] = "convert"
         THEN \A m \in rows : m < l => Unmet(m) <= 0
         ELSE \A j \in 1 .. nLots :
                lotDate[j] < lotDate[k] \/ (lotDate[j] = lotDate[k] /\ j < k) => Balance(j) <= 0
  <1>0. TypeOK /\ pc[r] = "draw" /\ lock = r /\ op[r] \in Expense \cup {"convert"} /\ PendOf(r)
    BY DEF Draw, IInv, Types, JobInv, LockInv, Critical, PendInv
  <1>1. PICK p \in pend[r], n \in Nat :
          /\ Oldest(r, p) /\ rem[r] > 0
          /\ \A x \in Lines, y \in Lots :
               alloc'[x][y] = IF x = p.line /\ y = p.lot THEN alloc[x][y] + n ELSE alloc[x][y]
    BY Drew
  <1>2. l = p.line /\ k = p.lot
    <2>1. alloc[l][k] \in Nat
      BY <1>0 DEF TypeOK
    <2> QED BY <1>1, <2>1
  <1>3. CASE op[r] = "convert"
    <2>1. ASSUME NEW m \in rows, m < l, Unmet(m) > 0 PROVE FALSE
      <3>1. PICK q \in pend[r] : q.line = m
        BY <1>0, <1>1, <1>3, <2>1 DEF KeptOf
      <3>2. q.lot = p.lot
        BY <1>0, <1>3 DEF PendOf
      <3> QED BY <1>1, <1>2, <2>1, <3>1, <3>2 DEF Oldest, Earlier
    <2>2. \A m \in rows : Unmet(m) \in Int
      BY <1>0 DEF TypeOK, Unmet
    <2>3. \A m \in rows : m < l => Unmet(m) <= 0
      BY <2>1, <2>2
    <2> QED BY <1>0, <1>3, <2>3
  <1>4. CASE op[r] \in Expense
    <2>1. ASSUME NEW j \in 1 .. nLots, Balance(j) > 0,
                 lotDate[j] < lotDate[k] \/ (lotDate[j] = lotDate[k] /\ j < k)
          PROVE  FALSE
      <3>1. PICK q \in pend[r] : q.lot = j
        BY <1>0, <1>1, <1>4, <2>1 DEF KeptOf
      <3> QED BY <1>1, <1>2, <2>1, <3>1 DEF Oldest, Earlier
    <2>2. \A j \in 1 .. nLots : Balance(j) \in Int
      BY <1>0, BalanceInt, InRange DEF TypeOK
    <2>3. \A j \in 1 .. nLots :
            lotDate[j] < lotDate[k] \/ (lotDate[j] = lotDate[k] /\ j < k) => Balance(j) <= 0
      BY <2>1, <2>2
    <2> QED BY <1>0, <1>4, <2>3 DEF Expense
  <1> QED BY <1>0, <1>3, <1>4

LEMMA KeptAlways == Spec => [](IInv /\ AmountInv /\ KeptInv)
  BY BaseAlways, KeptInit, KeptStep, PTL DEF Spec

\* Money leaves the lots oldest first and reaches the expenses oldest first, whatever the
\* requests interleave and whichever of them fail, where no line and no report is deleted
\* (list_unconsumed_lots and list_unsatisfied_report_lines, read once under the lock: a
\* delete, which takes no lock, frees money in a lot already passed over).
THEOREM DrawnOldestFirst ==
  ASSUME NothingDeleted
  PROVE  Spec => OldestFirst
  <1>1. Init => Kept
    BY DEF Init, Kept, Kinds
  <1>2. IInv /\ Kept /\ [Next]_vars => Kept'
    <2> SUFFICES ASSUME IInv, Kept, [Next]_vars PROVE Kept'
      OBVIOUS
    <2>1. \A o \in Kinds : begun'[o] # begun[o] => begun[o] < MaxOps[o]
      BY BegunStep DEF IInv
    <2> QED BY <2>1 DEF Kept, Kinds, NothingDeleted
  <1>3. IInv /\ KeptInv /\ Kept /\ [Next]_vars =>
          [ \A l \in Lines, k \in Lots : alloc'[l][k] > alloc[l][k] =>
              IF op[lock] = "convert"
              THEN \A m \in rows : m < l => Unmet(m) <= 0
              ELSE \A j \in 1 .. nLots :
                     lotDate[j] < lotDate[k] \/ (lotDate[j] = lotDate[k] /\ j < k)
                       => Balance(j) <= 0 ]_vars
    BY OnlyDrawsAllocate, DrawsOldest DEF KeptInv
  <1> QED BY KeptAlways, <1>1, <1>2, <1>3, PTL DEF Spec, OldestFirst

-----------------------------------------------------------------------------
(* New lines and conversions only: no money idles. *)

\* The parts of QuietInv.
Meets(r) ==
    /\ op[r] \notin {"update", "restore"}
    /\ op[r] = "convert" /\ pc[r] = "read" => amt[r] = Balance(target[r])
    /\ op[r] = "convert" /\ pc[r] = "draw" => rem[r] = Balance(target[r])

Met(l, k) == Apart(l, k) => \E r \in Requests : Bringing(r, l, k)

AllMet == (\A r \in Requests : Meets(r)) /\ \A l \in rows, k \in 1 .. nLots : Met(l, k)

LEMMA QuietParts == QuietInv <=> (Quiet => AllMet)
  BY DEF QuietInv, AllMet, Meets, Met

LEMMA QuietBefore ==
  ASSUME Types, [Next]_vars, Quiet'
  PROVE  /\ Quiet /\ Kept' /\ \A r \in Requests : ~Fault(r)
         /\ (\A r \in Requests : op[r] \notin {"update", "restore"})
              => \A r \in Requests : op'[r] \notin {"update", "restore"}
  <1>1. Kept' /\ faults' = 0 /\ begun'["update"] = 0
    BY DEF Quiet
  <1>2. \A o \in Kinds : begun[o] \in Nat /\ begun'[o] \in {begun[o], begun[o] + 1}
    BY BegunStep
  <1>3. begun["update"] = 0
    BY <1>1, <1>2 DEF Kinds
  <1>4. Kept /\ faults = 0 /\ \A r \in Requests : ~Fault(r)
    BY <1>1, KeptBefore, FaultsCount
  <1>5. ASSUME NEW r \in Requests, op[r] \notin {"update", "restore"}
        PROVE  op'[r] \notin {"update", "restore"}
    <2>1. OpFrom(r)
      BY BegunStep
    <2>2. op'[r] # "update"
      <3>1. begun'["update"] # begun["update"] + 1
        BY <1>1, <1>3
      <3> QED BY <1>5, <2>1, <3>1 DEF OpFrom
    <2>3. op'[r] # "restore"
      BY <1>4, <1>5, <2>1 DEF OpFrom, Kinds
    <2> QED BY <2>2, <2>3
  <1> QED BY <1>1, <1>3, <1>4, <1>5 DEF Quiet

\* Only the lock holder can be bringing anything together.
LEMMA BringingHolds ==
  ASSUME LockInv, NEW r \in Requests, NEW l, NEW k, Bringing(r, l, k)
  PROVE  lock = r
  BY DEF Bringing, LockInv, Critical

LEMMA HolderBrings ==
  ASSUME LockInv, AllMet, NEW r \in Requests, pc[r] \in Critical,
         NEW l \in rows, NEW k \in 1 .. nLots, Apart(l, k)
  PROVE  Bringing(r, l, k)
  <1>1. lock = r
    BY DEF LockInv
  <1>2. PICK q \in Requests : Bringing(q, l, k)
    BY DEF AllMet, Met
  <1> QED BY <1>1, <1>2, BringingHolds

\* Steps that change no table.
LEMMA MetStays ==
  ASSUME IInv, AllMet, NEW r \in Requests, Untouched(r),
         UNCHANGED <<rows, nLots, lineAmount, covered, lotAmount, drawn>>,
         Meets(r)',
         \A l \in rows, k \in 1 .. nLots : Apart(l, k) /\ Bringing(r, l, k) => Bringing(r, l, k)'
  PROVE  AllMet'
  <1>1. ASSUME NEW q \in Requests \ {r} PROVE Meets(q)'
    <2>1. Meets(q)
      BY DEF AllMet
    <2> QED BY <2>1 DEF Meets, Untouched, Balance, Drawn
  <1>2. ASSUME NEW l \in rows', NEW k \in 1 .. nLots', Apart(l, k)'
        PROVE  \E q \in Requests : Bringing(q, l, k)'
    <2>1. l \in rows /\ k \in 1 .. nLots /\ Apart(l, k)
      BY <1>2 DEF Apart, Unmet, Balance, Drawn
    <2>2. PICK q \in Requests : Bringing(q, l, k)
      BY <2>1 DEF AllMet, Met
    <2>3. CASE q = r
      BY <2>1, <2>2, <2>3
    <2>4. CASE q # r
      <3>1. Bringing(q, l, k)'
        BY <2>2, <2>4 DEF Bringing, Untouched
      <3> QED BY <3>1
    <2> QED BY <2>3, <2>4
  <1> QED BY <1>1, <1>2 DEF AllMet, Met

\* Nothing is apart when the lock holder has visited all it had to, or has no more to give.
LEMMA DoneMeets ==
  ASSUME IInv, AllMet, NEW r \in Requests, AmountOf(r), KeptOf(r), DrawDone(r),
         NEW l \in rows, NEW k \in 1 .. nLots
  PROVE  ~Apart(l, k)
  <1> SUFFICES ASSUME Apart(l, k) PROVE FALSE
    OBVIOUS
  <1>1. pc[r] = "draw" /\ (pend[r] = {} \/ rem[r] <= 0) /\ LockInv /\ TypeOK
    BY DEF DrawDone, IInv, Types
  <1>2. Bringing(r, l, k)
    BY <1>1, HolderBrings DEF Critical
  <1>3. CASE op[r] = "create"
    <2>1. l = target[r]
      BY <1>2, <1>3 DEF Bringing
    <2>2. rem[r] = Unmet(l)
      <3>1. lineAmount[l] = amt[r] /\ rem[r] + covered[l] = amt[r]
        BY <1>1, <1>3, <2>1 DEF AmountOf, Expense
      <3>2. rem[r] \in Int /\ covered[l] \in Int
        BY <1>1 DEF TypeOK
      <3> QED BY <3>1, <3>2 DEF Unmet
    <2>3. rem[r] > 0 /\ Balance(k) > 0
      BY <2>2 DEF Apart
    <2>4. pend[r] = {}
      BY <1>1, <2>3 DEF TypeOK
    <2>5. \E p \in pend[r] : p.lot = k
      BY <1>1, <1>3, <2>3 DEF KeptOf, Expense
    <2> QED BY <2>4, <2>5
  <1>4. CASE op[r] = "convert"
    <2>1. k = target[r]
      BY <1>2, <1>4 DEF Bringing
    <2>2. rem[r] = Balance(k)
      <3>1. Meets(r)
        BY DEF AllMet
      <3> QED BY <1>1, <1>4, <2>1, <3>1 DEF Meets
    <2>3. rem[r] > 0 /\ Unmet(l) > 0
      BY <2>2 DEF Apart
    <2>4. pend[r] = {}
      BY <1>1, <2>3 DEF TypeOK
    <2>5. \E p \in pend[r] : p.line = l
      BY <1>1, <1>4, <2>3 DEF KeptOf
    <2> QED BY <2>4, <2>5
  <1> QED BY <1>2, <1>3, <1>4 DEF Bringing

LEMMA QuietApace ==
  ASSUME IInv, AmountInv, NoDeletes, \A q \in Requests : KeptOf(q), AllMet,
         NEW r \in Requests, Apace(r), ~Fault(r), op'[r] \notin {"update", "restore"}
  PROVE  AllMet'
  <1>0. /\ Untouched(r) /\ pc'[r] \in Aside
        /\ UNCHANGED <<rows, nLots, lineAmount, covered, lotAmount, drawn>>
    BY ApaceKeeps DEF IInv
  <1>1. Meets(r)'
    BY <1>0 DEF Meets, Aside
  <1>2. Meets(r) /\ AmountOf(r) /\ KeptOf(r)
    BY DEF AllMet, AmountInv
  <1>3. ASSUME NEW l \in rows, NEW k \in 1 .. nLots, Apart(l, k), Bringing(r, l, k)
        PROVE  FALSE
    <2>1. pc[r] \in {"clear", "read", "draw"} /\ op[r] \in {"create", "convert"}
      BY <1>3 DEF Bringing
    <2>2. CASE DrawDone(r)
      BY <1>2, <1>3, <2>2, DoneMeets
    <2>3. CASE DrawFails(r)
      <3>1. PICK p \in pend[r] : p.line \notin rows
        BY <2>3 DEF DrawFails
      <3>2. pc[r] = "draw"
        BY <2>3 DEF DrawFails
      <3>3. op[r] = "create" => p.line = target[r] /\ target[r] \in rows
        BY <1>2, <3>2 DEF AmountOf, KeptOf, Expense
      <3>4. op[r] = "convert" => p.line \in rows
        BY <1>2, <3>2 DEF KeptOf
      <3> QED BY <2>1, <3>1, <3>3, <3>4
    <2>4. CASE ReadFails(r)
      BY <2>4 DEF ReadFails, NoDeletes
    <2>5. CASE Start(r)
      BY <2>1, <2>5 DEF Start, Begin, BeginCreate, BeginUpdate, BeginConvert, BeginDelete,
                        BeginDrop
    <2>6. CASE Acquire(r) \/ WriteFails(r) \/ Release(r) \/ DeleteFails(r)
      BY <2>1, <2>6 DEF Acquire, WriteFails, Release, DeleteFails
    <2> QED BY <2>2, <2>3, <2>4, <2>5, <2>6 DEF Apace, Fault
  <1> QED BY <1>0, <1>1, <1>3, MetStays

\* The lock holder's own step: the others are not bringing anything together.
LEMMA HolderMeets ==
  ASSUME IInv, AllMet, NEW r \in Requests, pc[r] \in Critical, Untouched(r), Meets(r)',
         \A l \in rows', k \in 1 .. nLots' : Apart(l, k)' => Bringing(r, l, k)'
  PROVE  AllMet'
  <1>1. ASSUME NEW q \in Requests \ {r} PROVE Meets(q)'
    <2>1. Meets(q) /\ pc[q] \notin Critical
      BY DEF AllMet, IInv, LockInv
    <2> QED BY <2>1 DEF Meets, Untouched, Critical
  <1> QED BY <1>1 DEF AllMet, Met

LEMMA QuietWrites ==
  ASSUME IInv, NewInv, AllMet, NEW r \in Requests, InsertLine(r) \/ InsertLot(r)
  PROVE  AllMet'
  <1>0. /\ TypeOK /\ Untouched(r) /\ pc[r] = "write" /\ pc[r] \in Critical
        /\ rows \subseteq Lines /\ nLots \in Nat /\ nLines \in Nat
    <2>1. TypeOK /\ rows \subseteq Lines /\ nLots \in Nat /\ nLines \in Nat
      BY DEF IInv, Types, TypeOK
    <2>2. Untouched(r)
      BY StepUntouched DEF Step, IInv
    <2>3. pc[r] = "write"
      BY DEF InsertLine, InsertLot
    <2> QED BY <2>1, <2>2, <2>3 DEF Critical
  <1>1. \A l \in rows, k \in 1 .. nLots : ~Apart(l, k)
    <2>1. \A l \in rows, k \in 1 .. nLots : ~Bringing(r, l, k)
      BY <1>0 DEF Bringing
    <2> QED BY <1>0, <2>1, HolderBrings DEF IInv
  <1>2. CASE InsertLine(r)
    <2>1. /\ rows' = rows \cup {nLines + 1} /\ nLines + 1 \in Lines
          /\ lineAmount' = [lineAmount EXCEPT ![nLines + 1] = amt[r]]
          /\ UNCHANGED <<covered, drawn, lotAmount, nLots, op>> /\ op[r] = "create"
          /\ target'[r] = nLines + 1 /\ pc'[r] = "clear"
      BY <1>0, <1>2 DEF InsertLine, Goto, TypeOK, lotVars, allocVars
    <2>2. nLines + 1 \notin rows
      BY <1>0, <2>1 DEF NewInv
    <2>3. ASSUME NEW l \in rows', NEW k \in 1 .. nLots', Apart(l, k)'
          PROVE  Bringing(r, l, k)'
      <3>1. CASE l = nLines + 1
        BY <2>1, <3>1 DEF Bringing
      <3>2. CASE l # nLines + 1
        <4>1. l \in rows /\ lineAmount'[l] = lineAmount[l]
          BY <1>0, <2>1, <3>2 DEF TypeOK
        <4>2. Apart(l, k)
          BY <2>1, <2>3, <4>1 DEF Apart, Unmet, Balance, Drawn
        <4> QED BY <1>1, <2>1, <4>1, <4>2
      <3> QED BY <3>1, <3>2
    <2>4. Meets(r)'
      BY <2>1 DEF Meets
    <2> QED BY <1>0, <2>3, <2>4, HolderMeets
  <1>3. CASE InsertLot(r)
    <2>0. PICK j : j = nLots + 1
      OBVIOUS
    <2>1. /\ nLots' = j /\ j \in Lots /\ lotAmount' = [lotAmount EXCEPT ![j] = amt[r]]
          /\ UNCHANGED <<rows, lineAmount, covered, drawn, op, amt>> /\ op[r] = "convert"
          /\ target'[r] = j /\ pc'[r] = "read"
      BY <1>0, <1>3, <2>0 DEF InsertLot, Goto, TypeOK, lineVars, allocVars
    <2>2. j > nLots /\ \A k \in 1 .. j : k \in 1 .. nLots \/ k = j
      BY <1>0, <2>0
    <2>3. Drawn(j) = 0
      BY <2>1, <2>2 DEF IInv, FreshInv
    <2>4. amt'[r] = Balance(j)'
      BY <1>0, <2>1, <2>3 DEF Balance, Drawn, TypeOK
    <2>5. \A k \in 1 .. nLots : k # j /\ k \in Lots
      BY <1>0, <2>0, InRange DEF TypeOK
    <2>6. ASSUME NEW l \in rows', NEW k \in 1 .. nLots', Apart(l, k)'
          PROVE  Bringing(r, l, k)'
      <3>1. CASE k = j
        BY <2>1, <3>1 DEF Bringing
      <3>2. CASE k \in 1 .. nLots
        <4>1. lotAmount'[k] = lotAmount[k]
          BY <1>0, <2>1, <2>5, <3>2 DEF TypeOK
        <4>2. Apart(l, k)
          BY <2>1, <2>6, <4>1 DEF Apart, Unmet, Balance, Drawn
        <4> QED BY <1>1, <2>1, <3>2, <4>2
      <3> QED BY <2>1, <2>2, <3>1, <3>2
    <2>7. Meets(r)'
      BY <2>1, <2>4 DEF Meets
    <2> QED BY <1>0, <2>6, <2>7, HolderMeets
  <1> QED BY <1>2, <1>3

LEMMA QuietClear ==
  ASSUME IInv, NewInv, AllMet, NEW r \in Requests, Clear(r)
  PROVE  AllMet'
  <1>0. TypeOK /\ SumInv /\ JobInv /\ Meets(r)
    BY DEF IInv, Types, AllMet
  <1>1. /\ pc[r] = "clear" /\ pc'[r] = "read" /\ op[r] = "create" /\ FreeLine(target[r])
        /\ UNCHANGED <<rows, nLots, lineAmount, lotAmount, op, target>> /\ target[r] \in Lines
    <2>1. op[r] = "create" /\ target[r] \in Lines
      BY <1>0 DEF Clear, JobInv, Meets, Expense
    <2> QED BY <1>0, <2>1 DEF Clear, Goto, TypeOK, lineVars, lotVars, jobVars
  <1>2. covered[target[r]] = 0 /\ \A k \in Lots : alloc[target[r]][k] = 0
    BY <1>1 DEF NewInv
  <1>3. \A l \in Lines : covered'[l] = covered[l]
    BY <1>0, <1>1, <1>2, Freed
  <1>4. \A k \in Lots : Drawn(k)' = Drawn(k)
    <2>1. \A k \in Lots : Drawn(k)' = Drawn(k) - alloc[target[r]][k] /\ Drawn(k) \in Int
      BY <1>0, <1>1, FreeLineSums, BalanceInt
    <2> QED BY <1>2, <2>1
  <1>5. Untouched(r) /\ pc[r] \in Critical
    BY <1>1, StepUntouched DEF Step, IInv, Critical
  <1>6. Meets(r)'
    BY <1>1 DEF Meets
  <1>7. ASSUME NEW l \in rows', NEW k \in 1 .. nLots', Apart(l, k)' PROVE Bringing(r, l, k)'
    <2>1. l \in rows /\ l \in Lines /\ k \in 1 .. nLots /\ k \in Lots
      BY <1>0, <1>1, InRange DEF TypeOK
    <2>2. Apart(l, k)
      BY <1>1, <1>3, <1>4, <1>7, <2>1 DEF Apart, Unmet, Balance
    <2>3. Bringing(r, l, k)
      BY <1>5, <2>1, <2>2, HolderBrings DEF IInv
    <2> QED BY <1>1, <2>3 DEF Bringing
  <1> QED BY <1>5, <1>6, <1>7, HolderMeets

LEMMA QuietReads ==
  ASSUME IInv, AllMet, NEW r \in Requests, ReadLots(r) \/ ReadLines(r)
  PROVE  AllMet'
  <1>0. TypeOK /\ Meets(r)
    BY DEF IInv, Types, AllMet
  <1>1. /\ pc[r] = "read" /\ pc'[r] = "draw" /\ rem'[r] = amt[r]
        /\ UNCHANGED <<rows, nLots, lineAmount, covered, lotAmount, drawn, op, target>>
    BY <1>0 DEF ReadLots, ReadLines, Consume, Goto, TypeOK, lineVars, lotVars, allocVars, jobVars
  <1>2. Untouched(r)
    BY StepUntouched DEF Step, IInv
  <1>3. Meets(r)'
    BY <1>0, <1>1 DEF Meets, Balance, Drawn
  <1>4. \A l \in rows, k \in 1 .. nLots : Bringing(r, l, k) => Bringing(r, l, k)'
    BY <1>1 DEF Bringing
  <1> QED BY <1>1, <1>2, <1>3, <1>4, MetStays

LEMMA QuietDraw ==
  ASSUME IInv, AmountInv, AllMet, NEW r \in Requests, Draw(r)
  PROVE  AllMet'
  <1>0. /\ TypeOK /\ rows \subseteq Lines /\ covered \in [Lines -> Int]
        /\ lineAmount \in [Lines -> Int] /\ \A k \in Lots : Drawn(k) \in Int
        /\ lotAmount \in [Lots -> Int] /\ \A k \in 1 .. nLots : k \in Lots
    BY BalanceInt, InRange DEF IInv, Types, TypeOK
  <1>1. /\ pc[r] = "draw" /\ pc[r] \in Critical
        /\ UNCHANGED <<rows, lineAmount, nLots, lotAmount, op, target, pc>>
    BY DEF Draw, lineVars, lotVars, jobVars, Critical
  <1>2. PICK p \in pend[r], n \in Nat :
          /\ p.line \in rows /\ p.line \in Lines /\ p.lot \in Lots /\ rem[r] \in Int
          /\ rem'[r] = rem[r] - n
          /\ \A l \in Lines : covered'[l] = IF l = p.line THEN covered[l] + n ELSE covered[l]
          /\ \A k \in Lots : Drawn(k)' = IF k = p.lot THEN Drawn(k) + n ELSE Drawn(k)
    BY Drew
  <1>3. /\ op[r] \in Expense \cup {"convert"} /\ Untouched(r)
        /\ PendOf(r) /\ AmountOf(r) /\ Meets(r)
    <2>1. op[r] \in Expense \cup {"convert"}
      BY <1>1 DEF IInv, Types, JobInv
    <2>2. Untouched(r)
      BY StepUntouched DEF Step, IInv
    <2> QED BY <2>1, <2>2 DEF IInv, PendInv, AmountInv, AllMet
  <1>4. op[r] \in {"create", "convert"}
    BY <1>3 DEF Meets, Expense
  <1>5. op[r] = "create" => p.line = target[r]
    BY <1>1, <1>2, <1>3 DEF AmountOf, Expense
  <1>6. op[r] = "convert" => p.lot = target[r]
    BY <1>1, <1>2, <1>3 DEF PendOf
  <1>7. Meets(r)'
    <2>1. CASE op[r] = "create"
      BY <1>1, <2>1 DEF Meets
    <2>2. CASE op[r] = "convert"
      <3>1. rem[r] = lotAmount[p.lot] - Drawn(p.lot)
        BY <1>1, <1>3, <1>6, <2>2 DEF Meets, Balance
      <3>2. rem'[r] = lotAmount[p.lot] - Drawn(p.lot)'
        BY <1>0, <1>2, <3>1
      <3>3. rem'[r] = Balance(p.lot)'
        BY <1>1, <3>2 DEF Balance
      <3> QED BY <1>1, <1>6, <2>2, <3>3 DEF Meets
    <2> QED BY <1>4, <2>1, <2>2
  <1>8. ASSUME NEW l \in rows', NEW k \in 1 .. nLots', Apart(l, k)' PROVE Bringing(r, l, k)'
    <2>1. l \in rows /\ l \in Lines /\ k \in 1 .. nLots /\ k \in Lots
      BY <1>0, <1>1
    <2>2. lineAmount[l] - covered'[l] > 0 /\ lotAmount[k] - Drawn(k)' > 0
      BY <1>1, <1>8 DEF Apart, Unmet, Balance
    <2>3. lineAmount[l] - covered[l] > 0
      BY <1>0, <1>2, <2>1, <2>2
    <2>4. lotAmount[k] - Drawn(k) > 0
      BY <1>0, <1>2, <2>1, <2>2
    <2>5. Apart(l, k)
      BY <2>3, <2>4 DEF Apart, Unmet, Balance
    <2>6. Bringing(r, l, k)
      BY <1>1, <2>1, <2>5, HolderBrings DEF IInv
    <2> QED BY <1>1, <2>6 DEF Bringing
  <1> QED BY <1>1, <1>3, <1>7, <1>8, HolderMeets

LEMMA QuietStep ==
  ASSUME IInv, NewInv, AmountInv, KeptInv, QuietInv, [Next]_vars
  PROVE  QuietInv'
  <1> SUFFICES ASSUME Quiet' PROVE AllMet'
    BY DEF QuietInv, AllMet, Meets, Met
  <1>0. Types /\ Quiet /\ Kept' /\ Kept /\ \A r \in Requests : ~Fault(r)
    BY QuietBefore DEF IInv, Quiet
  <1>1. AllMet /\ NoDeletes /\ \A r \in Requests : KeptOf(r)
    BY <1>0, QuietParts DEF KeptInv, NoDeletes
  <1>2. \A r \in Requests : /\ ~DeleteLine(r) /\ ~DropReport(r)
                            /\ op[r] \notin {"update", "restore"}
                            /\ op'[r] \notin {"update", "restore"}
    <2>1. \A r \in Requests : op[r] \notin {"update", "restore"}
      BY <1>1 DEF AllMet, Meets
    <2> QED BY <1>0, <1>1, <2>1, NoDeletesStep, QuietBefore
  <1>3. ASSUME NEW r \in Requests, Apace(r) PROVE AllMet'
    BY <1>0, <1>1, <1>2, <1>3, QuietApace
  <1>4. ASSUME NEW r \in Requests, \/ InsertLine(r) \/ WriteAmount(r) \/ InsertLot(r) \/ Clear(r)
                                   \/ ReadLots(r) \/ ReadLines(r) \/ Draw(r)
        PROVE  AllMet'
    <2>1. ~WriteAmount(r)
      BY <1>2 DEF WriteAmount
    <2> QED BY <1>1, <1>4, <2>1, QuietWrites, QuietClear, QuietReads, QuietDraw
  <1>5. ASSUME SubmitReport \/ ReopenReport \/ UNCHANGED vars PROVE AllMet'
    <2>1. UNCHANGED <<rows, nLots, lineAmount, covered, lotAmount, drawn, op, pc, target, amt, rem>>
      BY <1>5 DEF SubmitReport, ReopenReport, vars, lineVars, lotVars, allocVars, jobVars, fifoVars
    <2> QED BY <1>1, <2>1 DEF AllMet, Meets, Met, Apart, Bringing, Unmet, Balance, Drawn
  <1> QED BY <1>0, <1>2, <1>3, <1>4, <1>5 DEF Next, Step, Apace

\* While there are only new lines and conversions and nothing failed, money never idles: once
\* the lock is free no lot has money left while a line waits for some, however the requests
\* interleave (allocate_fifo_service gives a new line all there is, and
\* _backfill_unsatisfied_expenses a new lot to all that wait).
THEOREM NothingIdles == Spec => []NoIdleFunds
  <1>1. Init => QuietInv
    BY DEF Init, QuietInv, Apart
  <1>2. IInv /\ QuietInv => NoIdleFunds
    <2> SUFFICES ASSUME IInv, QuietInv, lock = NoRequest, faults = 0,
                        begun["update"] + begun["delete"] + begun["drop"] = 0,
                        NEW l \in rows, NEW k \in 1 .. nLots, Apart(l, k)
                 PROVE  FALSE
      BY DEF NoIdleFunds, Apart
    <2>1. Quiet
      <3>1. begun["update"] \in Nat /\ begun["delete"] \in Nat /\ begun["drop"] \in Nat
        BY DEF IInv, Types, TypeOK, Kinds
      <3> QED BY <3>1 DEF Quiet, Kept
    <2>2. PICK r \in Requests : Bringing(r, l, k)
      BY <2>1, QuietParts DEF AllMet, Met
    <2> QED BY <2>2, BringingHolds, RequestsAssumption DEF IInv
  <1> QED BY BaseAlways, KeptAlways, <1>1, <1>2, QuietStep, PTL DEF Spec
=============================================================================
