---------------------------- MODULE BudgetsProofs ----------------------------
(***************************************************************************)
(* The five parts of MCBudgets, for any number of donors, requests, lines, *)
(* uploads, kinds of budgets and rows: budgets are linked to donors that   *)
(* approved their owners; lines are filed where they were asked to be;     *)
(* files are there; figures shown apart agree; migrations keep what they   *)
(* rewrite.                                                                *)
(*                                                                         *)
(* Each part has an inductive invariant of its own, and the names of what  *)
(* belongs to it begin alike: Funder, Line, File, Figure, Migration.       *)
(***************************************************************************)
EXTENDS MCBudgets, SumTheorems

-----------------------------------------------------------------------------
(* Donors, their grantees and the funder of a budget (FunderLinks).        *)

\* A request under way knows the donors that are approved, has a donor that was when it
\* writes one, and says something of the funder; one that updates has a budget.
FunderRequestOf(r) ==
  LET q == request[r]
  IN  q.pc # "idle" =>
        /\ approved \subseteq since[r]
        /\ q.pc = "write" /\ q.donor # none => q.donor \in since[r]
        /\ q.pc \in {"fund", "relate"} => q.donor # none
        /\ q.op = "create" => q.donor # none \/ q.name = "text"
        /\ q.op = "update" => budget.made /\ (q.donor # none \/ q.name # "unset")

\* The inductive invariant.
FunderInv == Funder!TypeOK /\ \A r \in Requests : FunderRequestOf(r)

\* It holds at the start.
LEMMA FunderInvInit ==
  ASSUME Funder!FundersAssumption, Funder!Init
  PROVE  FunderInv
  <1>1. Funder!NoBudget \in Funder!Budget /\ Funder!Idle \in Funder!Request
    BY DEF Funder!NoBudget, Funder!Idle, Funder!Begun, Funder!Budget, Funder!Request
  <1>2. cache \in Seq(Funder!Entry) /\ Len(cache) =< CacheSize
    BY DEF Funder!Init, Funder!FundersAssumption
  <1>3. flags \in [Funder!Customers -> [donor : BOOLEAN, ngo : BOOLEAN]]
    BY DEF Funder!Init
  <1>4. Funder!TypeOK
    BY <1>1, <1>2, <1>3 DEF Funder!Init, Funder!TypeOK, Funder!FundersAssumption
  <1>5. \A r \in Requests : FunderRequestOf(r)
    BY DEF Funder!Init, FunderRequestOf, Funder!Idle, Funder!Begun
  <1> QED BY <1>4, <1>5 DEF FunderInv

\* What a request holds.
LEMMA FunderTypes ==
  ASSUME Funder!FundersAssumption, Funder!TypeOK, NEW r \in Requests
  PROVE  /\ request[r] \in Funder!Request
         /\ request[r].pc \in {"idle", "fund", "own", "load", "relate", "write"}
         /\ request[r].op \in {none, "create", "update"} /\ request[r].staff \in BOOLEAN
         /\ request[r].donor \in Donors \cup {none} /\ request[r].name \in {"unset", "empty", "text"}
         /\ request[r].seen \in Funder!Budget
         /\ since[r] \subseteq Donors
         /\ Funder!Idle \in Funder!Request /\ Funder!Idle.pc = "idle"
  BY DEF Funder!TypeOK, Funder!Request, Funder!Idle, Funder!Begun, Funder!NoBudget, Funder!Budget

\* A request moves: the record it holds, and those of the others.
LEMMA FunderMoves ==
  ASSUME Funder!TypeOK, NEW r \in Requests, NEW record \in Funder!Request, Funder!Set(r, record)
  PROVE  /\ request' \in [Requests -> Funder!Request] /\ request'[r] = record
         /\ \A s \in Requests : s # r => request'[s] = request[s]
  BY DEF Funder!Set, Funder!TypeOK

\* What one says of an approved donor, for a request that did not move.
LEMMA FunderOthers ==
  ASSUME FunderInv, NEW s \in Requests, request'[s] = request[s], since'[s] = since[s],
         approved' \subseteq approved, budget.made => budget'.made
  PROVE  FunderRequestOf(s)'
  BY DEF FunderInv, FunderRequestOf

\* The budget keeps its type and is never unmade, and the cache keeps its size.
LEMMA FunderStepOf ==
  ASSUME Funder!FundersAssumption, FunderInv, NEW r \in Requests, NEW record \in Funder!Request,
         Funder!Set(r, record), NEW ds \in SUBSET Donors, since' = [since EXCEPT ![r] = ds],
         FunderRequestOf(r)', UNCHANGED Funder!users,
         budget' \in Funder!Budget, budget.made => budget'.made,
         cache' \in Seq(Funder!Entry), Len(cache') =< CacheSize
  PROVE  FunderInv'
  <1>1. Funder!TypeOK'
    BY FunderMoves DEF FunderInv, Funder!TypeOK, Funder!users
  <1>2. ASSUME NEW s \in Requests PROVE FunderRequestOf(s)'
    <2>1. CASE s = r
      BY <2>1
    <2>2. CASE s # r
      <3>1. request'[s] = request[s] /\ since'[s] = since[s]
        BY <2>2, FunderMoves DEF FunderInv, Funder!TypeOK
      <3> QED BY <3>1, FunderOthers DEF Funder!users
    <2> QED BY <2>1, <2>2
  <1> QED BY <1>1, <1>2 DEF FunderInv

\* A request that is over holds nothing.
LEMMA FunderRetires ==
  ASSUME Funder!FundersAssumption, FunderInv, NEW r \in Requests, Funder!Retire(r),
         UNCHANGED Funder!users, budget' \in Funder!Budget, budget.made => budget'.made,
         cache' \in Seq(Funder!Entry), Len(cache') =< CacheSize
  PROVE  FunderInv'
  <1>1. Funder!Idle \in Funder!Request /\ Funder!Idle.pc = "idle"
    BY FunderTypes DEF FunderInv
  <1>2. request'[r] = Funder!Idle
    BY <1>1, FunderMoves DEF FunderInv, Funder!Retire
  <1>3. FunderRequestOf(r)'
    BY <1>1, <1>2 DEF FunderRequestOf
  <1>4. Funder!Set(r, Funder!Idle) /\ since' = [since EXCEPT ![r] = {}] /\ {} \in SUBSET Donors
    BY DEF Funder!Retire
  <1> QED BY <1>1, <1>3, <1>4, FunderStepOf

\* One that goes on holds what it held.
LEMMA FunderGoesOn ==
  ASSUME Funder!FundersAssumption, FunderInv, NEW r \in Requests,
         NEW pc \in {"own", "load", "relate", "write"}, Funder!Goto(r, pc),
         request[r].pc # "idle",
         pc = "relate" => request[r].donor # none,
         pc = "write" => request[r].donor \in approved \cup {none},
         UNCHANGED <<Funder!users, budget>>,
         cache' \in Seq(Funder!Entry), Len(cache') =< CacheSize
  PROVE  FunderInv'
  <1> DEFINE record == [request[r] EXCEPT !.pc = pc]
  <1>1. /\ record \in Funder!Request /\ record.pc = pc
        /\ record.op = request[r].op /\ record.donor = request[r].donor
        /\ record.name = request[r].name
    BY FunderTypes DEF FunderInv, Funder!Request
  <1>2. Funder!Set(r, record) /\ since' = since
    BY DEF Funder!Goto
  <1> HIDE DEF record
  <1>3. request'[r] = record
    BY <1>1, <1>2, FunderMoves DEF FunderInv
  <1>4. FunderRequestOf(r)'
    <2>1. FunderRequestOf(r)
      BY DEF FunderInv
    <2> QED BY <1>1, <1>2, <1>3, <2>1 DEF FunderRequestOf, Funder!users
  <1>5. since' = [since EXCEPT ![r] = since[r]] /\ since[r] \in SUBSET Donors
    BY <1>2 DEF FunderInv, Funder!TypeOK
  <1>6. budget' \in Funder!Budget /\ (budget.made => budget'.made)
    BY DEF FunderInv, Funder!TypeOK
  <1> QED BY <1>1, <1>2, <1>4, <1>5, <1>6, FunderStepOf

\* A sequence without one of its places.
LEMMA FunderRemoved ==
  ASSUME NEW S, NEW s \in Seq(S), NEW i \in 1 .. Len(s)
  PROVE  Funder!RemoveAt(s, i) \in Seq(S) /\ Len(Funder!RemoveAt(s, i)) = Len(s) - 1
  <1> DEFINE before == SubSeq(s, 1, i - 1)
             after == SubSeq(s, i + 1, Len(s))
  <1>1. /\ before \in Seq(S) /\ Len(before) = i - 1
        /\ after \in Seq(S) /\ Len(after) = Len(s) - i
    OBVIOUS
  <1>2. Funder!RemoveAt(s, i) = before \o after
    BY DEF Funder!RemoveAt
  <1> HIDE DEF before, after
  <1>3. before \o after \in Seq(S) /\ Len(before \o after) = (i - 1) + (Len(s) - i)
    BY <1>1
  <1> QED BY <1>2, <1>3

\* The cache holds entries, and no more of them than it may.
LEMMA FunderRemembers ==
  ASSUME Funder!FundersAssumption, Funder!TypeOK, NEW c \in Funder!Customers
  PROVE  Funder!Remembered(c) \in Seq(Funder!Entry) /\ Len(Funder!Remembered(c)) =< CacheSize
  <1> DEFINE i == Funder!Place(c)
             others == IF Funder!Cached(c) THEN Funder!RemoveAt(cache, i) ELSE cache
             used == Append(others, Funder!Answer(c))
  <1>1. cache \in Seq(Funder!Entry) /\ Len(cache) \in 0 .. CacheSize /\ CacheSize \in Nat \ {0}
    BY DEF Funder!TypeOK, Funder!FundersAssumption
  <1>2. Funder!Cached(c) => i \in 1 .. Len(cache)
    BY <1>1 DEF Funder!Cached, Funder!Place
  <1>3. Funder!Answer(c) \in Funder!Entry
    <2>1. CASE Funder!Cached(c)
      BY <1>1, <1>2, <2>1 DEF Funder!Answer
    <2>2. CASE ~Funder!Cached(c)
      BY <2>2 DEF Funder!Answer, Funder!Entry, Funder!TypeOK
    <2> QED BY <2>1, <2>2
  <1>4. others \in Seq(Funder!Entry) /\ Len(others) \in 0 .. CacheSize
        /\ (Funder!Cached(c) => Len(others) = Len(cache) - 1)
    <2>1. CASE Funder!Cached(c)
      <3>1. others = Funder!RemoveAt(cache, i)
        BY <2>1
      <3>2. others \in Seq(Funder!Entry) /\ Len(others) = Len(cache) - 1
        BY <1>1, <1>2, <2>1, <3>1, FunderRemoved
      <3>3. Len(cache) >= 1
        BY <1>1, <1>2, <2>1
      <3> HIDE DEF others
      <3> QED BY <1>1, <3>2, <3>3
    <2>2. CASE ~Funder!Cached(c)
      BY <1>1, <2>2
    <2> QED BY <2>1, <2>2
  <1> HIDE DEF others
  <1>5. used \in Seq(Funder!Entry) /\ Len(used) = Len(others) + 1
    BY <1>3, <1>4
  <1> HIDE DEF used
  <1>6. Tail(used) \in Seq(Funder!Entry) /\ Len(Tail(used)) = Len(others)
    BY <1>4, <1>5
  <1>7. Funder!Remembered(c) = IF Len(used) > CacheSize THEN Tail(used) ELSE used
    BY DEF Funder!Remembered, used, others
  <1> QED BY <1>1, <1>4, <1>5, <1>6, <1>7

\* The steps of the users service.
LEMMA FunderUsersKeep ==
  ASSUME Funder!FundersAssumption, FunderInv,
         \/ \E d \in Donors : Funder!BeginApprove(d) \/ Funder!Approve(d) \/ Funder!Revoke(d)
         \/ \E c \in Funder!Customers : Funder!UpdateCompany(c)
  PROVE  FunderInv'
  <1>1. ASSUME NEW d \in Donors, Funder!BeginApprove(d) PROVE FunderInv'
    <2>1. Funder!TypeOK'
      BY <1>1 DEF Funder!BeginApprove, FunderInv, Funder!TypeOK
    <2>2. \A r \in Requests : FunderRequestOf(r)'
      BY <1>1 DEF Funder!BeginApprove, FunderInv, FunderRequestOf
    <2> QED BY <2>1, <2>2 DEF FunderInv
  <1>2. ASSUME NEW d \in Donors, Funder!Approve(d) PROVE FunderInv'
    <2>1. since' \in [Requests -> SUBSET Donors]
      BY <1>2, FunderTypes DEF Funder!Approve, FunderInv
    <2>2. Funder!TypeOK'
      BY <1>2, <2>1 DEF Funder!Approve, FunderInv, Funder!TypeOK
    <2>3. \A r \in Requests : FunderRequestOf(r)'
      BY <1>2 DEF Funder!Approve, FunderInv, FunderRequestOf
    <2> QED BY <2>2, <2>3 DEF FunderInv
  <1>3. ASSUME NEW d \in Donors, Funder!Revoke(d) PROVE FunderInv'
    <2>1. Funder!TypeOK'
      BY <1>3 DEF Funder!Revoke, FunderInv, Funder!TypeOK
    <2>2. \A r \in Requests : FunderRequestOf(r)'
      BY <1>3 DEF Funder!Revoke, FunderInv, FunderRequestOf
    <2> QED BY <2>1, <2>2 DEF FunderInv
  <1>4. ASSUME NEW c \in Funder!Customers, Funder!UpdateCompany(c) PROVE FunderInv'
    <2>1. edits' \in 0 .. MaxEdits
      BY <1>4 DEF Funder!UpdateCompany, FunderInv, Funder!TypeOK, Funder!FundersAssumption
    <2>2. flags' \in [Funder!Customers -> [donor : BOOLEAN, ngo : BOOLEAN]]
      BY <1>4 DEF Funder!UpdateCompany, FunderInv, Funder!TypeOK
    <2>3. Funder!TypeOK'
      BY <1>4, <2>1, <2>2 DEF Funder!UpdateCompany, FunderInv, Funder!TypeOK
    <2>4. \A r \in Requests : FunderRequestOf(r)'
      BY <1>4 DEF Funder!UpdateCompany, FunderInv, FunderRequestOf
    <2> QED BY <2>3, <2>4 DEF FunderInv
  <1> QED BY <1>1, <1>2, <1>3, <1>4

\* A request begins: it knows the donors that are approved and says something of the funder.
LEMMA FunderBegins ==
  ASSUME Funder!FundersAssumption, FunderInv, NEW r \in Requests,
         Funder!BeginCreate(r) \/ Funder!BeginUpdate(r)
  PROVE  FunderInv'
  <1>1. PICK record \in Funder!Request :
          /\ Funder!Set(r, record) /\ since' = [since EXCEPT ![r] = approved]
          /\ record.pc \in {"fund", "own", "load", "write"}
          /\ record.pc = "write" => record.donor = none
          /\ record.pc = "fund" => record.donor # none
          /\ record.op = "create" => record.donor # none \/ record.name = "text"
          /\ record.op = "update" => budget.made /\ (record.donor # none \/ record.name # "unset")
    <2>1. CASE Funder!BeginCreate(r)
      <3>1. PICK d \in Donors \cup {none}, n \in {"unset", "empty", "text"}, staff \in BOOLEAN :
              /\ d # none \/ n = "text"
              /\ Funder!Set(r, Funder!Begun(IF d # none THEN "fund" ELSE IF staff THEN "own" ELSE "write",
                                            "create", staff, d, n))
        BY <2>1 DEF Funder!BeginCreate
      <3> DEFINE pc == IF d # none THEN "fund" ELSE IF staff THEN "own" ELSE "write"
                 record == [pc |-> pc, op |-> "create", staff |-> staff, donor |-> d, name |-> n,
                            seen |-> Funder!NoBudget]
      <3>2. Funder!Set(r, record)
        BY <3>1 DEF Funder!Begun
      <3> record \in Funder!Request
        BY DEF Funder!Request, Funder!NoBudget, Funder!Budget
      <3> WITNESS record \in Funder!Request
      <3> QED BY <2>1, <3>1, <3>2 DEF Funder!BeginCreate
    <2>2. CASE Funder!BeginUpdate(r)
      <3>1. PICK d \in Donors \cup {none}, n \in {"unset", "empty", "text"} :
              /\ d # none \/ n # "unset"
              /\ Funder!Set(r, Funder!Begun(IF d # none THEN "fund" ELSE "load", "update", FALSE, d, n))
        BY <2>2 DEF Funder!BeginUpdate
      <3> DEFINE pc == IF d # none THEN "fund" ELSE "load"
                 record == [pc |-> pc, op |-> "update", staff |-> FALSE, donor |-> d, name |-> n,
                            seen |-> Funder!NoBudget]
      <3>2. Funder!Set(r, record)
        BY <3>1 DEF Funder!Begun
      <3> record \in Funder!Request
        BY DEF Funder!Request, Funder!NoBudget, Funder!Budget
      <3> WITNESS record \in Funder!Request
      <3> QED BY <2>2, <3>1, <3>2 DEF Funder!BeginUpdate
    <2> QED BY <2>1, <2>2
  <1>2. UNCHANGED <<Funder!users, cache, budget>>
    BY DEF Funder!BeginCreate, Funder!BeginUpdate
  <1>3. request'[r] = record /\ since'[r] = approved /\ approved \in SUBSET Donors
    BY <1>1, FunderMoves DEF FunderInv, Funder!TypeOK
  <1>4. FunderRequestOf(r)'
    BY <1>1, <1>2, <1>3 DEF FunderRequestOf, Funder!users
  <1>5. /\ budget' \in Funder!Budget /\ (budget.made => budget'.made)
        /\ cache' \in Seq(Funder!Entry) /\ Len(cache') =< CacheSize
    BY <1>2 DEF FunderInv, Funder!TypeOK
  <1> QED BY <1>1, <1>2, <1>3, <1>4, <1>5, FunderStepOf

\* It asks about the donor, the owner and the approval.
LEMMA FunderAsks ==
  ASSUME Funder!FundersAssumption, FunderInv, NEW r \in Requests,
         Funder!CanFund(r) \/ Funder!CanOwn(r) \/ Funder!Relate(r) \/ Funder!CallFails(r)
  PROVE  FunderInv'
  <1> DEFINE q == request[r]
  <1>1. /\ q.donor \in Donors \cup {none} /\ FunderRequestOf(r) /\ Funder!TypeOK
        /\ budget \in Funder!Budget /\ cache \in Seq(Funder!Entry) /\ Len(cache) =< CacheSize
    BY FunderTypes DEF FunderInv, Funder!TypeOK
  <1>2. CASE Funder!CanFund(r)
    <2>1. q.pc = "fund" /\ q.donor # none /\ UNCHANGED <<Funder!users, budget>>
      BY <1>1, <1>2 DEF Funder!CanFund, FunderRequestOf
    <2>2. cache' \in Seq(Funder!Entry) /\ Len(cache') =< CacheSize
      BY <1>1, <1>2, <2>1, FunderRemembers DEF Funder!CanFund, Funder!Customers
    <2>3. CASE \E pc \in {"own", "load", "relate"} : Funder!Goto(r, pc)
      BY <2>1, <2>2, <2>3, FunderGoesOn
    <2>4. CASE Funder!Retire(r)
      BY <1>1, <2>1, <2>2, <2>4, FunderRetires
    <2> QED BY <1>2, <2>3, <2>4 DEF Funder!CanFund
  <1>3. CASE Funder!CanOwn(r)
    <2>1. q.pc = "own" /\ UNCHANGED <<Funder!users, budget>>
      BY <1>3 DEF Funder!CanOwn
    <2>2. cache' \in Seq(Funder!Entry) /\ Len(cache') =< CacheSize
      BY <1>1, <1>3, FunderRemembers DEF Funder!CanOwn, Funder!Customers
    <2>3. CASE q.donor # none /\ Funder!Goto(r, "relate")
      BY <2>1, <2>2, <2>3, FunderGoesOn
    <2>4. CASE q.donor = none /\ Funder!Goto(r, "write")
      BY <2>1, <2>2, <2>4, FunderGoesOn
    <2>5. CASE Funder!Retire(r)
      BY <1>1, <2>1, <2>2, <2>5, FunderRetires
    <2> QED BY <1>3, <2>3, <2>4, <2>5 DEF Funder!CanOwn
  <1>4. CASE Funder!Relate(r)
    <2>1. q.pc = "relate" /\ UNCHANGED <<Funder!users, cache, budget>>
      BY <1>4 DEF Funder!Relate
    <2>2. CASE q.donor \in approved /\ Funder!Goto(r, "write")
      BY <1>1, <2>1, <2>2, FunderGoesOn
    <2>3. CASE Funder!Retire(r)
      BY <1>1, <2>1, <2>3, FunderRetires
    <2> QED BY <1>4, <2>2, <2>3 DEF Funder!Relate
  <1>5. CASE Funder!CallFails(r)
    BY <1>1, <1>5, FunderRetires DEF Funder!CallFails
  <1> QED BY <1>2, <1>3, <1>4, <1>5

\* It loads the budget.
LEMMA FunderLoads ==
  ASSUME Funder!FundersAssumption, FunderInv, NEW r \in Requests, Funder!LoadBudget(r)
  PROVE  FunderInv'
  <1> DEFINE q == request[r]
             pc == IF q.donor # none THEN "relate" ELSE "write"
             record == [q EXCEPT !.seen = budget, !.pc = pc]
  <1>1. /\ record \in Funder!Request /\ record.pc = pc
        /\ record.op = q.op /\ record.donor = q.donor /\ record.name = q.name
        /\ since[r] \in SUBSET Donors /\ since = [since EXCEPT ![r] = since[r]]
        /\ pc \in {"relate", "write"}
    BY FunderTypes DEF FunderInv, Funder!Request, Funder!TypeOK
  <1>2. /\ Funder!Set(r, record) /\ UNCHANGED <<Funder!users, cache, budget, since>>
        /\ q.pc = "load"
    BY DEF Funder!LoadBudget
  <1> HIDE DEF record
  <1>3. request'[r] = record
    BY <1>1, <1>2, FunderMoves DEF FunderInv
  <1>4. FunderRequestOf(r)'
    <2>1. FunderRequestOf(r)
      BY DEF FunderInv
    <2> QED BY <1>1, <1>2, <1>3, <2>1 DEF FunderRequestOf, Funder!users
  <1>5. /\ budget' \in Funder!Budget /\ (budget.made => budget'.made)
        /\ cache' \in Seq(Funder!Entry) /\ Len(cache') =< CacheSize
    BY <1>2 DEF FunderInv, Funder!TypeOK
  <1> QED BY <1>1, <1>2, <1>4, <1>5, FunderStepOf

\* What the budget holds, before and after a request wrote.
LEMMA FunderBudgets ==
  ASSUME Funder!FundersAssumption, FunderInv, NEW r \in Requests,
         Funder!Insert(r) \/ Funder!Update(r)
  PROVE  /\ budget' \in Funder!Budget /\ (budget.made => budget'.made)
         /\ budget'.donor \in {budget.donor, request[r].donor}
         /\ budget' # budget /\ (budget.made => request[r].seen = budget)
              => budget'.donor # none \/ budget'.name = "text"
  <1> DEFINE q == request[r]
  <1>1. /\ budget.made \in BOOLEAN /\ budget.donor \in Donors \cup {none}
        /\ budget.name \in {"null", "empty", "text"} /\ budget \in Funder!Budget
        /\ budget = [made |-> budget.made, donor |-> budget.donor, name |-> budget.name]
    BY DEF FunderInv, Funder!TypeOK, Funder!Budget
  <1>2. /\ q.donor \in Donors \cup {none} /\ q.name \in {"unset", "empty", "text"}
        /\ q.seen \in Funder!Budget
    BY FunderTypes DEF FunderInv
  <1>3. /\ q.seen.donor \in Donors \cup {none} /\ q.seen.name \in {"null", "empty", "text"}
    BY <1>2 DEF Funder!Budget
  <1>4. q.pc = "write" /\ FunderRequestOf(r)
    BY DEF Funder!Insert, Funder!Update, FunderInv
  <1>5. CASE Funder!Insert(r)
    <2> DEFINE name == IF q.name = "unset" THEN "null" ELSE q.name
               new == [made |-> TRUE, donor |-> q.donor, name |-> name]
    <2>1. q.donor # none \/ q.name = "text"
      BY <1>4, <1>5 DEF FunderRequestOf, Funder!Insert
    <2>2. name \in {"null", "empty", "text"} /\ (q.name = "text" => name = "text")
      BY <1>2
    <2>3. new \in Funder!Budget /\ new.made /\ new.donor = q.donor /\ new.name = name
      BY <1>2, <2>2 DEF Funder!Budget
    <2>4. budget' = budget \/ budget' = new
      BY <1>5 DEF Funder!Insert
    <2> QED BY <1>1, <2>1, <2>2, <2>3, <2>4
  <1>6. CASE Funder!Update(r)
    <2> DEFINE donor == Funder!Written(q.seen.donor, q.donor, budget.donor)
               name == IF q.name = "unset" THEN budget.name
                       ELSE Funder!Written(q.seen.name, q.name, budget.name)
               new == [made |-> budget.made, donor |-> donor, name |-> name]
    <2>1. budget.made /\ (q.donor # none \/ q.name # "unset")
      BY <1>4, <1>6 DEF FunderRequestOf, Funder!Update
    <2>2. Funder!Updated(q) = new
      BY <1>1, <1>2 DEF Funder!Updated, Funder!Budget
    <2>3. /\ donor \in {budget.donor, q.donor} /\ donor \in Donors \cup {none}
          /\ name \in {"null", "empty", "text"}
          /\ q.seen = budget => donor = q.donor /\ (q.name # "unset" => name = q.name)
      BY <1>1, <1>2 DEF Funder!Written
    <2>4. /\ new \in Funder!Budget /\ new.made = budget.made /\ new.donor = donor
          /\ new.name = name
      BY <1>1, <2>3 DEF Funder!Budget
    <2> HIDE DEF donor, name, new
    <2>5. \/ budget' = budget
          \/ budget' = new /\ (Funder!Effective(q).donor # none \/ Funder!Effective(q).name = "text")
      BY <1>6, <2>2 DEF Funder!Update, Funder!Funded
    <2>6. Funder!Effective(q).donor # none \/ Funder!Effective(q).name = "text"
            => q.donor # none \/ q.name = "text"
      BY <2>1, <1>2 DEF Funder!Effective
    <2> QED BY <1>1, <1>2, <2>1, <2>3, <2>4, <2>5, <2>6
  <1> QED BY <1>5, <1>6

\* It writes.
LEMMA FunderWrites ==
  ASSUME Funder!FundersAssumption, FunderInv, NEW r \in Requests,
         Funder!Insert(r) \/ Funder!Update(r)
  PROVE  FunderInv'
  <1>1. /\ Funder!Retire(r) /\ UNCHANGED <<Funder!users, cache>>
    BY DEF Funder!Insert, Funder!Update
  <1>2. cache' \in Seq(Funder!Entry) /\ Len(cache') =< CacheSize
    BY <1>1 DEF FunderInv, Funder!TypeOK
  <1> QED BY <1>1, <1>2, FunderBudgets, FunderRetires

\* Every step keeps it.
LEMMA FunderInvStep ==
  ASSUME Funder!FundersAssumption, FunderInv, [Funder!Next]_(Funder!vars)
  PROVE  FunderInv'
  <1>1. ASSUME UNCHANGED Funder!vars PROVE FunderInv'
    <2>1. Funder!TypeOK'
      BY <1>1 DEF Funder!vars, Funder!users, FunderInv, Funder!TypeOK
    <2>2. \A r \in Requests : FunderRequestOf(r)'
      BY <1>1 DEF Funder!vars, Funder!users, FunderInv, FunderRequestOf
    <2> QED BY <2>1, <2>2 DEF FunderInv
  <1>2. ASSUME NEW r \in Requests,
               \/ Funder!BeginCreate(r) \/ Funder!BeginUpdate(r) \/ Funder!CanFund(r)
               \/ Funder!CanOwn(r) \/ Funder!LoadBudget(r) \/ Funder!Relate(r)
               \/ Funder!CallFails(r) \/ Funder!Insert(r) \/ Funder!Update(r)
        PROVE  FunderInv'
    BY <1>2, FunderBegins, FunderAsks, FunderLoads, FunderWrites
  <1> QED BY <1>1, <1>2, FunderUsersKeep DEF Funder!Next

\* A step that changes the budget is the write of one request, which is over then; the others
\* are where they were.
LEMMA FunderWriter ==
  ASSUME Funder!FundersAssumption, FunderInv, [Funder!Next]_(Funder!vars), budget' # budget
  PROVE  \E r \in Requests :
           /\ Funder!Insert(r) \/ Funder!Update(r)
           /\ request[r].pc = "write"
           /\ \A s \in Requests : s # r => request'[s] = request[s]
  <1>1. \E r \in Requests : Funder!Insert(r) \/ Funder!Update(r)
    BY DEF Funder!Next, Funder!vars, Funder!BeginApprove, Funder!Approve, Funder!Revoke,
           Funder!UpdateCompany, Funder!BeginCreate, Funder!BeginUpdate, Funder!CanFund,
           Funder!CanOwn, Funder!LoadBudget, Funder!Relate, Funder!CallFails
  <1>2. PICK r \in Requests : Funder!Insert(r) \/ Funder!Update(r)
    BY <1>1
  <1>3. request[r].pc = "write" /\ Funder!Set(r, Funder!Idle)
    BY <1>2 DEF Funder!Insert, Funder!Update, Funder!Retire
  <1>4. \A s \in Requests : s # r => request'[s] = request[s]
    BY <1>3, FunderMoves, FunderTypes DEF FunderInv
  <1> QED BY <1>2, <1>3, <1>4

\* A link is to a donor that was approved while the request that made it was under way.
LEMMA FunderLinkStep ==
  ASSUME Funder!FundersAssumption, FunderInv, [Funder!Next]_(Funder!vars)
  PROVE  Funder!LinkStep
  <1> SUFFICES ASSUME NEW d \in Donors, budget.donor # d, budget'.donor = d
               PROVE  \E r \in Requests :
                        request[r].pc = "write" /\ request[r].donor = d /\ d \in since[r]
    BY DEF Funder!LinkStep
  <1>1. PICK r \in Requests : (Funder!Insert(r) \/ Funder!Update(r)) /\ request[r].pc = "write"
    BY FunderWriter
  <1>2. request[r].donor = d
    BY <1>1, FunderBudgets
  <1>3. d # none
    BY DEF Funder!FundersAssumption, Funder!Customers
  <1>4. d \in since[r]
    BY <1>1, <1>2, <1>3 DEF FunderInv, FunderRequestOf
  <1> QED BY <1>1, <1>2, <1>4

\* A request that nobody overtook leaves a donor or a name.
LEMMA FunderFunderStep ==
  ASSUME Funder!FundersAssumption, FunderInv, [Funder!Next]_(Funder!vars)
  PROVE  Funder!FunderStep
  <1> SUFFICES ASSUME budget' # budget, NEW s \in Requests, request[s].pc = "write",
                      request'[s].pc = "idle", budget.made => request[s].seen = budget
               PROVE  Funder!Funded(budget'.donor, budget'.name)
    BY DEF Funder!FunderStep
  <1>1. PICK r \in Requests :
          /\ Funder!Insert(r) \/ Funder!Update(r)
          /\ \A t \in Requests : t # r => request'[t] = request[t]
    BY FunderWriter
  <1>2. s = r
    BY <1>1
  <1> QED BY <1>1, <1>2, FunderBudgets DEF Funder!Funded

-----------------------------------------------------------------------------
(* Budget lines and categories (BudgetLines).                              *)

\* What a request holds at each step, after n categories were inserted.
LineJob(q, n) ==
  /\ q.own => q.pc = "line" /\ q.id \in 1 .. n
  /\ q.pc \in {"find", "insert", "reread", "line", "rename"} => q.name \in Names
  /\ q.pc \in {"line", "rename", "delete"} => q.id \in Line!Categories

\* A category that was not committed yet has no row others see, and a number of its own.
LineOwnInv ==
  /\ \A c \in Line!Categories : c > nCategories => categories[c] = none
  /\ \A w \in Writers : writer[w].own => categories[writer[w].id] = none
  /\ \A v, w \in Writers : writer[v].own /\ writer[w].own /\ writer[v].id = writer[w].id => v = w

\* What an undisturbed request found is still there.
LineFoundOf(w) ==
  LET q == writer[w]
  IN  w \notin disturbed =>
        /\ q.pc = "reread" => Line!Called(q.name) # {}
        /\ q.pc = "line" /\ ~q.own => categories[q.id] = q.name

LineFoundInv == \A w \in Writers : LineFoundOf(w)

\* The inductive invariant.
LineTypes == Line!TypeOK /\ \A w \in Writers : LineJob(writer[w], nCategories)
LineIInv == LineTypes /\ LineOwnInv /\ LineFoundInv

\* The types hold at the start.
LEMMA LineTypesInit ==
  ASSUME Line!LinesAssumption, Line!Init
  PROVE  LineTypes
  BY DEF Line!LinesAssumption, Line!Init, LineTypes, Line!TypeOK, LineJob, Line!Writer,
         Line!Idle, Line!Categories, Line!LineIds

\* One request's record changes, and the tables keep their type.
LEMMA LineSetTypes ==
  ASSUME LineTypes, NEW w \in Writers, NEW q \in Line!Writer, Line!Set(w, q), LineJob(q, nCategories'),
         categories' \in [Line!Categories -> Names \cup {none}],
         nCategories' \in 0 .. MaxCategories, nCategories =< nCategories',
         filed' \in [Line!LineIds -> 0 .. MaxCategories \cup {none}],
         nLines' \in 0 .. MaxLines, disturbed' \subseteq Writers
  PROVE  LineTypes'
  <1>1. ASSUME NEW v \in Writers PROVE LineJob(writer'[v], nCategories')
    <2>1. CASE v = w
      BY <2>1 DEF Line!Set, LineTypes, Line!TypeOK
    <2>2. CASE v # w
      <3>1. LineJob(writer[v], nCategories) /\ writer'[v] = writer[v] /\ nCategories \in Nat
        BY <2>2 DEF Line!Set, LineTypes, Line!TypeOK
      <3> QED BY <3>1 DEF LineJob
    <2> QED BY <2>1, <2>2
  <1> QED BY <1>1 DEF Line!Set, LineTypes, Line!TypeOK

\* A request is the record of its fields, of their types.
LEMMA LineFields ==
  ASSUME LineTypes, NEW w \in Writers
  PROVE  /\ writer[w] \in Line!Writer /\ writer[w] = [pc |-> writer[w].pc, name |-> writer[w].name,
               was |-> writer[w].was, id |-> writer[w].id, own |-> writer[w].own]
         /\ writer[w].name \in Names \cup {none} /\ writer[w].was \in Names \cup {none}
         /\ writer[w].id \in 0 .. MaxCategories /\ writer[w].own \in BOOLEAN
         /\ LineJob(writer[w], nCategories)
  BY DEF LineTypes, Line!TypeOK, Line!Writer

\* The tables where only the request moves.
LEMMA LineStill ==
  ASSUME LineTypes, UNCHANGED Line!tables
  PROVE  /\ categories' \in [Line!Categories -> Names \cup {none}]
         /\ nCategories' \in 0 .. MaxCategories /\ nCategories =< nCategories'
         /\ filed' \in [Line!LineIds -> 0 .. MaxCategories \cup {none}] /\ nLines' \in 0 .. MaxLines
  BY DEF LineTypes, Line!TypeOK, Line!tables

\* A request that does nothing holds nothing.
LEMMA LineIdleType ==
  ASSUME Line!LinesAssumption
  PROVE  Line!Idle \in Line!Writer /\ \A n \in Nat : LineJob(Line!Idle, n)
  BY DEF Line!Idle, Line!Writer, LineJob, Line!LinesAssumption

\* Nor does one that was refused.
LEMMA LineRefusedType ==
  ASSUME Line!LinesAssumption
  PROVE  /\ [Line!Idle EXCEPT !.pc = "refused"] \in Line!Writer
         /\ \A n \in Nat : LineJob([Line!Idle EXCEPT !.pc = "refused"], n)
  <1> DEFINE q == [Line!Idle EXCEPT !.pc = "refused"]
  <1>1. 0 \in 0 .. MaxCategories
    BY DEF Line!LinesAssumption
  <1>2. q \in Line!Writer
    BY <1>1 DEF Line!Idle, Line!Writer
  <1>3. ~q.own /\ q.pc = "refused"
    BY DEF Line!Idle
  <1> HIDE DEF q
  <1>4. \A n \in Nat : LineJob(q, n)
    BY <1>3 DEF LineJob
  <1> QED BY <1>2, <1>4 DEF q

\* A request goes on to look for its category, or finds it.
LEMMA LineGotoTypes ==
  ASSUME Line!LinesAssumption, LineTypes, NEW w \in Writers, UNCHANGED <<Line!tables, disturbed>>,
         \/ Line!BeginAdd(w) \/ Line!FindCategory(w) \/ Line!RereadCategory(w) \/ Line!BeginRename(w) \/ Line!BeginDelete(w)
  PROVE  LineTypes'
  <1>0. /\ \A c \in Line!There : c \in 0 .. MaxCategories /\ c \in Line!Categories /\ categories[c] \in Names
        /\ \A n : Line!Called(n) \subseteq Line!There
        /\ nCategories \in Nat
    BY DEF LineTypes, Line!TypeOK, Line!There, Line!Called, Line!Categories, Line!LinesAssumption
  <1> SUFFICES \E q \in Line!Writer : Line!Set(w, q) /\ LineJob(q, nCategories)
    <2>1. disturbed' \subseteq Writers /\ nCategories' = nCategories
      BY DEF LineTypes, Line!TypeOK, Line!tables
    <2> QED BY <2>1, LineStill, LineSetTypes
  <1>1. CASE Line!BeginAdd(w)
    <2>1. CASE \E n \in Names : Line!Set(w, [Line!Idle EXCEPT !.pc = "find", !.name = n])
      <3>1. PICK n \in Names : Line!Set(w, [Line!Idle EXCEPT !.pc = "find", !.name = n])
        BY <2>1
      <3>2. [Line!Idle EXCEPT !.pc = "find", !.name = n] \in Line!Writer
        <4>1. 0 \in 0 .. MaxCategories
          BY DEF Line!LinesAssumption
        <4> QED BY <4>1 DEF Line!Idle, Line!Writer
      <3>3. LineJob([Line!Idle EXCEPT !.pc = "find", !.name = n], nCategories)
        BY DEF Line!Idle, LineJob
      <3> QED BY <3>1, <3>2, <3>3
    <2>2. CASE \E c \in Line!There :
                 Line!Set(w, [Line!Idle EXCEPT !.pc = "line", !.id = c, !.name = categories[c]])
      <3>1. PICK c \in Line!There : Line!Set(w, [Line!Idle EXCEPT !.pc = "line", !.id = c, !.name = categories[c]])
        BY <2>2
      <3>2. [Line!Idle EXCEPT !.pc = "line", !.id = c, !.name = categories[c]] \in Line!Writer
        BY <1>0 DEF Line!Idle, Line!Writer
      <3>3. LineJob([Line!Idle EXCEPT !.pc = "line", !.id = c, !.name = categories[c]], nCategories)
        BY <1>0 DEF Line!Idle, LineJob
      <3> QED BY <3>1, <3>2, <3>3
    <2> QED BY <1>1, <2>1, <2>2 DEF Line!BeginAdd
  <1>2. ASSUME writer[w].pc \in {"find", "reread"}, NEW c \in Line!There, Line!Goto(w, "line", c)
        PROVE  \E q \in Line!Writer : Line!Set(w, q) /\ LineJob(q, nCategories)
    <2>1. [writer[w] EXCEPT !.pc = "line", !.id = c] \in Line!Writer
      BY <1>0, LineFields DEF Line!Writer
    <2>2. writer[w].name \in Names /\ ~writer[w].own
      BY <1>2, LineFields DEF LineJob
    <2>3. LineJob([writer[w] EXCEPT !.pc = "line", !.id = c], nCategories)
      BY <1>0, <2>2, LineFields DEF LineJob
    <2> QED BY <1>2, <2>1, <2>3 DEF Line!Goto
  <1>3. CASE Line!FindCategory(w)
    <2>1. writer[w].name \in Names /\ ~writer[w].own
      BY <1>3, LineFields DEF Line!FindCategory, LineJob
    <2>2. [writer[w] EXCEPT !.pc = "insert", !.id = 0] \in Line!Writer
      <3>1. 0 \in 0 .. MaxCategories
        BY DEF Line!LinesAssumption
      <3> QED BY <3>1, LineFields DEF Line!Writer
    <2>3. LineJob([writer[w] EXCEPT !.pc = "insert", !.id = 0], nCategories)
      BY <2>1, LineFields DEF LineJob
    <2> QED BY <1>0, <1>2, <1>3, <2>2, <2>3 DEF Line!FindCategory, Line!Goto
  <1>4. CASE Line!RereadCategory(w)
    BY <1>0, <1>2, <1>4, LineRefusedType DEF Line!RereadCategory, Line!Refuse
  <1>5. CASE Line!BeginRename(w)
    <2>1. PICK c \in Line!There, n \in Names :
            Line!Set(w, [Line!Idle EXCEPT !.pc = "rename", !.id = c, !.was = categories[c], !.name = n])
      BY <1>5 DEF Line!BeginRename
    <2>2. [Line!Idle EXCEPT !.pc = "rename", !.id = c, !.was = categories[c], !.name = n] \in Line!Writer
      BY <1>0 DEF Line!Idle, Line!Writer
    <2>3. LineJob([Line!Idle EXCEPT !.pc = "rename", !.id = c, !.was = categories[c], !.name = n], nCategories)
      BY <1>0 DEF Line!Idle, LineJob
    <2> QED BY <2>1, <2>2, <2>3
  <1>6. CASE Line!BeginDelete(w)
    <2>1. PICK c \in Line!There : Line!Set(w, [Line!Idle EXCEPT !.pc = "delete", !.id = c, !.was = categories[c]])
      BY <1>6 DEF Line!BeginDelete
    <2>2. [Line!Idle EXCEPT !.pc = "delete", !.id = c, !.was = categories[c]] \in Line!Writer
      BY <1>0 DEF Line!Idle, Line!Writer
    <2>3. LineJob([Line!Idle EXCEPT !.pc = "delete", !.id = c, !.was = categories[c]], nCategories)
      BY <1>0 DEF Line!Idle, LineJob
    <2> QED BY <2>1, <2>2, <2>3
  <1> QED BY <1>1, <1>3, <1>4, <1>5, <1>6

\* Every step keeps the types.
LEMMA LineTypesStep ==
  ASSUME Line!LinesAssumption, LineTypes, [Line!Next]_(Line!vars)
  PROVE  LineTypes'
  <1>0. /\ categories \in [Line!Categories -> Names \cup {none}] /\ nCategories \in 0 .. MaxCategories
        /\ filed \in [Line!LineIds -> 0 .. MaxCategories \cup {none}] /\ nLines \in 0 .. MaxLines
        /\ disturbed \subseteq Writers /\ Line!Busy \subseteq Writers /\ MaxCategories \in Nat
        /\ MaxLines \in Nat
    BY DEF LineTypes, Line!TypeOK, Line!Busy, Line!LinesAssumption
  <1>1. ASSUME NEW w \in Writers, Line!BeginAdd(w) \/ Line!FindCategory(w) \/ Line!RereadCategory(w)
                                    \/ Line!BeginRename(w) \/ Line!BeginDelete(w)
        PROVE  LineTypes'
    <2>1. UNCHANGED <<Line!tables, disturbed>>
      BY <1>1 DEF Line!BeginAdd, Line!FindCategory, Line!RereadCategory, Line!BeginRename,
         Line!BeginDelete
    <2> QED BY <1>1, <2>1, LineGotoTypes
  <1>2. ASSUME NEW w \in Writers, Line!InsertCategory(w) PROVE LineTypes'
    <2>0. writer[w].pc = "insert" /\ writer[w].name \in Names /\ ~writer[w].own
      BY <1>2, LineFields DEF Line!InsertCategory, LineJob
    <2>1. CASE Line!Goto(w, "reread", 0) /\ UNCHANGED nCategories
      <3>1. [writer[w] EXCEPT !.pc = "reread", !.id = 0] \in Line!Writer
        <4>1. 0 \in 0 .. MaxCategories
          BY <1>0
        <4> QED BY <4>1, LineFields DEF Line!Writer
      <3>2. LineJob([writer[w] EXCEPT !.pc = "reread", !.id = 0], nCategories)
        BY <2>0, LineFields DEF LineJob
      <3>3. UNCHANGED <<categories, nCategories, filed, nLines, disturbed>>
        BY <1>2, <2>1 DEF Line!InsertCategory
      <3> QED BY <1>0, <2>1, <3>1, <3>2, <3>3, LineSetTypes DEF Line!Goto
    <2>2. CASE /\ nCategories < MaxCategories /\ nCategories' = nCategories + 1
               /\ Line!Set(w, [writer[w] EXCEPT !.pc = "line", !.id = nCategories + 1, !.own = TRUE])
      <3>0. /\ nCategories + 1 \in 0 .. MaxCategories /\ nCategories + 1 \in Line!Categories
            /\ nCategories + 1 \in 1 .. nCategories + 1 /\ nCategories =< nCategories + 1
        BY <1>0, <2>2 DEF Line!Categories
      <3>1. [writer[w] EXCEPT !.pc = "line", !.id = nCategories + 1, !.own = TRUE] \in Line!Writer
        BY <3>0, LineFields DEF Line!Writer
      <3>2. LineJob([writer[w] EXCEPT !.pc = "line", !.id = nCategories + 1, !.own = TRUE], nCategories')
        BY <2>0, <2>2, <3>0, LineFields DEF LineJob
      <3>3. UNCHANGED <<categories, filed, nLines, disturbed>>
        BY <1>2 DEF Line!InsertCategory
      <3> QED BY <1>0, <2>2, <3>0, <3>1, <3>2, <3>3, LineSetTypes
    <2> QED BY <1>2, <2>1, <2>2 DEF Line!InsertCategory
  <1>3. ASSUME NEW w \in Writers, Line!AddLine(w) PROVE LineTypes'
    <2>0. /\ writer[w].pc = "line" /\ writer[w].name \in Names /\ writer[w].id \in 0 .. MaxCategories
          /\ UNCHANGED nCategories
      BY <1>3, LineFields DEF Line!AddLine, LineJob
    <2>1. CASE Line!Retire(w) /\ nLines < MaxLines
      <3>1. /\ nLines' = nLines + 1 /\ filed' = [filed EXCEPT ![nLines + 1] = writer[w].id]
            /\ categories' = IF writer[w].own THEN [categories EXCEPT ![writer[w].id] = writer[w].name]
                             ELSE categories
        <4>1. ~Line!Refuse(w)
          <5>1. Line!Idle # [Line!Idle EXCEPT !.pc = "refused"]
            BY DEF Line!Idle
          <5> QED BY <2>1, <5>1 DEF Line!Retire, Line!Refuse, Line!Set, LineTypes, Line!TypeOK
        <4> QED BY <1>3, <4>1 DEF Line!AddLine
      <3>2. /\ categories' \in [Line!Categories -> Names \cup {none}] /\ nLines' \in 0 .. MaxLines
            /\ filed' \in [Line!LineIds -> 0 .. MaxCategories \cup {none}]
        <4>1. nLines + 1 \in Line!LineIds /\ nLines' \in 0 .. MaxLines
          BY <1>0, <2>1, <3>1 DEF Line!LineIds
        <4>2. filed' \in [Line!LineIds -> 0 .. MaxCategories \cup {none}]
          BY <1>0, <2>0, <3>1, <4>1
        <4>3. categories' \in [Line!Categories -> Names \cup {none}]
          BY <1>0, <2>0, <3>1
        <4> QED BY <4>1, <4>2, <4>3
      <3> QED BY <1>0, <2>0, <2>1, <3>2, LineIdleType, LineSetTypes DEF Line!Retire
    <2>2. CASE Line!Refuse(w) /\ UNCHANGED <<categories, filed, nLines, disturbed>>
      BY <1>0, <2>0, <2>2, LineRefusedType, LineSetTypes DEF Line!Refuse
    <2> QED BY <1>3, <2>1, <2>2 DEF Line!AddLine
  <1>4. ASSUME NEW w \in Writers, Line!Answer(w) PROVE LineTypes'
    BY <1>0, <1>4, LineIdleType, LineSetTypes, LineStill DEF Line!Answer, Line!Retire, Line!tables
  <1>5. ASSUME NEW w \in Writers, Line!Rename(w) PROVE LineTypes'
    <2>1. writer[w].name \in Names
      BY <1>5, LineFields DEF Line!Rename, LineJob
    <2>2. /\ categories' \in [Line!Categories -> Names \cup {none}] /\ disturbed' \subseteq Writers
          /\ Line!Set(w, Line!Idle) /\ UNCHANGED <<nCategories, filed, nLines>>
      BY <1>0, <1>5, <2>1 DEF Line!Rename
    <2> QED BY <1>0, <2>2, LineIdleType, LineSetTypes
  <1>6. ASSUME NEW w \in Writers, Line!Delete(w) PROVE LineTypes'
    <2>1. /\ categories' \in [Line!Categories -> Names \cup {none}] /\ disturbed' \subseteq Writers
          /\ filed' \in [Line!LineIds -> 0 .. MaxCategories \cup {none}]
          /\ Line!Set(w, Line!Idle) /\ UNCHANGED <<nCategories, nLines>>
      <3>1. 0 \in 0 .. MaxCategories
        BY <1>0
      <3>2. /\ filed' = [l \in Line!LineIds |-> IF filed[l] = writer[w].id THEN 0 ELSE filed[l]]
            /\ categories' = [categories EXCEPT ![writer[w].id] = none]
            /\ disturbed' = (disturbed \cup Line!Busy) \ {w}
            /\ Line!Set(w, Line!Idle) /\ UNCHANGED <<nCategories, nLines>>
        BY <1>6 DEF Line!Delete
      <3>3. filed' \in [Line!LineIds -> 0 .. MaxCategories \cup {none}]
        BY <1>0, <3>1, <3>2
      <3> QED BY <1>0, <3>2, <3>3
    <2> QED BY <1>0, <2>1, LineIdleType, LineSetTypes
  <1>7. ASSUME NEW l \in Line!LineIds, Line!DeleteLine(l) PROVE LineTypes'
    BY <1>0, <1>7 DEF Line!DeleteLine, LineTypes, Line!TypeOK
  <1>8. CASE UNCHANGED Line!vars
    BY <1>8 DEF Line!vars, Line!tables, LineTypes, Line!TypeOK
  <1> QED BY <1>1, <1>2, <1>3, <1>4, <1>5, <1>6, <1>7, <1>8 DEF Line!Next

\* All the requests do.
LineAct(w) ==
  \/ Line!BeginAdd(w) \/ Line!FindCategory(w) \/ Line!InsertCategory(w) \/ Line!RereadCategory(w) \/ Line!AddLine(w)
  \/ Line!Answer(w) \/ Line!BeginRename(w) \/ Line!BeginDelete(w) \/ Line!Rename(w) \/ Line!Delete(w)

\* A request changes no other.
LEMMA LineActOthers ==
  ASSUME LineTypes, NEW w \in Writers, LineAct(w)
  PROVE  \A v \in Writers \ {w} : writer'[v] = writer[v]
  BY DEF LineAct, Line!BeginAdd, Line!FindCategory, Line!InsertCategory, Line!RereadCategory,
     Line!AddLine, Line!Answer, Line!BeginRename,
         Line!BeginDelete, Line!Rename, Line!Delete, Line!Set, Line!Goto, Line!Refuse, Line!Retire, LineTypes, Line!TypeOK

\* A request has a category of its own from its insert to its end.
LEMMA LineOwnsAfterInsert ==
  ASSUME LineTypes, NEW w \in Writers, LineAct(w), writer'[w].own
  PROVE  /\ Line!InsertCategory(w) /\ UNCHANGED categories /\ nCategories' = nCategories + 1
         /\ nCategories < MaxCategories /\ writer'[w].id = nCategories + 1
  <1>0. /\ writer \in [Writers -> Line!Writer] /\ (writer[w].own => writer[w].pc = "line")
        /\ ~Line!Idle.own
    BY LineFields DEF LineTypes, Line!TypeOK, LineJob, Line!Idle
  <1>1. \A q : Line!Set(w, q) => writer'[w] = q
    BY <1>0 DEF Line!Set
  <1>2. ~Line!BeginAdd(w) /\ ~Line!BeginRename(w) /\ ~Line!BeginDelete(w)
    BY <1>1 DEF Line!BeginAdd, Line!BeginRename, Line!BeginDelete, Line!Idle
  <1>3. ~Line!Rename(w) /\ ~Line!Delete(w) /\ ~Line!Answer(w) /\ ~Line!AddLine(w)
    BY <1>0, <1>1 DEF Line!Rename, Line!Delete, Line!Answer, Line!AddLine, Line!Retire,
       Line!Refuse, Line!Idle
  <1>4. ~Line!FindCategory(w) /\ ~Line!RereadCategory(w)
    <2>1. writer[w] \in Line!Writer
      BY <1>0
    <2>2. \A pc, id : Line!Goto(w, pc, id) => writer'[w].own = writer[w].own
      BY <1>1, <2>1 DEF Line!Goto, Line!Writer
    <2> QED BY <1>0, <1>1, <2>2 DEF Line!FindCategory, Line!RereadCategory, Line!Refuse, Line!Idle
  <1>5. Line!InsertCategory(w)
    BY <1>2, <1>3, <1>4 DEF LineAct
  <1>6. ~Line!Goto(w, "reread", 0)
    <2>1. writer[w] \in Line!Writer /\ ~writer[w].own
      BY <1>0, <1>5 DEF Line!InsertCategory
    <2> QED BY <1>1, <2>1 DEF Line!Goto, Line!Writer
  <1>7. /\ nCategories < MaxCategories /\ nCategories' = nCategories + 1 /\ UNCHANGED categories
        /\ Line!Set(w, [writer[w] EXCEPT !.pc = "line", !.id = nCategories + 1, !.own = TRUE])
    BY <1>5, <1>6 DEF Line!InsertCategory
  <1>8. writer'[w].id = nCategories + 1
    <2>1. writer[w] \in Line!Writer
      BY <1>0
    <2> QED BY <1>1, <1>7, <2>1 DEF Line!Writer
  <1> QED BY <1>5, <1>7, <1>8

\* What becomes of the categories: one of the request's own appears, one is renamed,
\* or one goes.
LEMMA LineCategoriesStep ==
  ASSUME LineTypes, NEW w \in Writers, LineAct(w), categories' # categories
  PROVE  /\ UNCHANGED nCategories
         /\ \/ /\ Line!AddLine(w) /\ writer[w].own
               /\ categories' = [categories EXCEPT ![writer[w].id] = writer[w].name]
            \/ /\ Line!Rename(w) /\ Line!Busy \ {w} \subseteq disturbed' /\ writer[w].id \in Line!There
               /\ categories' = [categories EXCEPT ![writer[w].id] = writer[w].name]
            \/ /\ Line!Delete(w) /\ Line!Busy \ {w} \subseteq disturbed'
               /\ categories' = [categories EXCEPT ![writer[w].id] = none]
  <1>1. Line!AddLine(w) \/ Line!Rename(w) \/ Line!Delete(w)
    BY DEF LineAct, Line!BeginAdd, Line!FindCategory, Line!InsertCategory, Line!RereadCategory,
       Line!Answer, Line!BeginRename,
           Line!BeginDelete, Line!tables
  <1>2. CASE Line!AddLine(w)
    BY <1>2 DEF Line!AddLine
  <1>3. CASE Line!Rename(w)
    BY <1>3 DEF Line!Rename
  <1>4. CASE Line!Delete(w)
    BY <1>4 DEF Line!Delete
  <1> QED BY <1>1, <1>2, <1>3, <1>4

\* Every step keeps categories that were not committed to their request.
LEMMA LineOwnStep ==
  ASSUME Line!LinesAssumption, LineTypes, LineOwnInv, [Line!Next]_(Line!vars)
  PROVE  LineOwnInv'
  <1>0. /\ nCategories \in Nat /\ Line!Categories \subseteq Nat /\ none \notin Names
        /\ categories \in [Line!Categories -> Names \cup {none}]
    BY DEF LineTypes, Line!TypeOK, Line!Categories, Line!LinesAssumption
  <1>1. ASSUME NEW w \in Writers, LineAct(w), writer'[w].own PROVE LineOwnInv'
    <2>1. /\ UNCHANGED categories /\ nCategories' = nCategories + 1 /\ nCategories + 1 \in Line!Categories
          /\ writer'[w].id = nCategories + 1 /\ \A v \in Writers \ {w} : writer'[v] = writer[v]
      BY <1>0, <1>1, LineActOthers, LineOwnsAfterInsert DEF Line!Categories, Line!LinesAssumption
    <2>2. \A v \in Writers : writer[v].own => writer[v].id \in Nat /\ writer[v].id =< nCategories
      <3>1. \A v \in Writers : writer[v].own => writer[v].id \in 1 .. nCategories
        BY LineFields DEF LineJob
      <3> QED BY <1>0, <3>1
    <2>3. \A v \in Writers \ {w} : writer[v].own => writer[v].id # nCategories + 1
      BY <1>0, <2>2
    <2>4. categories[nCategories + 1] = none
      BY <1>0, <2>1 DEF LineOwnInv
    <2>5. \A c \in Line!Categories : c > nCategories' => categories'[c] = none
      BY <1>0, <2>1 DEF LineOwnInv
    <2>6. \A v \in Writers : writer'[v].own => categories'[writer'[v].id] = none
      BY <2>1, <2>4 DEF LineOwnInv
    <2>7. \A u, v \in Writers : writer'[u].own /\ writer'[v].own /\ writer'[u].id = writer'[v].id => u = v
      BY <2>1, <2>3 DEF LineOwnInv
    <2> QED BY <2>5, <2>6, <2>7 DEF LineOwnInv
  <1>2. ASSUME NEW w \in Writers, LineAct(w), ~writer'[w].own,
               nCategories' = nCategories,
               \A c \in Line!Categories : c > nCategories => categories'[c] = none,
               \A v \in Writers \ {w} : writer[v].own => categories'[writer[v].id] = none
        PROVE  LineOwnInv'
    <2>1. \A v \in Writers \ {w} : writer'[v] = writer[v]
      BY <1>2, LineActOthers
    <2> QED BY <1>2, <2>1 DEF LineOwnInv
  <1>3. ASSUME NEW w \in Writers, LineAct(w), ~writer'[w].own PROVE LineOwnInv'
    <2>0. UNCHANGED nCategories
      <3>1. CASE Line!InsertCategory(w)
        <4>1. Line!Set(w, [writer[w] EXCEPT !.pc = "line", !.id = nCategories + 1, !.own = TRUE])
                => writer'[w].own
          <5>1. writer[w] \in Line!Writer /\ writer \in [Writers -> Line!Writer]
            BY DEF LineTypes, Line!TypeOK
          <5> QED BY <5>1 DEF Line!Set, Line!Writer
        <4> QED BY <1>3, <3>1, <4>1 DEF Line!InsertCategory
      <3>2. CASE ~Line!InsertCategory(w)
        BY <1>3, <3>2 DEF LineAct, Line!BeginAdd, Line!FindCategory, Line!RereadCategory,
           Line!AddLine, Line!Answer, Line!BeginRename,
                          Line!BeginDelete, Line!Rename, Line!Delete, Line!tables
      <3> QED BY <3>1, <3>2
    <2>1. CASE UNCHANGED categories
      BY <1>2, <1>3, <2>0, <2>1 DEF LineOwnInv
    <2>2. CASE writer[w].own /\ categories' = [categories EXCEPT ![writer[w].id] = writer[w].name]
      <3>1. writer[w].id \in 1 .. nCategories
        BY <2>2, LineFields DEF LineJob
      <3>2. \A c \in Line!Categories : c > nCategories => categories'[c] = none
        BY <1>0, <2>2, <3>1 DEF LineOwnInv
      <3>3. \A v \in Writers \ {w} : writer[v].own => categories'[writer[v].id] = none
        <4>1. ASSUME NEW v \in Writers \ {w}, writer[v].own PROVE categories'[writer[v].id] = none
          <5>1. writer[v].id # writer[w].id /\ categories[writer[v].id] = none
            BY <2>2, <4>1 DEF LineOwnInv
          <5>2. writer[v].id \in Line!Categories
            BY <4>1, LineFields DEF LineJob
          <5> QED BY <1>0, <2>2, <5>1, <5>2
        <4> QED BY <4>1
      <3> QED BY <1>2, <1>3, <2>0, <3>2, <3>3
    <2>3. CASE /\ writer[w].id \in Line!There \/ categories' = [categories EXCEPT ![writer[w].id] = none]
               /\ \E n : categories' = [categories EXCEPT ![writer[w].id] = n]
      <3>1. \A c \in Line!Categories : categories[c] = none => categories'[c] = none
        BY <1>0, <2>3 DEF Line!There
      <3>2. \A v \in Writers : writer[v].own => writer[v].id \in Line!Categories
        BY LineFields DEF LineJob
      <3>3. /\ \A c \in Line!Categories : c > nCategories => categories'[c] = none
            /\ \A v \in Writers \ {w} : writer[v].own => categories'[writer[v].id] = none
        BY <3>1, <3>2 DEF LineOwnInv
      <3> QED BY <1>2, <1>3, <2>0, <3>3
    <2> QED BY <1>3, <2>1, <2>2, <2>3, LineCategoriesStep
  <1>4. ASSUME UNCHANGED <<categories, nCategories, writer>> PROVE LineOwnInv'
    BY <1>4 DEF LineOwnInv
  <1>5. \A l : Line!DeleteLine(l) => UNCHANGED <<categories, nCategories, writer>>
    BY DEF Line!DeleteLine
  <1> QED BY <1>1, <1>3, <1>4, <1>5 DEF Line!Next, LineAct, Line!vars, Line!tables

\* What the others found is there still, or they were disturbed.
LEMMA LineFoundOthers ==
  ASSUME Line!LinesAssumption, LineTypes, LineOwnInv, LineFoundInv, NEW w \in Writers, LineAct(w),
         NEW v \in Writers \ {w}
  PROVE  LineFoundOf(v)'
  <1> SUFFICES ASSUME v \notin disturbed', writer[v].pc \in {"reread", "line"} PROVE LineFoundOf(v)'
    <2>1. writer'[v] = writer[v]
      BY LineActOthers
    <2> QED BY <2>1 DEF LineFoundOf
  <1>0. /\ categories \in [Line!Categories -> Names \cup {none}] /\ none \notin Names
        /\ writer'[v] = writer[v] /\ v \in Line!Busy /\ writer[v].name \in Names
        /\ (writer[v].pc = "line" => writer[v].id \in Line!Categories)
    BY LineFields, LineActOthers DEF LineTypes, Line!TypeOK, Line!LinesAssumption, Line!Busy,
       LineJob
  <1>1. v \notin disturbed
    BY DEF LineAct, Line!BeginAdd, Line!FindCategory, Line!InsertCategory, Line!RereadCategory,
       Line!AddLine, Line!Answer,
           Line!BeginRename, Line!BeginDelete, Line!Rename, Line!Delete, Line!Retire, Line!Refuse
  <1>2. /\ writer[v].pc = "reread" => Line!Called(writer[v].name) # {}
        /\ writer[v].pc = "line" /\ ~writer[v].own => categories[writer[v].id] = writer[v].name
    BY <1>1 DEF LineFoundInv, LineFoundOf
  <1>3. CASE UNCHANGED categories
    BY <1>0, <1>2, <1>3 DEF LineFoundOf, Line!Called, Line!There
  <1>4. CASE writer[w].own /\ categories' = [categories EXCEPT ![writer[w].id] = writer[w].name]
    <2>1. categories[writer[w].id] = none
      BY <1>4 DEF LineOwnInv
    <2>2. \A c \in Line!There : categories'[c] = categories[c]
      BY <1>0, <1>4, <2>1 DEF Line!There
    <2>3. \A n : Line!Called(n) \subseteq Line!Called(n)'
      BY <2>2 DEF Line!Called, Line!There
    <2>4. writer[v].pc = "line" /\ ~writer[v].own => categories'[writer[v].id] = writer[v].name
      BY <1>0, <1>2, <2>2 DEF Line!There
    <2> QED BY <1>0, <1>2, <2>3, <2>4 DEF LineFoundOf
  <1> QED BY <1>0, <1>3, <1>4, LineCategoriesStep

\* What a request finds is there after its own step.
LEMMA LineFoundSelf ==
  ASSUME Line!LinesAssumption, LineTypes, LineFoundInv, NEW w \in Writers, LineAct(w)
  PROVE  LineFoundOf(w)'
  <1>0. writer \in [Writers -> Line!Writer] /\ writer[w] \in Line!Writer
    BY DEF LineTypes, Line!TypeOK
  <1>1. \A q : Line!Set(w, q) => writer'[w] = q
    BY <1>0 DEF Line!Set
  <1>2. \A c \in Line!Called(writer[w].name) : c \in Line!Categories /\ categories[c] = writer[w].name
    BY DEF Line!Called, Line!There
  <1>3. \A pc, id : Line!Goto(w, pc, id) =>
          writer'[w].pc = pc /\ writer'[w].id = id /\ writer'[w].name = writer[w].name
    BY <1>0, <1>1 DEF Line!Goto, Line!Writer
  <1>4. CASE Line!BeginAdd(w)
    <2>1. UNCHANGED categories
      BY <1>4 DEF Line!BeginAdd, Line!tables
    <2>2. writer'[w].pc # "reread"
      BY <1>1, <1>4 DEF Line!BeginAdd, Line!Idle
    <2>3. writer'[w].pc = "line" => categories[writer'[w].id] = writer'[w].name
      BY <1>1, <1>4 DEF Line!BeginAdd, Line!Idle
    <2> QED BY <2>1, <2>2, <2>3 DEF LineFoundOf
  <1>5. CASE Line!FindCategory(w) \/ Line!RereadCategory(w)
    <2>1. UNCHANGED categories
      BY <1>5 DEF Line!FindCategory, Line!RereadCategory, Line!tables
    <2>2. writer'[w].pc # "reread"
      BY <1>1, <1>3, <1>5 DEF Line!FindCategory, Line!RereadCategory, Line!Refuse, Line!Idle
    <2>3. writer'[w].pc = "line" => categories[writer'[w].id] = writer'[w].name
      BY <1>1, <1>2, <1>3, <1>5 DEF Line!FindCategory, Line!RereadCategory, Line!Refuse, Line!Idle
    <2> QED BY <2>1, <2>2, <2>3 DEF LineFoundOf
  <1>6. CASE Line!InsertCategory(w)
    <2>1. UNCHANGED categories
      BY <1>6 DEF Line!InsertCategory
    <2>2. CASE Line!Called(writer[w].name) # {} /\ Line!Goto(w, "reread", 0)
      <3>1. writer'[w].pc = "reread" /\ writer'[w].name = writer[w].name
        BY <1>3, <2>2
      <3> QED BY <2>1, <2>2, <3>1 DEF LineFoundOf, Line!Called, Line!There
    <2>3. CASE Line!Set(w, [writer[w] EXCEPT !.pc = "line", !.id = nCategories + 1, !.own = TRUE])
      <3>1. writer'[w].pc = "line" /\ writer'[w].own
        BY <1>0, <1>1, <2>3 DEF Line!Writer
      <3> QED BY <3>1 DEF LineFoundOf
    <2> QED BY <1>6, <2>2, <2>3 DEF Line!InsertCategory
  <1>7. CASE Line!AddLine(w) \/ Line!Answer(w) \/ Line!Rename(w) \/ Line!Delete(w)
    <2>1. writer'[w].pc \in {"idle", "refused"}
      BY <1>1, <1>7 DEF Line!AddLine, Line!Answer, Line!Rename, Line!Delete, Line!Retire,
         Line!Refuse, Line!Idle
    <2> QED BY <2>1 DEF LineFoundOf
  <1>8. CASE Line!BeginRename(w) \/ Line!BeginDelete(w)
    <2>1. writer'[w].pc \in {"rename", "delete"}
      BY <1>1, <1>8 DEF Line!BeginRename, Line!BeginDelete, Line!Idle
    <2> QED BY <2>1 DEF LineFoundOf
  <1> QED BY <1>4, <1>5, <1>6, <1>7, <1>8 DEF LineAct

\* The invariant is inductive.
LEMMA LineInvStep ==
  ASSUME Line!LinesAssumption, LineIInv, [Line!Next]_(Line!vars)
  PROVE  LineIInv'
  <1>1. LineTypes' /\ LineOwnInv'
    BY LineTypesStep, LineOwnStep DEF LineIInv
  <1>2. LineFoundInv'
    <2>1. ASSUME NEW w \in Writers, LineAct(w) PROVE LineFoundInv'
      BY <2>1, LineFoundOthers, LineFoundSelf DEF LineIInv, LineFoundInv
    <2>2. ASSUME UNCHANGED <<categories, writer, disturbed>> PROVE LineFoundInv'
      BY <2>2 DEF LineIInv, LineFoundInv, LineFoundOf, Line!Called, Line!There
    <2>3. \A l : Line!DeleteLine(l) => UNCHANGED <<categories, writer, disturbed>>
      BY DEF Line!DeleteLine
    <2> QED BY <2>1, <2>2, <2>3 DEF Line!Next, LineAct, Line!vars, Line!tables
  <1> QED BY <1>1, <1>2 DEF LineIInv

\* It holds at the start.
LEMMA LineInvInit ==
  ASSUME Line!LinesAssumption, Line!Init
  PROVE  LineIInv
  <1>1. LineOwnInv /\ LineFoundInv
    BY DEF Line!Init, LineOwnInv, LineFoundInv, LineFoundOf, Line!Idle
  <1> QED BY <1>1, LineTypesInit DEF LineIInv

\* No request that nobody disturbed is refused.
LEMMA LineNobodyRefused ==
  ASSUME Line!LinesAssumption, LineIInv, [Line!Next]_(Line!vars)
  PROVE  Line!RaceStep
  <1> SUFFICES ASSUME NEW w \in Writers, writer'[w].pc = "refused", writer[w].pc # "refused",
                      w \notin disturbed
               PROVE  FALSE
    BY DEF Line!RaceStep
  <1>0. writer \in [Writers -> Line!Writer] /\ writer[w] \in Line!Writer
    BY DEF LineIInv, LineTypes, Line!TypeOK
  <1>1. LineAct(w)
    <2>1. ASSUME NEW v \in Writers, LineAct(v) PROVE v = w
      BY <2>1, LineActOthers DEF LineIInv
    <2>2. \A l : ~Line!DeleteLine(l)
      BY DEF Line!DeleteLine
    <2>3. ~UNCHANGED Line!vars
      BY DEF Line!vars
    <2> QED BY <2>1, <2>2, <2>3 DEF Line!Next, LineAct
  <1>2. \A q : Line!Set(w, q) => writer'[w] = q
    BY <1>0 DEF Line!Set
  <1>3. \A pc, id : Line!Goto(w, pc, id) => pc = "refused"
    BY <1>0, <1>2 DEF Line!Goto, Line!Writer
  <1>4. Line!RereadCategory(w) \/ Line!AddLine(w)
    <2>1. ~Line!BeginAdd(w) /\ ~Line!BeginRename(w) /\ ~Line!BeginDelete(w)
      BY <1>2 DEF Line!BeginAdd, Line!BeginRename, Line!BeginDelete, Line!Idle
    <2>2. ~Line!FindCategory(w) /\ ~Line!Answer(w) /\ ~Line!Rename(w) /\ ~Line!Delete(w)
      BY <1>2, <1>3 DEF Line!FindCategory, Line!Answer, Line!Rename, Line!Delete, Line!Retire,
         Line!Idle
    <2>3. ~Line!InsertCategory(w)
      BY <1>0, <1>2, <1>3 DEF Line!InsertCategory, Line!Writer
    <2> QED BY <1>1, <2>1, <2>2, <2>3 DEF LineAct
  <1>5. LineFoundOf(w) /\ LineJob(writer[w], nCategories)
    BY LineFields DEF LineIInv, LineFoundInv
  <1>6. CASE Line!RereadCategory(w)
    BY <1>3, <1>5, <1>6 DEF Line!RereadCategory, LineFoundOf
  <1>7. CASE Line!AddLine(w)
    <2>1. writer[w].pc = "line" /\ ~Line!Retire(w)
      BY <1>2, <1>7 DEF Line!AddLine, Line!Retire, Line!Idle
    <2>2. ~writer[w].own /\ writer[w].id \notin Line!There
      BY <1>7, <2>1 DEF Line!AddLine
    <2>3. categories[writer[w].id] = writer[w].name /\ writer[w].name \in Names
          /\ writer[w].id \in Line!Categories
      BY <1>5, <2>1, <2>2 DEF LineFoundOf, LineJob
    <2> QED BY <2>2, <2>3 DEF Line!There, Line!LinesAssumption
  <1> QED BY <1>4, <1>6, <1>7

\* A line is filed under the name its request gave.
LEMMA LineFiledAsAsked ==
  ASSUME Line!LinesAssumption, LineIInv, [Line!Next]_(Line!vars)
  PROVE  Line!FiledStep
  <1> SUFFICES ASSUME NEW l \in Line!LineIds, filed[l] = none, filed'[l] # none
               PROVE  \E w \in Writers : writer[w].pc = "line"
                        /\ (categories'[filed'[l]] = writer[w].name \/ w \in disturbed)
    BY DEF Line!FiledStep
  <1>0. /\ filed \in [Line!LineIds -> 0 .. MaxCategories \cup {none}] /\ none \notin 0 .. MaxCategories
        /\ categories \in [Line!Categories -> Names \cup {none}]
    BY DEF LineIInv, LineTypes, Line!TypeOK, Line!LinesAssumption
  <1>1. \A k \in Line!LineIds : ~Line!DeleteLine(k)
    BY <1>0 DEF Line!DeleteLine
  <1>2. PICK w \in Writers : LineAct(w)
    BY <1>1 DEF Line!Next, LineAct, Line!vars, Line!tables
  <1>3. ~Line!Delete(w)
    <2>1. writer[w].id # none
      BY <1>0, LineFields DEF LineIInv
    <2> QED BY <2>1 DEF Line!Delete
  <1>4. Line!AddLine(w)
    BY <1>2, <1>3 DEF LineAct, Line!BeginAdd, Line!FindCategory, Line!InsertCategory,
       Line!RereadCategory, Line!Answer,
                      Line!BeginRename, Line!BeginDelete, Line!Rename, Line!tables
  <1>5. /\ writer[w].pc = "line" /\ filed' = [filed EXCEPT ![nLines + 1] = writer[w].id]
        /\ categories' = IF writer[w].own THEN [categories EXCEPT ![writer[w].id] = writer[w].name]
                         ELSE categories
    BY <1>4 DEF Line!AddLine
  <1>6. filed'[l] = writer[w].id
    BY <1>0, <1>5
  <1>7. writer[w].id \in Line!Categories
    BY <1>5, LineFields DEF LineIInv, LineJob
  <1>8. ~writer[w].own /\ w \notin disturbed => categories[writer[w].id] = writer[w].name
    BY <1>5 DEF LineIInv, LineFoundInv, LineFoundOf
  <1> QED BY <1>0, <1>5, <1>6, <1>7, <1>8


-----------------------------------------------------------------------------
(* Attachments and bug reports (Attachments).                              *)

\* An upload: its file is there from when it is saved; a row stands for an upload that is
\* over and a file that is there, or that the deletion of its line took.
FileUploadOf(u) ==
  /\ upload[u].pc = "new" => rows[u] = none
  /\ upload[u].pc = "saved" => rows[u] = none /\ u \in blobs
  /\ rows[u] # none => u \in blobs \cup doomed

\* A deletion of an attachment that was listed once, of one whose row is gone, of a line.
FileDeleterOf(d) ==
  /\ deleter[d].pc \in {"row", "blob"} => deleter[d].of \in Uploads /\ upload[deleter[d].of].pc = "over"
  /\ deleter[d].pc = "blob" => rows[deleter[d].of] = none
  /\ deleter[d].pc \in {"list", "line"} => deleter[d].of \in Lines

\* A bug report that is announced, or is about to be, is stored, with its screenshot.
FileBugOf(b) ==
  /\ bug[b] \in {"committed", "queued"} => b \in stored
  /\ b \in posted => b \in stored
  /\ b \in shown => b \in blobs

\* The inductive invariant.
FileInv ==
  /\ File!TypeOK
  /\ \A u \in Uploads : FileUploadOf(u)
  /\ \A d \in Deleters : FileDeleterOf(d)
  /\ \A b \in BugReports : FileBugOf(b)

\* It holds at the start.
LEMMA FileInvInit ==
  ASSUME File!AttachmentsAssumption, File!Init
  PROVE  FileInv
  <1>1. File!TypeOK
    BY DEF File!AttachmentsAssumption, File!Init, File!TypeOK, File!Deleter, File!Idle
  <1>2. (\A u \in Uploads : FileUploadOf(u)) /\ (\A b \in BugReports : FileBugOf(b))
    BY DEF File!Init, FileUploadOf, FileBugOf
  <1>3. \A d \in Deleters : FileDeleterOf(d)
    BY DEF File!Init, FileDeleterOf, File!Idle
  <1> QED BY <1>1, <1>2, <1>3 DEF FileInv

\* What a record of a deletion, of an upload and of the counters can hold.
LEMMA FileTypes ==
  ASSUME File!AttachmentsAssumption, File!TypeOK
  PROVE  /\ none \notin Lines /\ none \notin Uploads /\ \A u \in Uploads : u \notin BugReports
         /\ \A d \in Deleters : /\ deleter[d].of \in Uploads \cup Lines \cup {none}
                                /\ deleter[d].listed \subseteq Uploads
         /\ \A u \in Uploads : /\ upload[u].pc \in {"new", "saved", "over"}
                               /\ upload[u].line \in Lines \cup {none}
                               /\ rows[u] \in Lines \cup {none}
         /\ MaxFaults \in Nat /\ MaxTries \in Nat
         /\ File!Idle \in File!Deleter /\ File!Idle.pc = "idle"
  BY DEF File!AttachmentsAssumption, File!TypeOK, File!Deleter, File!Idle

\* A failure is counted within its bound.
LEMMA FileFaults ==
  ASSUME File!AttachmentsAssumption, File!TypeOK, File!Fault \/ File!NoFault
  PROVE  faults' \in 0 .. MaxFaults
  BY DEF File!AttachmentsAssumption, File!TypeOK, File!Fault, File!NoFault

\* Rows that go leave the others as they are.
LEMMA FileWithout ==
  ASSUME File!TypeOK, NEW us, rows' = File!Without(us)
  PROVE  /\ rows' \in [Uploads -> Lines \cup {none}]
         /\ \A u \in Uploads : rows'[u] = none \/ rows'[u] = rows[u]
         /\ \A u \in Uploads : u \in us => rows'[u] = none
  BY DEF File!TypeOK, File!Without

\* Rows go, files stay, and uploads and bug reports are as they were: the invariant holds if
\* it does of the deletions.
LEMMA FileRowsGo ==
  ASSUME FileInv, UNCHANGED <<upload, bug, shown, stored, posted, blobs>>,
         doomed \subseteq doomed', File!TypeOK',
         \A u \in Uploads : rows'[u] = none \/ rows'[u] = rows[u],
         \A d \in Deleters : FileDeleterOf(d)'
  PROVE  FileInv'
  <1>1. \A u \in Uploads : FileUploadOf(u)'
    BY DEF FileInv, FileUploadOf, File!TypeOK
  <1>2. \A b \in BugReports : FileBugOf(b)'
    BY DEF FileInv, FileBugOf
  <1> QED BY <1>1, <1>2 DEF FileInv

\* A deletion that did not move keeps what it holds while rows go and uploads stay.
LEMMA FileOtherDeleter ==
  ASSUME FileInv, NEW d \in Deleters, deleter'[d] = deleter[d],
         \A u \in Uploads : (rows'[u] = none \/ rows'[u] = rows[u]) /\ upload'[u] = upload[u]
  PROVE  FileDeleterOf(d)'
  BY DEF FileInv, FileDeleterOf

\* The report turns, or goes with its rows.
LEMMA FileReports ==
  ASSUME File!AttachmentsAssumption, FileInv, File!Turn \/ File!DeleteReport
  PROVE  FileInv'
  <1>1. CASE File!Turn
    <2>1. File!TypeOK'
      BY <1>1 DEF File!Turn, FileInv, File!TypeOK, File!bugVars
    <2>2. \A u \in Uploads : FileUploadOf(u)'
      BY <1>1 DEF File!Turn, FileInv, FileUploadOf
    <2>3. \A d \in Deleters : FileDeleterOf(d)'
      BY <1>1 DEF File!Turn, FileInv, FileDeleterOf
    <2>4. \A b \in BugReports : FileBugOf(b)'
      BY <1>1 DEF File!Turn, FileInv, FileBugOf, File!bugVars
    <2> QED BY <2>1, <2>2, <2>3, <2>4 DEF FileInv
  <1>2. CASE File!DeleteReport
    <2>1. /\ rows' \in [Uploads -> Lines \cup {none}]
          /\ \A u \in Uploads : rows'[u] = none \/ rows'[u] = rows[u]
      BY <1>2, FileWithout DEF File!DeleteReport, FileInv
    <2>2. File!TypeOK'
      BY <1>2, <2>1 DEF File!DeleteReport, FileInv, File!TypeOK, File!bugVars
    <2>3. \A d \in Deleters : FileDeleterOf(d)'
      BY <1>2, <2>1, FileOtherDeleter DEF File!DeleteReport
    <2> QED BY <1>2, <2>1, <2>2, <2>3, FileRowsGo DEF File!DeleteReport, File!bugVars
  <1> QED BY <1>1, <1>2

\* A file is saved before it has a row.
LEMMA FileSaveKeeps ==
  ASSUME File!AttachmentsAssumption, FileInv,
         NEW u \in Uploads, NEW l \in Lines, File!SaveFile(u, l)
  PROVE  FileInv'
  <1> USE FileTypes DEF FileInv
  <1>1. /\ \/ blobs' = blobs \cup {u} /\ upload' = [upload EXCEPT ![u] = [pc |-> "saved", line |-> l]]
           \/ blobs' = blobs /\ upload' = [upload EXCEPT ![u].pc = "over"]
        /\ UNCHANGED <<draft, lines, rows, deleter, doomed, File!bugVars>>
        /\ File!Fault \/ File!NoFault
        /\ upload[u].pc = "new"
    BY DEF File!SaveFile
  <1> DEFINE Upload == [pc : {"new", "saved", "over"}, line : Lines \cup {none}]
             saved == [pc |-> "saved", line |-> l]
             over == [upload[u] EXCEPT !.pc = "over"]
  <1>2. /\ saved \in Upload /\ over \in Upload /\ over.pc = "over" /\ saved.pc = "saved"
        /\ upload \in [Uploads -> Upload]
        /\ [upload EXCEPT ![u].pc = "over"] = [upload EXCEPT ![u] = over]
    BY DEF File!TypeOK
  <1> HIDE DEF saved, over
  <1>3. \/ blobs' = blobs \cup {u} /\ upload' = [upload EXCEPT ![u] = saved]
        \/ blobs' = blobs /\ upload' = [upload EXCEPT ![u] = over]
    BY <1>1, <1>2 DEF saved
  <1>4. /\ upload' \in [Uploads -> Upload]
        /\ \A v \in Uploads : v # u => upload'[v] = upload[v]
        /\ upload'[u].pc = "over" \/ (upload'[u].pc = "saved" /\ u \in blobs')
    <2> HIDE DEF Upload
    <2>1. CASE blobs' = blobs \cup {u} /\ upload' = [upload EXCEPT ![u] = saved]
      BY <1>2, <2>1
    <2>2. CASE upload' = [upload EXCEPT ![u] = over]
      BY <1>2, <2>2
    <2> QED BY <1>3, <2>1, <2>2
  <1>5. blobs \subseteq blobs' /\ blobs' \subseteq Uploads \cup BugReports
    BY <1>3 DEF File!TypeOK
  <1>6. File!TypeOK'
    BY <1>1, <1>4, <1>5, FileFaults DEF File!TypeOK, File!bugVars
  <1>7. \A v \in Uploads : FileUploadOf(v)'
    BY <1>1, <1>4, <1>5 DEF FileUploadOf
  <1>8. \A d \in Deleters : FileDeleterOf(d)'
    BY <1>1, <1>4 DEF FileDeleterOf
  <1>9. \A b \in BugReports : FileBugOf(b)'
    BY <1>1, <1>5 DEF FileBugOf, File!bugVars
  <1> QED BY <1>6, <1>7, <1>8, <1>9

\* A row is inserted for a file that is there.
LEMMA FileInsertKeeps ==
  ASSUME File!AttachmentsAssumption, FileInv, NEW u \in Uploads, File!InsertAttachment(u)
  PROVE  FileInv'
  <1> USE FileTypes DEF FileInv
  <1>1. /\ upload' = [upload EXCEPT ![u].pc = "over"] /\ upload[u].pc = "saved"
        /\ \/ rows' = rows
           \/ upload[u].line \in lines /\ rows' = [rows EXCEPT ![u] = upload[u].line]
        /\ UNCHANGED <<draft, lines, deleter, doomed, blobs, File!bugVars>>
        /\ File!Fault \/ File!NoFault
    BY DEF File!InsertAttachment
  <1>2. /\ upload' \in [Uploads -> [pc : {"new", "saved", "over"}, line : Lines \cup {none}]]
        /\ \A v \in Uploads : v # u => upload'[v] = upload[v] /\ rows'[v] = rows[v]
        /\ upload'[u].pc = "over" /\ rows' \in [Uploads -> Lines \cup {none}]
        /\ u \in blobs
    BY <1>1 DEF File!TypeOK, FileUploadOf
  <1>3. File!TypeOK'
    BY <1>1, <1>2, FileFaults DEF File!TypeOK, File!bugVars
  <1>4. \A v \in Uploads : FileUploadOf(v)'
    BY <1>1, <1>2 DEF FileUploadOf
  <1>5. \A d \in Deleters : FileDeleterOf(d)'
    BY <1>1, <1>2 DEF FileDeleterOf
  <1>6. \A b \in BugReports : FileBugOf(b)'
    BY <1>1 DEF FileBugOf, File!bugVars
  <1> QED BY <1>3, <1>4, <1>5, <1>6

\* A deletion moves: the record it holds, and those of the others.
LEMMA FileDeleterMoves ==
  ASSUME FileInv, NEW d \in Deleters, NEW record \in File!Deleter,
         deleter' = [deleter EXCEPT ![d] = record]
  PROVE  /\ deleter' \in [Deleters -> File!Deleter] /\ deleter'[d] = record
         /\ \A e \in Deleters : e # d => deleter'[e] = deleter[e]
  BY DEF FileInv, File!TypeOK

\* It begins: with an attachment that is listed, or with a line.
LEMMA FileBeginDeleteKeeps ==
  ASSUME File!AttachmentsAssumption, FileInv, NEW d \in Deleters, File!BeginDelete(d)
  PROVE  FileInv'
  <1>1. PICK record \in File!Deleter :
          /\ deleter' = [deleter EXCEPT ![d] = record]
          /\ \/ record.pc = "row" /\ record.of \in Uploads /\ rows[record.of] # none
             \/ record.pc = "list" /\ record.of \in Lines
    <2>1. CASE \E u \in Uploads : rows[u] # none /\ File!Set(d, "row", u, {})
      <3>1. PICK u \in Uploads : rows[u] # none /\ File!Set(d, "row", u, {})
        BY <2>1
      <3> [pc |-> "row", of |-> u, listed |-> {}] \in File!Deleter
        BY DEF File!Deleter
      <3> WITNESS [pc |-> "row", of |-> u, listed |-> {}] \in File!Deleter
      <3> QED BY <3>1 DEF File!Set, File!Deleter
    <2>2. CASE \E l \in lines : File!Set(d, "list", l, {})
      <3>1. PICK l \in Lines : File!Set(d, "list", l, {})
        BY <2>2 DEF FileInv, File!TypeOK
      <3> [pc |-> "list", of |-> l, listed |-> {}] \in File!Deleter
        BY DEF File!Deleter
      <3> WITNESS [pc |-> "list", of |-> l, listed |-> {}] \in File!Deleter
      <3> QED BY <3>1 DEF File!Set, File!Deleter
    <2> QED BY <2>1, <2>2 DEF File!BeginDelete
  <1>2. UNCHANGED <<draft, lines, rows, upload, doomed, blobs, faults, bug, shown, stored, tries, posted>>
    BY DEF File!BeginDelete, File!bugVars
  <1>3. File!TypeOK'
    BY <1>1, <1>2, FileDeleterMoves DEF FileInv, File!TypeOK
  <1>4. \A e \in Deleters : FileDeleterOf(e)'
    <2>1. FileDeleterOf(d)'
      <3>1. record.pc = "row" => upload[record.of].pc = "over"
        BY <1>1, FileTypes DEF FileInv, FileUploadOf
      <3> QED BY <1>1, <1>2, <3>1, FileDeleterMoves DEF FileDeleterOf
    <2> QED BY <1>1, <1>2, <2>1, FileDeleterMoves, FileOtherDeleter
  <1> QED BY <1>2, <1>3, <1>4, FileRowsGo

\* Its row goes before its file.
LEMMA FileDeleteRowKeeps ==
  ASSUME File!AttachmentsAssumption, FileInv, NEW d \in Deleters, File!DeleteRow(d)
  PROVE  FileInv'
  <1> DEFINE u == deleter[d].of
             gone == [pc |-> "blob", of |-> u, listed |-> {}]
  <1>1. /\ u \in Uploads /\ upload[u].pc = "over"
        /\ gone \in File!Deleter /\ File!Idle \in File!Deleter
    BY FileTypes DEF File!DeleteRow, FileInv, FileDeleterOf, File!Deleter
  <1>2. /\ UNCHANGED <<draft, lines, upload, doomed, blobs, bug, shown, stored, tries, posted>>
        /\ File!Fault \/ File!NoFault
    BY DEF File!DeleteRow, File!bugVars
  <1>3. /\ rows' \in [Uploads -> Lines \cup {none}]
        /\ \A v \in Uploads : rows'[v] = none \/ rows'[v] = rows[v]
        /\ \/ deleter' = [deleter EXCEPT ![d] = gone] /\ rows'[u] = none
           \/ deleter' = [deleter EXCEPT ![d] = File!Idle]
    <2>1. CASE File!Set(d, "blob", u, {}) /\ rows' = File!Without({u})
      BY <1>1, <2>1, FileWithout DEF FileInv, File!Set
    <2>2. CASE File!Retire(d) /\ UNCHANGED rows
      BY <2>2 DEF File!Retire, FileInv, File!TypeOK
    <2> QED BY <2>1, <2>2 DEF File!DeleteRow
  <1> HIDE DEF u
  <1>4. File!TypeOK'
    BY <1>1, <1>2, <1>3, FileDeleterMoves, FileFaults DEF FileInv, File!TypeOK
  <1>5. \A e \in Deleters : FileDeleterOf(e)'
    <2>1. FileDeleterOf(d)'
      BY <1>1, <1>2, <1>3, FileDeleterMoves, FileTypes DEF FileDeleterOf, FileInv
    <2> QED BY <1>1, <1>2, <1>3, <2>1, FileDeleterMoves, FileOtherDeleter
  <1> QED BY <1>2, <1>3, <1>4, <1>5, FileRowsGo

\* A file goes that no row stands for.
LEMMA FileDeleteBlobKeeps ==
  ASSUME File!AttachmentsAssumption, FileInv, NEW d \in Deleters, File!DeleteBlob(d)
  PROVE  FileInv'
  <1> DEFINE u == deleter[d].of
  <1>1. /\ u \in Uploads /\ upload[u].pc = "over" /\ rows[u] = none
        /\ File!Idle \in File!Deleter /\ u \notin BugReports
    BY FileTypes DEF File!DeleteBlob, FileInv, FileDeleterOf
  <1>2. /\ UNCHANGED <<draft, lines, rows, upload, doomed, bug, shown, stored, tries, posted>>
        /\ blobs' = blobs \/ blobs' = blobs \ {u}
        /\ deleter' = [deleter EXCEPT ![d] = File!Idle]
        /\ File!Fault \/ File!NoFault
    BY DEF File!DeleteBlob, File!bugVars, File!Retire
  <1> HIDE DEF u
  <1>3. File!TypeOK'
    BY <1>1, <1>2, FileDeleterMoves, FileFaults DEF FileInv, File!TypeOK
  <1>4. \A v \in Uploads : FileUploadOf(v)'
    BY <1>1, <1>2 DEF FileInv, FileUploadOf
  <1>5. \A e \in Deleters : FileDeleterOf(e)'
    <2>1. FileDeleterOf(d)'
      BY <1>1, <1>2, FileDeleterMoves, FileTypes DEF FileDeleterOf, FileInv
    <2> QED BY <1>1, <1>2, <2>1, FileDeleterMoves, FileOtherDeleter
  <1>6. \A b \in BugReports : FileBugOf(b)'
    BY <1>1, <1>2 DEF FileInv, FileBugOf
  <1> QED BY <1>3, <1>4, <1>5, <1>6 DEF FileInv

\* The files of a line go while their rows stand: they are doomed.
LEMMA FileDeleteFilesKeeps ==
  ASSUME File!AttachmentsAssumption, FileInv, NEW d \in Deleters, File!DeleteFiles(d)
  PROVE  FileInv'
  <1> DEFINE l == deleter[d].of
             listed == [pc |-> "line", of |-> l, listed |-> File!Of(l)]
  <1>1. /\ l \in Lines /\ listed \in File!Deleter /\ File!Idle \in File!Deleter
        /\ File!Of(l) \subseteq Uploads
    BY FileTypes DEF File!DeleteFiles, FileInv, FileDeleterOf, File!Deleter, File!Of
  <1>2. PICK us \in SUBSET File!Of(l) :
          /\ blobs' = blobs \ us /\ doomed' = doomed \cup us
          /\ deleter' = [deleter EXCEPT ![d] = listed] \/ deleter' = [deleter EXCEPT ![d] = File!Idle]
    <2>1. CASE /\ blobs' = blobs \ File!Of(l) /\ doomed' = doomed \cup File!Of(l)
               /\ File!Set(d, "line", l, File!Of(l))
      <3> WITNESS File!Of(l) \in SUBSET File!Of(l)
      <3> QED BY <2>1 DEF File!Set
    <2>2. CASE \E us \in SUBSET File!Of(l) :
                 blobs' = blobs \ us /\ doomed' = doomed \cup us /\ File!Retire(d)
      BY <2>2 DEF File!Retire
    <2> QED BY <2>1, <2>2 DEF File!DeleteFiles
  <1>3. /\ UNCHANGED <<draft, lines, rows, upload, bug, shown, stored, tries, posted>>
        /\ File!Fault \/ File!NoFault
    BY DEF File!DeleteFiles, File!bugVars
  <1>4. \A u \in us : u \in Uploads /\ rows[u] = l /\ rows[u] # none /\ u \notin BugReports
    BY <1>1, FileTypes DEF File!Of, FileInv
  <1>5. File!TypeOK'
    BY <1>1, <1>2, <1>3, FileDeleterMoves, FileFaults DEF FileInv, File!TypeOK
  <1>6. \A v \in Uploads : FileUploadOf(v)'
    <2> SUFFICES ASSUME NEW v \in Uploads PROVE FileUploadOf(v)'
      OBVIOUS
    <2>1. v \in us => upload[v].pc # "saved"
      BY <1>4 DEF FileInv, FileUploadOf
    <2> QED BY <1>2, <1>3, <2>1 DEF FileInv, FileUploadOf
  <1>7. \A e \in Deleters : FileDeleterOf(e)'
    <2>1. FileDeleterOf(d)'
      BY <1>1, <1>2, <1>3, FileDeleterMoves, FileTypes DEF FileDeleterOf, FileInv
    <2> QED BY <1>1, <1>2, <1>3, <2>1, FileDeleterMoves, FileOtherDeleter
  <1>8. \A b \in BugReports : FileBugOf(b)'
    BY <1>2, <1>3, <1>4 DEF FileInv, FileBugOf
  <1> QED BY <1>5, <1>6, <1>7, <1>8 DEF FileInv

\* A line goes with the rows of its attachments.
LEMMA FileDeleteLineKeeps ==
  ASSUME File!AttachmentsAssumption, FileInv, NEW d \in Deleters, File!DeleteLine(d)
  PROVE  FileInv'
  <1>1. /\ UNCHANGED <<draft, upload, doomed, blobs, bug, shown, stored, tries, posted>>
        /\ deleter' = [deleter EXCEPT ![d] = File!Idle]
        /\ lines' \subseteq lines
        /\ File!Fault \/ File!NoFault
    BY DEF File!DeleteLine, File!bugVars, File!Retire
  <1>2. /\ rows' \in [Uploads -> Lines \cup {none}]
        /\ \A v \in Uploads : rows'[v] = none \/ rows'[v] = rows[v]
    <2>1. CASE rows' = File!Without(File!Of(deleter[d].of))
      BY <2>1, FileWithout DEF FileInv
    <2>2. CASE UNCHANGED rows
      BY <2>2 DEF FileInv, File!TypeOK
    <2> QED BY <2>1, <2>2 DEF File!DeleteLine
  <1>3. File!Idle \in File!Deleter /\ File!Idle.pc = "idle"
    BY FileTypes DEF FileInv
  <1>4. File!TypeOK'
    BY <1>1, <1>2, <1>3, FileDeleterMoves, FileFaults DEF FileInv, File!TypeOK
  <1>5. \A e \in Deleters : FileDeleterOf(e)'
    <2>1. FileDeleterOf(d)'
      BY <1>1, <1>2, <1>3, FileDeleterMoves DEF FileDeleterOf
    <2> QED BY <1>1, <1>2, <1>3, <2>1, FileDeleterMoves, FileOtherDeleter
  <1> QED BY <1>1, <1>2, <1>4, <1>5, FileRowsGo

\* A step of a bug report.
LEMMA FileBugKeeps ==
  ASSUME File!AttachmentsAssumption, FileInv, NEW b \in BugReports,
         File!SaveScreenshot(b) \/ File!CreateBugReport(b) \/ File!Enqueue(b) \/ File!Post(b)
  PROVE  FileInv'
  <1> DEFINE Pcs == {"new", "saved", "committed", "queued", "over"}
  <1>1. /\ UNCHANGED File!reportVars /\ (File!Fault \/ File!NoFault)
        /\ tries' \in [BugReports -> 0 .. MaxTries]
    <2>1. CASE File!Post(b)
      <3>1. tries[b] \in 0 .. MaxTries /\ tries[b] < MaxTries /\ MaxTries \in Nat
        BY <2>1, FileTypes DEF File!Post, FileInv, File!TypeOK
      <3>2. tries[b] + 1 \in 0 .. MaxTries
        BY <3>1
      <3>3. tries' = [tries EXCEPT ![b] = tries[b] + 1]
        BY <2>1 DEF File!Post
      <3> QED BY <2>1, <3>2, <3>3 DEF File!Post, FileInv, File!TypeOK
    <2> QED BY <2>1 DEF File!SaveScreenshot, File!CreateBugReport, File!Enqueue, FileInv,
               File!TypeOK
  <1>2. PICK pc \in Pcs :
          /\ bug' = [bug EXCEPT ![b] = pc]
          /\ stored \subseteq stored' /\ stored' \subseteq BugReports
          /\ blobs \subseteq blobs' /\ blobs' \subseteq blobs \cup {b}
          /\ shown' \subseteq shown \cup {b} /\ (b \in shown' => b \in shown \/ b \in blobs')
          /\ posted' \subseteq posted \cup {b}
          /\ pc \in {"committed", "queued"} => b \in stored'
          /\ b \in posted' => b \in posted \/ b \in stored'
    <2>1. CASE File!SaveScreenshot(b)
      BY <2>1 DEF File!SaveScreenshot, File!Advance, FileInv, File!TypeOK
    <2>2. CASE File!CreateBugReport(b)
      BY <2>2 DEF File!CreateBugReport, File!Advance, FileInv, File!TypeOK
    <2>3. CASE File!Enqueue(b)
      BY <2>3 DEF File!Enqueue, File!Advance, FileInv, File!TypeOK, FileBugOf
    <2>4. CASE File!Post(b)
      <3>1. b \in stored
        BY <2>4 DEF File!Post, FileInv, FileBugOf
      <3>2. /\ bug' = [bug EXCEPT ![b] = "over"] \/ bug' = [bug EXCEPT ![b] = "queued"]
            /\ posted' \subseteq posted \cup {b} /\ UNCHANGED <<shown, stored, blobs>>
        BY <2>4 DEF File!Post, File!Advance
      <3> QED BY <3>1, <3>2 DEF FileInv, File!TypeOK
    <2> QED BY <2>1, <2>2, <2>3, <2>4
  <1>3. /\ bug' \in [BugReports -> Pcs] /\ bug'[b] = pc
        /\ \A c \in BugReports : c # b => bug'[c] = bug[c]
    BY <1>2 DEF FileInv, File!TypeOK
  <1>4. File!TypeOK'
    BY <1>1, <1>2, <1>3, FileFaults DEF FileInv, File!TypeOK, File!reportVars
  <1>5. \A u \in Uploads : FileUploadOf(u)'
    BY <1>1, <1>2 DEF FileInv, FileUploadOf, File!reportVars
  <1>6. \A d \in Deleters : FileDeleterOf(d)'
    BY <1>1, <1>2 DEF FileInv, FileDeleterOf, File!reportVars
  <1>7. \A c \in BugReports : FileBugOf(c)'
    <2> SUFFICES ASSUME NEW c \in BugReports PROVE FileBugOf(c)'
      OBVIOUS
    <2> FileBugOf(c)
      BY DEF FileInv
    <2>1. CASE c = b
      BY <1>2, <1>3, <2>1 DEF FileBugOf
    <2>2. CASE c # b
      BY <1>2, <1>3, <2>2 DEF FileBugOf
    <2> QED BY <2>1, <2>2
  <1> QED BY <1>4, <1>5, <1>6, <1>7 DEF FileInv

\* Every step keeps it.
LEMMA FileInvStep ==
  ASSUME File!AttachmentsAssumption, FileInv, [File!Next]_(File!vars)
  PROVE  FileInv'
  <1>1. ASSUME UNCHANGED File!vars PROVE FileInv'
    <2>1. UNCHANGED <<draft, lines, rows, upload, deleter, doomed, bug, shown, stored, tries,
                      posted, blobs, faults>>
      BY <1>1 DEF File!vars, File!reportVars, File!bugVars
    <2>2. File!TypeOK'
      BY <2>1 DEF FileInv, File!TypeOK
    <2>3. (\A u \in Uploads : FileUploadOf(u)') /\ (\A b \in BugReports : FileBugOf(b)')
      BY <2>1 DEF FileInv, FileUploadOf, FileBugOf
    <2>4. \A d \in Deleters : FileDeleterOf(d)'
      BY <2>1 DEF FileInv, FileDeleterOf
    <2> QED BY <2>2, <2>3, <2>4 DEF FileInv
  <1>2. ASSUME NEW u \in Uploads, File!InsertAttachment(u) \/ \E l \in Lines : File!SaveFile(u, l)
        PROVE  FileInv'
    BY <1>2, FileInsertKeeps, FileSaveKeeps
  <1>3. ASSUME NEW d \in Deleters,
               \/ File!BeginDelete(d) \/ File!DeleteRow(d) \/ File!DeleteBlob(d)
               \/ File!DeleteFiles(d) \/ File!DeleteLine(d)
        PROVE  FileInv'
    BY <1>3, FileBeginDeleteKeeps, FileDeleteRowKeeps, FileDeleteBlobKeeps, FileDeleteFilesKeeps,
       FileDeleteLineKeeps
  <1> QED BY <1>1, <1>2, <1>3, FileReports, FileBugKeeps DEF File!Next

\* What it says of the properties.
LEMMA FileInvImplies ==
  ASSUME FileInv
  PROVE  File!TypeOK /\ File!FilesAreThere
  <1>1. File!RowsHaveFiles
    BY DEF FileInv, FileUploadOf, File!RowsHaveFiles
  <1>2. File!NoticesAreReal
    BY DEF FileInv, FileBugOf, File!NoticesAreReal, File!TypeOK
  <1> QED BY <1>1, <1>2 DEF FileInv, File!FilesAreThere

-----------------------------------------------------------------------------
(* Dashboards and donor summaries (FundingFigures).                        *)

\* The rows of a table.
LEMMA FigureRows ==
  ASSUME NEW S, NEW table \in Seq(S)
  PROVE  /\ DOMAIN table = 1 .. Len(table) /\ Len(table) \in Nat /\ IsFiniteSet(DOMAIN table)
         /\ \A i \in DOMAIN table : table[i] \in S
  <1>1. DOMAIN table = 1 .. Len(table) /\ Len(table) \in Nat
        /\ \A i \in DOMAIN table : table[i] \in S
    OBVIOUS
  <1>2. IsFiniteSet(1 .. Len(table))
    BY <1>1, FS_Interval
  <1> QED BY <1>1, <1>2

\* A row is added to the table of a budget there is.
LEMMA FigureAppend ==
  ASSUME NEW S, NEW table \in Seq(Seq(S)), NEW i \in 1 .. Len(table), NEW x \in S
  PROVE  /\ [table EXCEPT ![i] = Append(@, x)] \in Seq(Seq(S))
         /\ Len([table EXCEPT ![i] = Append(@, x)]) = Len(table)
  OBVIOUS

\* The tables keep a row for each budget.
LEMMA FigureTypes ==
  ASSUME Figure!FiguresAssumption, Figure!TypeOK, Figure!Next
  PROVE  Figure!TypeOK'
  <1> DEFINE Pairs == [donor : Amounts, local : Amounts]
             Rows == [kind : Kinds, status : Figure!Statuses]
             N == Len(budgets)
  <1>1. /\ budgets \in Seq(Rows) /\ N <= MaxBudgets
        /\ received \in Seq(Seq(Amounts)) /\ spent \in Seq(Seq(Amounts))
        /\ converted \in Seq(Seq(Pairs))
        /\ Len(received) = N /\ Len(converted) = N /\ Len(spent) = N /\ N \in Nat
    BY DEF Figure!TypeOK
  <1> HIDE DEF Pairs
  <1>2. ASSUME NEW k \in Kinds, Figure!Create(k) PROVE Figure!TypeOK'
    <2>1. [kind |-> k, status |-> "draft"] \in Rows
      BY DEF Figure!Statuses
    <2>2. /\ budgets' = Append(budgets, [kind |-> k, status |-> "draft"]) /\ N < MaxBudgets
          /\ received' = Append(received, <<>>) /\ converted' = Append(converted, <<>>)
          /\ spent' = Append(spent, <<>>)
      BY <1>2 DEF Figure!Create
    <2>3. MaxBudgets \in Nat
      BY DEF Figure!FiguresAssumption
    <2> HIDE DEF Rows
    <2>4. budgets' \in Seq(Rows) /\ Len(budgets') = N + 1
      BY <1>1, <2>1, <2>2
    <2>5. /\ received' \in Seq(Seq(Amounts)) /\ spent' \in Seq(Seq(Amounts))
          /\ Len(received') = N + 1 /\ Len(spent') = N + 1
      <3>1. <<>> \in Seq(Amounts)
        OBVIOUS
      <3> QED BY <1>1, <2>2, <3>1
    <2>6. converted' \in Seq(Seq(Pairs)) /\ Len(converted') = N + 1
      <3>1. <<>> \in Seq(Pairs)
        OBVIOUS
      <3> QED BY <1>1, <2>2, <3>1
    <2> QED BY <1>1, <2>2, <2>3, <2>4, <2>5, <2>6 DEF Figure!TypeOK, Rows, Pairs
  <1>3. ASSUME NEW i \in 1 .. N, NEW s \in Figure!Statuses, Figure!Turn(i, s) PROVE Figure!TypeOK'
    <2>1. budgets' = [budgets EXCEPT ![i].status = s] /\ UNCHANGED <<received, converted, spent>>
      BY <1>3 DEF Figure!Turn
    <2> DEFINE row == [budgets[i] EXCEPT !.status = s]
    <2>2. budgets' \in Seq(Rows) /\ Len(budgets') = N
      <3>1. row \in Rows
        <4> HIDE DEF Rows
        <4>1. budgets[i] \in Rows
          BY <1>1, FigureRows
        <4> USE DEF Rows
        <4> QED BY <4>1
      <3>2. budgets' = [budgets EXCEPT ![i] = row]
        BY <2>1
      <3> HIDE DEF row, Rows
      <3> QED BY <1>1, <3>1, <3>2
    <2> QED BY <1>1, <2>1, <2>2 DEF Figure!TypeOK, Pairs
  <1>4. ASSUME NEW i \in 1 .. N, Figure!Receive(i) PROVE Figure!TypeOK'
    <2>1. PICK a \in Amounts : received' = [received EXCEPT ![i] = Append(@, a)]
      BY <1>4 DEF Figure!Receive
    <2>2. UNCHANGED <<budgets, converted, spent>>
      BY <1>4 DEF Figure!Receive
    <2>3. received' \in Seq(Seq(Amounts)) /\ Len(received') = N
      BY <1>1, <2>1, FigureAppend
    <2> QED BY <1>1, <2>2, <2>3 DEF Figure!TypeOK, Pairs
  <1>5. ASSUME NEW i \in 1 .. N, Figure!Convert(i) PROVE Figure!TypeOK'
    <2>1. PICK a, b \in Amounts :
            converted' = [converted EXCEPT ![i] = Append(@, [donor |-> a, local |-> b])]
      BY <1>5 DEF Figure!Convert
    <2>2. UNCHANGED <<budgets, received, spent>>
      BY <1>5 DEF Figure!Convert
    <2>3. [donor |-> a, local |-> b] \in Pairs
      BY DEF Pairs
    <2>4. converted' \in Seq(Seq(Pairs)) /\ Len(converted') = N
      BY <1>1, <2>1, <2>3, FigureAppend
    <2> QED BY <1>1, <2>2, <2>4 DEF Figure!TypeOK, Pairs
  <1>6. ASSUME NEW i \in 1 .. N, Figure!Spend(i) PROVE Figure!TypeOK'
    <2>1. PICK a \in Amounts : spent' = [spent EXCEPT ![i] = Append(@, a)]
      BY <1>6 DEF Figure!Spend
    <2>2. UNCHANGED <<budgets, received, converted>>
      BY <1>6 DEF Figure!Spend
    <2>3. spent' \in Seq(Seq(Amounts)) /\ Len(spent') = N
      BY <1>1, <2>1, FigureAppend
    <2> QED BY <1>1, <2>2, <2>3 DEF Figure!TypeOK, Pairs
  <1> QED BY <1>2, <1>3, <1>4, <1>5, <1>6 DEF Figure!Next, Figure!Ids

\* The sums of the module are those of the library.
LEMMA FigureSums ==
  ASSUME NEW f, NEW S
  PROVE  /\ Figure!SumFunctionOnSet(f, S) = SumFunctionOnSet(f, S)
         /\ Figure!SumFunction(f) = SumFunctionOnSet(f, DOMAIN f)
         /\ Figure!Cardinality(S) = Cardinality(S)
  <1>1. Figure!SumFunctionOnSet(f, S) = SumFunctionOnSet(f, S)
    BY DEF Figure!SumFunctionOnSet, Figure!FoldFunctionOnSet,
           Figure!MapThenFoldSet, SumFunctionOnSet, FoldFunctionOnSet, MapThenFoldSet
  <1>2. Figure!SumFunction(f) = SumFunctionOnSet(f, DOMAIN f)
    BY DEF Figure!SumFunction, Figure!SumFunctionOnSet, Figure!FoldFunctionOnSet,
           Figure!MapThenFoldSet, SumFunctionOnSet, FoldFunctionOnSet, MapThenFoldSet
  <1>3. Figure!Cardinality(S) = Cardinality(S)
    BY DEF Figure!Cardinality, Cardinality, Figure!IsFiniteSet, IsFiniteSet
  <1> QED BY <1>1, <1>2, <1>3

\* The image of a finite set is finite.
LEMMA FigureImage ==
  ASSUME NEW S, IsFiniteSet(S), NEW f
  PROVE  IsFiniteSet({f[x] : x \in S})
  <1> DEFINE g == [x \in S |-> f[x]]
             T == {f[x] : x \in S}
  <1>1. g \in Surjection(S, T)
    BY DEF Surjection
  <1> HIDE DEF g, T
  <1>2. IsFiniteSet(T)
    BY <1>1, FS_Surjection
  <1> QED BY <1>2 DEF T

\* What is shown in a currency: the sum of the rows in it, none or many.
FigureBy(f, S) ==
  [u \in {Figure!Currency(i) : i \in S} |->
     SumFunctionOnSet(f, {i \in S : Figure!Currency(i) = u})]
\* What is committed of the budgets.
FigureCommitted == [i \in Figure!Ids |-> Figure!Committed(i)]

\* One sum of such a figure.
LEMMA FigureAt ==
  ASSUME NEW f, NEW S, NEW c
  PROVE  Figure!At(FigureBy(f, S), c) = SumFunctionOnSet(f, {i \in S : Figure!Currency(i) = c})
  <1>1. CASE c \in {Figure!Currency(i) : i \in S}
    BY <1>1 DEF Figure!At, FigureBy
  <1>2. CASE c \notin {Figure!Currency(i) : i \in S}
    <2>1. {i \in S : Figure!Currency(i) = c} = {}
      BY <1>2
    <2>2. Figure!At(FigureBy(f, S), c) = 0
      BY <1>2 DEF Figure!At, FigureBy
    <2> QED BY <2>1, <2>2, SumEmpty
  <1> QED BY <1>1, <1>2

\* Rows that add nothing can be left out.
LEMMA FigureZeros ==
  ASSUME NEW S, IsFiniteSet(S), NEW T \in SUBSET S,
         NEW f, \A x \in S : f[x] \in Int, \A x \in S \ T : f[x] = 0
  PROVE  SumFunctionOnSet(f, T) = SumFunctionOnSet(f, S)
  <1> DEFINE zero == [x \in S |-> 0]
             Good == {s \in SUBSET (S \ T) : SumFunctionOnSet(f, s) = 0}
  <1>1. {} \in Good
    BY SumEmpty
  <1>2. ASSUME NEW s \in SUBSET (S \ T), NEW x \in S \ T, s \in Good, x \notin s
        PROVE  s \cup {x} \in Good
    <2>1. IsFiniteSet(s) /\ (\A y \in s : f[y] \in Int) /\ f[x] = 0 /\ f[x] \in Int
      BY FS_Subset
    <2>2. SumFunctionOnSet(f, s \cup {x}) = f[x] + SumFunctionOnSet(f, s)
      BY <1>2, <2>1, SumAdd
    <2> QED BY <1>2, <2>1, <2>2
  <1>3. IsFiniteSet(S \ T) /\ IsFiniteSet(T)
    BY FS_Subset
  <1> HIDE DEF Good
  <1>4. S \ T \in Good
    BY <1>1, <1>2, <1>3, SetInduction
  <1>5. SumFunctionOnSet(f, S \ T) = 0
    BY <1>4 DEF Good
  <1>6. SumFunctionOnSet(f, T \cup (S \ T)) = SumFunctionOnSet(f, T) + SumFunctionOnSet(f, S \ T)
    BY <1>3, SumUnion
  <1>7. T \cup (S \ T) = S /\ SumFunctionOnSet(f, T) \in Int
    BY <1>3, SumType
  <1>8. SumFunctionOnSet(f, T \cup (S \ T)) = SumFunctionOnSet(f, S)
    BY <1>7
  <1> QED BY <1>5, <1>6, <1>7, <1>8

\* The budgets, and what is committed of those that have a currency and a rate.
LEMMA FigureBudgets ==
  ASSUME Figure!FiguresAssumption, Figure!TypeOK
  PROVE  /\ IsFiniteSet(Figure!Ids)
         /\ \A i \in Figure!Ids : budgets[i].kind \in Kinds
         /\ \A S : \A i \in Figure!Rated(S) : i \in S /\ (i \in Figure!Ids => Figure!Committed(i) \in Int)
         /\ \A i \in Figure!Ids : Figure!Got(i) \in Int /\ (received[i] = <<>> => Figure!Got(i) = 0)
         /\ \A i \in Figure!Ids : Figure!Donor(i) \in Int /\ (converted[i] = <<>> => Figure!Donor(i) = 0)
  <1>1. /\ budgets \in Seq([kind : Kinds, status : Figure!Statuses])
        /\ received \in Seq(Seq(Amounts)) /\ spent \in Seq(Seq(Amounts))
        /\ converted \in Seq(Seq([donor : Amounts, local : Amounts]))
        /\ Len(received) = Len(budgets) /\ Len(converted) = Len(budgets)
        /\ Figure!Ids = 1 .. Len(budgets) /\ Len(budgets) \in Nat
    BY DEF Figure!TypeOK, Figure!Ids
  <1>2. Amounts \subseteq Int /\ none \notin Nat
        /\ \A k \in Kinds : k.total \in Nat /\ k.rate \in Nat \cup {none}
    BY DEF Figure!FiguresAssumption
  <1>3. IsFiniteSet(Figure!Ids)
    BY <1>1, FS_Interval
  <1>4. \A i \in Figure!Ids : budgets[i].kind \in Kinds
    <2> DEFINE Rows == [kind : Kinds, status : Figure!Statuses]
    <2>1. budgets \in Seq(Rows)
      BY <1>1
    <2> HIDE DEF Rows
    <2>2. \A i \in Figure!Ids : budgets[i] \in Rows
      BY <1>1, <2>1, FigureRows
    <2> QED BY <2>2 DEF Rows
  <1>5. ASSUME NEW S, NEW i \in Figure!Rated(S)
        PROVE  i \in S /\ (i \in Figure!Ids => Figure!Committed(i) \in Int)
    <2>1. i \in S /\ budgets[i].kind.rate \notin {none, 0}
      BY <1>5 DEF Figure!Rated
    <2>2. ASSUME i \in Figure!Ids PROVE Figure!Committed(i) \in Int
      <3>1. budgets[i].kind.total \in Nat /\ budgets[i].kind.rate \in Nat \ {0}
        BY <1>2, <1>4, <2>1, <2>2
      <3> QED BY <3>1 DEF Figure!Committed
    <2> QED BY <2>1, <2>2
  <1>6. ASSUME NEW i \in Figure!Ids
        PROVE  Figure!Got(i) \in Int /\ (received[i] = <<>> => Figure!Got(i) = 0)
    <2> DEFINE f == received[i]
    <2>1. f \in Seq(Amounts)
      BY <1>1
    <2>2. Figure!Got(i) = SumFunctionOnSet(f, DOMAIN f)
      BY FigureSums DEF Figure!Got
    <2> HIDE DEF f
    <2>3. IsFiniteSet(DOMAIN f) /\ \A n \in DOMAIN f : f[n] \in Amounts
      BY <2>1, FigureRows
    <2>4. (\A n \in DOMAIN f : f[n] \in Int) /\ (f = <<>> => DOMAIN f = {})
      <3>1. f = <<>> => DOMAIN f = {}
        OBVIOUS
      <3> QED BY <1>2, <2>3, <3>1
    <2>5. SumFunctionOnSet(f, DOMAIN f) \in Int
      BY <2>3, <2>4, SumType
    <2>6. f = <<>> => SumFunctionOnSet(f, DOMAIN f) = 0
      BY <2>4, SumEmpty
    <2> QED BY <2>2, <2>5, <2>6 DEF f
  <1>7. ASSUME NEW i \in Figure!Ids
        PROVE  Figure!Donor(i) \in Int /\ (converted[i] = <<>> => Figure!Donor(i) = 0)
    <2> DEFINE exchanged == converted[i]
               Pairs == [donor : Amounts, local : Amounts]
               f == [n \in DOMAIN exchanged |-> exchanged[n].donor]
    <2>1. exchanged \in Seq(Pairs)
      BY <1>1
    <2>2. Figure!Donor(i) = SumFunctionOnSet(f, DOMAIN f)
      BY FigureSums DEF Figure!Donor
    <2> HIDE DEF exchanged, Pairs
    <2>3. IsFiniteSet(DOMAIN exchanged) /\ \A n \in DOMAIN exchanged : exchanged[n] \in Pairs
      BY <2>1, FigureRows
    <2>4. /\ DOMAIN f = DOMAIN exchanged /\ \A n \in DOMAIN f : f[n] \in Int
          /\ IsFiniteSet(DOMAIN f) /\ (exchanged = <<>> => DOMAIN f = {})
      <3>1. exchanged = <<>> => DOMAIN exchanged = {}
        OBVIOUS
      <3>2. DOMAIN f = DOMAIN exchanged /\ \A n \in DOMAIN f : f[n] = exchanged[n].donor
        OBVIOUS
      <3>3. \A n \in DOMAIN exchanged : exchanged[n].donor \in Int
        BY <1>2, <2>3 DEF Pairs
      <3> HIDE DEF f
      <3> QED BY <2>3, <3>1, <3>2, <3>3
    <2> HIDE DEF f
    <2>5. SumFunctionOnSet(f, DOMAIN f) \in Int
      BY <2>4, SumType
    <2>6. exchanged = <<>> => SumFunctionOnSet(f, DOMAIN f) = 0
      BY <2>4, SumEmpty
    <2> QED BY <2>2, <2>5, <2>6 DEF exchanged
  <1> QED BY <1>3, <1>4, <1>5, <1>6, <1>7

\* Sums by a key of the budgets: for each key the budgets of it, together all of them.
LEMMA FigureTotals ==
  ASSUME NEW S, IsFiniteSet(S), NEW K, IsFiniteSet(K), NEW f, \A i \in S : f[i] \in Int,
         NEW key, \A i \in S : key[i] \in K,
         NEW g, DOMAIN g = K, \A k \in K : g[k] = SumFunctionOnSet(f, {i \in S : key[i] = k})
  PROVE  Figure!SumFunction(g) = SumFunctionOnSet(f, S)
  <1>1. Figure!SumFunction(g) = SumFunctionOnSet(g, K)
    BY FigureSums
  <1>2. SumFunctionOnSet(g, K) = SumFunctionOnSet(f, S)
    <2>1. SumsOfKeys(key, S, K, f, g)
      BY DEF SumsOfKeys
    <2> QED BY <2>1, SumByKey
  <1> QED BY <1>1, <1>2

\* A donor's summary is the sum of its list of grantees.
LEMMA FigureSummary ==
  ASSUME Figure!FiguresAssumption, Figure!TypeOK, NEW d
  PROVE  LET summary == Figure!get_funded_budgets_summary(d)
             grantees == Figure!get_funded_grantees(d)
         IN  /\ summary.total_budgets
                  = Figure!SumFunction([o \in DOMAIN grantees |-> grantees[o].budgets_count])
             /\ \A c : Figure!At(summary.allocated, c)
                  = Figure!SumFunction([o \in DOMAIN grantees |->
                                          Figure!At(grantees[o].allocated, c)])
  <1> DEFINE summary == Figure!get_funded_budgets_summary(d)
             grantees == Figure!get_funded_grantees(d)
             F == Figure!FundedBy(d)
             O == {Figure!Owner(i) : i \in F}
             owner == [i \in F |-> Figure!Owner(i)]
             of(o) == Figure!FundedBy(d) \cap Figure!Owned(o)
             sums(o) == Figure!FundedBy(d) \cap Figure!OwnedConfirmed(o)
             com == FigureCommitted
  <1>1. F \subseteq Figure!Ids /\ IsFiniteSet(F)
    <2>1. F \subseteq Figure!Ids
      BY DEF Figure!FundedBy
    <2> QED BY <2>1, FigureBudgets, FS_Subset
  <1>2. IsFiniteSet(O) /\ \A i \in F : owner[i] \in O
    <2>1. O = {owner[i] : i \in F}
      OBVIOUS
    <2>2. IsFiniteSet({owner[i] : i \in F})
      BY <1>1, FigureImage
    <2> QED BY <2>1, <2>2
  <1>3. /\ summary.total_budgets = Figure!Cardinality(F)
        /\ summary.allocated
             = FigureBy(com, Figure!Rated({i \in F : Figure!Confirmed(i)}))
    BY FigureSums DEF Figure!get_funded_budgets_summary, Figure!ByCurrency, Figure!GroupBy,
                      Figure!Sum, FigureBy, FigureCommitted
  <1>4. DOMAIN grantees = O
        /\ \A o \in O :
             /\ grantees[o].budgets_count = Figure!Cardinality(of(o))
             /\ grantees[o].allocated = FigureBy(com, Figure!Rated(sums(o)))
    BY FigureSums DEF Figure!get_funded_grantees, Figure!ByCurrency, Figure!GroupBy, Figure!Sum,
                      FigureBy, FigureCommitted
  <1>5. \A o : of(o) = {i \in F : owner[i] = o}
    BY <1>1 DEF Figure!Owned
  <1>6. \A o : sums(o) = {i \in F : owner[i] = o /\ Figure!Confirmed(i)}
    BY <1>1 DEF Figure!Owned, Figure!OwnedConfirmed
  <1> HIDE DEF summary, grantees, F, O, owner, of, sums, com
  <1>7. summary.total_budgets
          = Figure!SumFunction([o \in O |-> grantees[o].budgets_count])
    <2> DEFINE one == [i \in F |-> 1]
               g == [o \in O |-> grantees[o].budgets_count]
    <2>1. \A S \in SUBSET F : IsFiniteSet(S) /\ SumFunctionOnSet(one, S) = Cardinality(S)
      <3> SUFFICES ASSUME NEW S \in SUBSET F
                   PROVE  IsFiniteSet(S) /\ SumFunctionOnSet(one, S) = Cardinality(S)
        OBVIOUS
      <3>1. IsFiniteSet(S) /\ \A x \in S : one[x] = 1
        BY <1>1, FS_Subset
      <3> HIDE DEF one
      <3> QED BY <3>1, SumOfOnes
    <2>2. \A o \in O : g[o] = SumFunctionOnSet(one, {i \in F : owner[i] = o})
      <3> SUFFICES ASSUME NEW o \in O
                   PROVE  grantees[o].budgets_count = SumFunctionOnSet(one, {i \in F : owner[i] = o})
        OBVIOUS
      <3>1. SumFunctionOnSet(one, {i \in F : owner[i] = o}) = Cardinality({i \in F : owner[i] = o})
        BY <2>1
      <3>2. grantees[o].budgets_count = Cardinality({i \in F : owner[i] = o})
        BY <1>4, <1>5, FigureSums
      <3> QED BY <3>1, <3>2
    <2>3. \A i \in F : one[i] \in Int
      OBVIOUS
    <2>4. summary.total_budgets = SumFunctionOnSet(one, F)
      BY <1>3, <2>1, FigureSums
    <2>5. DOMAIN g = O
      OBVIOUS
    <2> HIDE DEF one, g
    <2>6. Figure!SumFunction(g) = SumFunctionOnSet(one, F)
      BY <1>1, <1>2, <2>2, <2>3, <2>5, FigureTotals
    <2> QED BY <2>4, <2>6 DEF g
  <1>8. ASSUME NEW c
        PROVE  Figure!At(summary.allocated, c)
                 = Figure!SumFunction([o \in O |-> Figure!At(grantees[o].allocated, c)])
    <2> DEFINE S == {i \in Figure!Rated({i \in F : Figure!Confirmed(i)}) : Figure!Currency(i) = c}
               g == [o \in O |-> Figure!At(grantees[o].allocated, c)]
    <2>1. S \subseteq F /\ S \subseteq Figure!Ids /\ IsFiniteSet(S)
      <3>1. S \subseteq F
        BY DEF Figure!Rated
      <3> QED BY <1>1, <3>1, FS_Subset
    <2>2. \A i \in S : com[i] \in Int
      BY <2>1, FigureBudgets DEF com, FigureCommitted
    <2>3. Figure!At(summary.allocated, c) = SumFunctionOnSet(com, S)
      BY <1>3, FigureAt
    <2>4. \A o \in O : g[o] = SumFunctionOnSet(com, {i \in S : owner[i] = o})
      <3> SUFFICES ASSUME NEW o \in O
                   PROVE  Figure!At(grantees[o].allocated, c)
                            = SumFunctionOnSet(com, {i \in S : owner[i] = o})
        OBVIOUS
      <3>1. Figure!At(grantees[o].allocated, c)
              = SumFunctionOnSet(com, {i \in Figure!Rated(sums(o)) : Figure!Currency(i) = c})
        BY <1>4, FigureAt
      <3>2. {i \in Figure!Rated(sums(o)) : Figure!Currency(i) = c} = {i \in S : owner[i] = o}
        BY <1>6 DEF Figure!Rated
      <3> QED BY <3>1, <3>2
    <2>5. \A i \in S : owner[i] \in O
      BY <1>2, <2>1
    <2>6. DOMAIN g = O
      OBVIOUS
    <2> HIDE DEF S, g
    <2>7. Figure!SumFunction(g) = SumFunctionOnSet(com, S)
      BY <1>2, <2>1, <2>2, <2>4, <2>5, <2>6, FigureTotals
    <2> QED BY <2>3, <2>7 DEF g
  <1> QED BY <1>4, <1>7, <1>8 DEF summary, grantees

\* What an owner has committed is what its funders, and nobody in particular, allocated to it.
LEMMA FigureCommits ==
  ASSUME Figure!FiguresAssumption, Figure!TypeOK, NEW o, NEW c
  PROVE  Figure!At(Figure!dashboard_summary(o).committed_by_currency, c)
           = Figure!SumFunction([d \in Figure!Funders |->
               IF o \in DOMAIN Figure!get_funded_grantees(d)
               THEN Figure!At(Figure!get_funded_grantees(d)[o].allocated, c) ELSE 0])
  <1> DEFINE com == FigureCommitted
             S == {i \in Figure!Rated(Figure!OwnedConfirmed(o)) : Figure!Currency(i) = c}
             funder == [i \in S |-> Figure!Funder(i)]
             grantees(d) == Figure!get_funded_grantees(d)
             rated(d) == Figure!Rated(Figure!FundedBy(d) \cap Figure!OwnedConfirmed(o))
             g == [d \in Figure!Funders |->
                     IF o \in DOMAIN grantees(d) THEN Figure!At(grantees(d)[o].allocated, c) ELSE 0]
  <1>1. S \subseteq Figure!Ids /\ IsFiniteSet(S)
    <2>1. S \subseteq Figure!Ids
      BY DEF Figure!Rated, Figure!OwnedConfirmed, Figure!Owned
    <2> QED BY <2>1, FigureBudgets, FS_Subset
  <1>2. \A i \in S : com[i] \in Int
    BY <1>1, FigureBudgets DEF FigureCommitted
  <1>3. Figure!At(Figure!dashboard_summary(o).committed_by_currency, c) = SumFunctionOnSet(com, S)
    <2>1. Figure!dashboard_summary(o).committed_by_currency
            = FigureBy(com, Figure!Rated(Figure!OwnedConfirmed(o)))
      BY FigureSums DEF Figure!dashboard_summary, Figure!sum_committed_by_currency,
                        Figure!ByCurrency, Figure!GroupBy, Figure!Sum, FigureBy, FigureCommitted
    <2> QED BY <2>1, FigureAt
  <1>4. /\ IsFiniteSet(Figure!Funders) /\ \A i \in S : funder[i] \in Figure!Funders
    <2> DEFINE of == [k \in Kinds |-> k.funder]
    <2>1. Figure!Funders = {of[k] : k \in Kinds}
      BY DEF Figure!Funders
    <2>2. IsFiniteSet(Kinds)
      BY DEF Figure!FiguresAssumption, Figure!IsFiniteSet, IsFiniteSet
    <2> HIDE DEF of
    <2>3. IsFiniteSet(Figure!Funders)
      BY <2>1, <2>2, FigureImage
    <2>4. \A i \in S : funder[i] \in Figure!Funders
      BY <1>1, FigureBudgets DEF Figure!Funders, Figure!Funder
    <2> QED BY <2>3, <2>4
  <1>5. ASSUME NEW d \in Figure!Funders
        PROVE  g[d] = SumFunctionOnSet(com, {i \in S : funder[i] = d})
    <2>1. {i \in S : funder[i] = d} = {i \in rated(d) : Figure!Currency(i) = c}
      BY <1>1 DEF Figure!Rated, Figure!FundedBy
    <2>2. DOMAIN grantees(d) = {Figure!Owner(i) : i \in Figure!FundedBy(d)}
          /\ \A p \in DOMAIN grantees(d) : grantees(d)[p].allocated
               = FigureBy(com, Figure!Rated(Figure!FundedBy(d) \cap Figure!OwnedConfirmed(p)))
      BY FigureSums DEF Figure!get_funded_grantees, Figure!ByCurrency, Figure!GroupBy, Figure!Sum,
                        FigureBy, FigureCommitted
    <2> HIDE DEF grantees
    <2>3. CASE o \in DOMAIN grantees(d)
      <3>1. g[d] = Figure!At(FigureBy(com, rated(d)), c)
        BY <2>2, <2>3
      <3>2. Figure!At(FigureBy(com, rated(d)), c)
              = SumFunctionOnSet(com, {i \in rated(d) : Figure!Currency(i) = c})
        BY FigureAt
      <3> HIDE DEF g, rated, S, funder
      <3> QED BY <2>1, <3>1, <3>2
    <2>4. CASE o \notin DOMAIN grantees(d)
      <3>1. g[d] = 0
        BY <2>4
      <3>2. {i \in rated(d) : Figure!Currency(i) = c} = {}
        BY <2>2, <2>4 DEF Figure!Rated, Figure!OwnedConfirmed, Figure!Owned
      <3> QED BY <2>1, <3>1, <3>2, SumEmpty
    <2> QED BY <2>3, <2>4
  <1>6. DOMAIN g = Figure!Funders
    OBVIOUS
  <1> HIDE DEF S, funder, g, com
  <1>7. Figure!SumFunction(g) = SumFunctionOnSet(com, S)
    BY <1>1, <1>2, <1>4, <1>5, <1>6, FigureTotals
  <1> QED BY <1>3, <1>7 DEF g

\* What was received and not converted is what the ledgers have left.
LEMMA FigureRemains ==
  ASSUME Figure!FiguresAssumption, Figure!TypeOK, NEW o, NEW c, c # none
  PROVE  Figure!At(Figure!sum_received_by_currency(o), c)
             - Figure!At(Figure!sum_converted_by_currency(o), c)
           = SumFunctionOnSet([i \in Figure!Ids |-> Figure!ledger_balance(i).donor],
                              {i \in Figure!OwnedConfirmed(o) : Figure!Currency(i) = c})
  <1> DEFINE S == {i \in Figure!OwnedConfirmed(o) : Figure!Currency(i) = c}
             SR == {i \in Figure!OwnedConfirmed(o) : Figure!Currency(i) # none /\ received[i] # <<>>}
             SC == {i \in Figure!OwnedConfirmed(o) : Figure!Currency(i) # none /\ converted[i] # <<>>}
             R == {i \in SR : Figure!Currency(i) = c}
             C == {i \in SC : Figure!Currency(i) = c}
             got == [i \in Figure!Ids |-> Figure!Got(i)]
             don == [i \in Figure!Ids |-> Figure!Donor(i)]
             left == [i \in Figure!Ids |-> Figure!ledger_balance(i).donor]
  <1>1. S \subseteq Figure!Ids /\ IsFiniteSet(S)
    <2>1. S \subseteq Figure!Ids
      BY DEF Figure!OwnedConfirmed, Figure!Owned
    <2> QED BY <2>1, FigureBudgets, FS_Subset
  <1>2. R \in SUBSET S /\ C \in SUBSET S
    OBVIOUS
  <1>3. /\ \A i \in S : got[i] \in Int /\ don[i] \in Int
        /\ \A i \in S \ R : got[i] = 0
        /\ \A i \in S \ C : don[i] = 0
    <2>1. \A i \in S : Figure!Currency(i) # none
      OBVIOUS
    <2> QED BY <1>1, <2>1, FigureBudgets
  <1>4. \A i \in S : left[i] \in Int /\ got[i] = left[i] + don[i]
    <2> SUFFICES ASSUME NEW i \in S PROVE left[i] \in Int /\ got[i] = left[i] + don[i]
      OBVIOUS
    <2>1. left[i] = Figure!Got(i) - Figure!Donor(i) /\ got[i] = Figure!Got(i) /\ don[i] = Figure!Donor(i)
      BY <1>1 DEF Figure!ledger_balance
    <2>2. got[i] \in Int /\ don[i] \in Int
      BY <1>3
    <2> HIDE DEF got, don, left
    <2> QED BY <2>1, <2>2
  <1>5. /\ Figure!sum_received_by_currency(o) = FigureBy(got, SR)
        /\ Figure!sum_converted_by_currency(o) = FigureBy(don, SC)
    BY FigureSums DEF Figure!sum_received_by_currency, Figure!sum_converted_by_currency,
                      Figure!ByCurrency, Figure!GroupBy, Figure!Sum, FigureBy
  <1> HIDE DEF S, SR, SC, got, don, left
  <1>6. /\ Figure!At(Figure!sum_received_by_currency(o), c) = SumFunctionOnSet(got, R)
        /\ Figure!At(Figure!sum_converted_by_currency(o), c) = SumFunctionOnSet(don, C)
    BY <1>5, FigureAt
  <1> HIDE DEF R, C
  <1>7. /\ SumFunctionOnSet(got, R) = SumFunctionOnSet(got, S)
        /\ SumFunctionOnSet(don, C) = SumFunctionOnSet(don, S)
    BY <1>1, <1>2, <1>3, FigureZeros
  <1>8. SumFunctionOnSet(got, S) = SumFunctionOnSet(left, S) + SumFunctionOnSet(don, S)
    BY <1>1, <1>3, <1>4, SumOfSums
  <1>9. SumFunctionOnSet(left, S) \in Int /\ SumFunctionOnSet(don, S) \in Int
    BY <1>1, <1>3, <1>4, SumType
  <1>10. SumFunctionOnSet(got, S) - SumFunctionOnSet(don, S) = SumFunctionOnSet(left, S)
    BY <1>8, <1>9
  <1> QED BY <1>6, <1>7, <1>10 DEF left, S

\* The figures of the tables agree.
LEMMA FigureAgrees ==
  ASSUME Figure!FiguresAssumption, Figure!TypeOK
  PROVE  Figure!FiguresAgree
  <1>1. Figure!SummaryIsOfGrantees
    BY FigureSummary DEF Figure!SummaryIsOfGrantees, Figure!Total
  <1>2. Figure!CommittedIsAllocated
    BY FigureCommits DEF Figure!CommittedIsAllocated, Figure!Total
  <1>3. Figure!DashboardIsLedger
    <2> SUFFICES ASSUME NEW o \in Figure!Owners
                 PROVE  LET board == Figure!dashboard_summary(o)
                            left(c) == {i \in Figure!OwnedConfirmed(o) : Figure!Currency(i) = c}
                            donor(i) == Figure!ledger_balance(i).donor
                        IN  /\ \A i \in Figure!OwnedConfirmed(o) :
                                 board.breakdown[i] = Figure!ledger_balance(i).local
                            /\ \A c \in DOMAIN board.conversion_progress :
                                 board.conversion_progress[c].received
                                     - board.conversion_progress[c].converted
                                   = Figure!Sum(donor, left(c))
      BY DEF Figure!DashboardIsLedger
    <2> DEFINE board == Figure!dashboard_summary(o)
               got == Figure!sum_received_by_currency(o)
               turned == Figure!sum_converted_by_currency(o)
               balance == [i \in Figure!Ids |-> Figure!ledger_balance(i).donor]
    <2>1. \A i \in Figure!OwnedConfirmed(o) :
            board.breakdown[i] = Figure!ledger_balance(i).local
      BY DEF Figure!dashboard_summary, Figure!budget_breakdown, Figure!ledger_balance
    <2>2. board.conversion_progress
            = [u \in DOMAIN got \cup DOMAIN turned |->
                 [received |-> Figure!At(got, u), converted |-> Figure!At(turned, u)]]
      BY DEF Figure!dashboard_summary
    <2>3. none \notin DOMAIN got /\ none \notin DOMAIN turned
      BY DEF Figure!sum_received_by_currency, Figure!sum_converted_by_currency,
             Figure!ByCurrency, Figure!GroupBy
    <2> HIDE DEF board, got, turned
    <2>4. ASSUME NEW c \in DOMAIN board.conversion_progress
          PROVE  board.conversion_progress[c].received - board.conversion_progress[c].converted
                   = SumFunctionOnSet(balance, {i \in Figure!OwnedConfirmed(o) : Figure!Currency(i) = c})
      <3>1. c # none /\ board.conversion_progress[c].received = Figure!At(got, c)
            /\ board.conversion_progress[c].converted = Figure!At(turned, c)
        BY <2>2, <2>3
      <3>2. Figure!At(got, c) - Figure!At(turned, c)
              = SumFunctionOnSet(balance, {i \in Figure!OwnedConfirmed(o) : Figure!Currency(i) = c})
        BY <3>1, FigureRemains DEF got, turned
      <3> QED BY <3>1, <3>2
    <2>5. \A c \in DOMAIN board.conversion_progress :
            board.conversion_progress[c].received - board.conversion_progress[c].converted
              = Figure!SumFunctionOnSet(balance, {i \in Figure!OwnedConfirmed(o) : Figure!Currency(i) = c})
      BY <2>4, FigureSums
    <2> QED BY <2>1, <2>5 DEF board, Figure!Sum
  <1> QED BY <1>1, <1>2, <1>3 DEF Figure!FiguresAgree

\* The tables are empty at the start.
LEMMA FigureTypesInit ==
  ASSUME Figure!FiguresAssumption, Figure!Init PROVE Figure!TypeOK
  BY DEF Figure!Init, Figure!TypeOK, Figure!FiguresAssumption

\* They do not change with the other parts.
LEMMA FigureTypesStay ==
  ASSUME Figure!TypeOK, UNCHANGED <<budgets, received, converted, spent>> PROVE Figure!TypeOK'
  BY DEF Figure!TypeOK, Figure!Statuses

\* Every step keeps the types.
LEMMA FigureTypesStep ==
  ASSUME Figure!FiguresAssumption, Figure!TypeOK, [Figure!Next]_(Figure!vars)
  PROVE  Figure!TypeOK'
  <1>1. CASE UNCHANGED Figure!vars
    BY <1>1, FigureTypesStay DEF Figure!vars
  <1>2. CASE Figure!Next
    BY <1>2, FigureTypes
  <1> QED BY <1>1, <1>2

-----------------------------------------------------------------------------
(* Migrations that rewrite data (BudgetMigrations).                        *)

\* The instance adds up as SumTheorems does.
LEMMA MigrationTotal == ASSUME NEW f, NEW S PROVE Migration!Total(f, S) = SumFunctionOnSet(f, S)
  BY DEF Migration!Total, Migration!SumFunctionOnSet, Migration!FoldFunctionOnSet,
         Migration!MapThenFoldSet, SumFunctionOnSet, FoldFunctionOnSet, MapThenFoldSet

\* A sum of at most two.
LEMMA MigrationTwo ==
  ASSUME NEW a, NEW b, a # b, NEW S, S \subseteq {a, b}, NEW f, \A x \in S : f[x] \in Int
  PROVE  SumFunctionOnSet(f, S)
           = (IF a \in S THEN f[a] ELSE 0) + (IF b \in S THEN f[b] ELSE 0)
  <1>1. CASE a \in S /\ b \in S
    <2>1. S = {a} \cup {b} /\ IsFiniteSet({a}) /\ b \notin {a}
      BY <1>1, FS_Singleton
    <2>2. SumFunctionOnSet(f, S) = f[b] + SumFunctionOnSet(f, {a})
      BY <1>1, <2>1, SumAdd
    <2>3. SumFunctionOnSet(f, {a}) = f[a]
      BY <1>1, SumSingle
    <2> QED BY <1>1, <2>2, <2>3
  <1>2. CASE a \in S /\ b \notin S
    <2>1. S = {a}
      BY <1>2
    <2> QED BY <1>2, <2>1, SumSingle
  <1>3. CASE a \notin S /\ b \in S
    <2>1. S = {b}
      BY <1>3
    <2> QED BY <1>3, <2>1, SumSingle
  <1>4. CASE a \notin S /\ b \notin S
    <2>1. S = {}
      BY <1>4
    <2> QED BY <1>4, <2>1, SumEmpty
  <1> QED BY <1>1, <1>2, <1>3, <1>4

\* What a half upwards makes of a number.
LEMMA MigrationRounded ==
  ASSUME Parts \in Nat \ {0}, NEW x \in Int
  PROVE  /\ Migration!Rounded(x) \in Int
         /\ 2 * (Parts * Migration!Rounded(x)) =< 2 * x + Parts
         /\ 2 * x + Parts < 2 * (Parts * Migration!Rounded(x)) + 2 * Parts
  <1> DEFINE q == 2 * Parts
             n == 2 * x + Parts
             r == Migration!Rounded(x)
  <1>1. q \in Nat /\ q > 0 /\ n \in Int /\ r = n \div q
    BY DEF Migration!Rounded
  <1> HIDE DEF q, n, r
  <1>2. r \in Int /\ q * r =< n /\ n < q * r + q
    BY <1>1
  <1>3. q * r = 2 * (Parts * r)
    BY <1>2 DEF q
  <1> QED BY <1>2, <1>3 DEF q, n, r

\* Two amounts that are rounded exceed their rounded cap by one at most, and one by none.
LEMMA MigrationExcess ==
  ASSUME Parts \in Nat \ {0}, NEW cap \in Int
  PROVE  /\ \A a, b \in Int : a + b =< cap =>
              Migration!Rounded(a) + Migration!Rounded(b) - Migration!Rounded(cap) =< 1
         /\ \A a \in Int : a =< cap => Migration!Rounded(a) - Migration!Rounded(cap) =< 0
         /\ 0 =< cap => 0 =< Migration!Rounded(cap)
  <1> DEFINE c == Migration!Rounded(cap)
             pc == Parts * c
  <1>0. c \in Int /\ pc \in Int /\ 2 * pc =< 2 * cap + Parts /\ 2 * cap + Parts < 2 * pc + 2 * Parts
    BY MigrationRounded
  <1>1. ASSUME NEW a \in Int, NEW b \in Int, a + b =< cap
        PROVE  Migration!Rounded(a) + Migration!Rounded(b) - c =< 1
    <2> DEFINE ra == Migration!Rounded(a)
               rb == Migration!Rounded(b)
               pa == Parts * ra
               pb == Parts * rb
    <2>1. ra \in Int /\ pa \in Int /\ 2 * pa =< 2 * a + Parts
      BY MigrationRounded
    <2>2. rb \in Int /\ pb \in Int /\ 2 * pb =< 2 * b + Parts
      BY MigrationRounded
    <2>3. Parts * (ra + rb - c) = pa + pb - pc
      BY <1>0, <2>1, <2>2
    <2> HIDE DEF pa, pb, pc, ra, rb, c
    <2>4. 2 * (pa + pb - pc) < 3 * Parts
      BY <1>0, <1>1, <2>1, <2>2
    <2> DEFINE k == ra + rb - c
    <2>5. k \in Int /\ 2 * (Parts * k) < 3 * Parts
      BY <1>0, <2>1, <2>2, <2>3, <2>4
    <2>6. ASSUME k >= 2 PROVE FALSE
      <3> HIDE DEF k
      <3>1. Parts * k >= Parts * 2
        BY <2>5, <2>6
      <3> QED BY <2>5, <3>1
    <2>7. k =< 1
      BY <2>5, <2>6
    <2> QED BY <2>7 DEF ra, rb, c
  <1>2. ASSUME NEW a \in Int, a =< cap PROVE Migration!Rounded(a) - c =< 0
    <2> DEFINE ra == Migration!Rounded(a)
               pa == Parts * ra
    <2>1. ra \in Int /\ pa \in Int /\ 2 * pa =< 2 * a + Parts
      BY MigrationRounded
    <2>3. Parts * (ra - c) = pa - pc
      BY <1>0, <2>1
    <2> HIDE DEF pa, pc, ra, c
    <2>4. 2 * (pa - pc) < 2 * Parts
      BY <1>0, <1>2, <2>1
    <2> DEFINE k == ra - c
    <2>5. k \in Int /\ Parts * k < Parts
      BY <1>0, <2>1, <2>3, <2>4
    <2>6. ASSUME k >= 1 PROVE FALSE
      <3> HIDE DEF k
      <3>1. Parts * k >= Parts * 1
        BY <2>5, <2>6
      <3> QED BY <2>5, <3>1
    <2>7. k =< 0
      BY <2>5, <2>6
    <2> QED BY <2>7 DEF ra, c
  <1>3. ASSUME 0 =< cap PROVE 0 =< c
    <2> HIDE DEF c
    <2>1. 0 < 2 * pc + 2 * Parts
      BY <1>0, <1>3
    <2>2. ASSUME c =< -1 PROVE FALSE
      <3>1. Parts * c =< Parts * (-1)
        BY <1>0, <2>2
      <3> QED BY <1>0, <2>1, <3>1
    <2> QED BY <1>0, <2>2
  <1> QED BY <1>1, <1>2, <1>3

\* One of two groups in the other's way, and amounts that are rounded: a group of at most two.
LEMMA MigrationRoundGroup ==
  ASSUME Parts \in Nat \ {0}, NEW a, NEW b, a # b, NEW S, S \subseteq {a, b},
         NEW f, \A x \in S : f[x] \in Int, NEW g, \A x \in S : g[x] = Migration!Rounded(f[x]),
         NEW cap \in Int, SumFunctionOnSet(f, S) =< cap
  PROVE  /\ SumFunctionOnSet(g, S) - Migration!Rounded(cap) =< 1
         /\ SumFunctionOnSet(g, S) > Migration!Rounded(cap) => {a, b} \subseteq S
  <1>1. \A x \in S : g[x] \in Int
    BY MigrationRounded
  <1>2. SumFunctionOnSet(f, S) = (IF a \in S THEN f[a] ELSE 0) + (IF b \in S THEN f[b] ELSE 0)
    BY MigrationTwo
  <1>3. SumFunctionOnSet(g, S) = (IF a \in S THEN g[a] ELSE 0) + (IF b \in S THEN g[b] ELSE 0)
    BY <1>1, MigrationTwo
  <1>4. Migration!Rounded(cap) \in Int
    BY MigrationRounded
  <1> DEFINE c == Migration!Rounded(cap)
  <1>5. CASE a \in S /\ b \in S
    <2>1. f[a] \in Int /\ f[b] \in Int /\ f[a] + f[b] =< cap
      BY <1>2, <1>5
    <2>2. Migration!Rounded(f[a]) + Migration!Rounded(f[b]) - c =< 1
      BY <2>1, MigrationExcess
    <2>3. g[a] = Migration!Rounded(f[a]) /\ g[b] = Migration!Rounded(f[b])
      BY <1>5
    <2>4. SumFunctionOnSet(g, S) = g[a] + g[b]
      BY <1>1, <1>3, <1>5
    <2>5. SumFunctionOnSet(g, S) - c =< 1
      <3>1. g[a] + g[b] - c =< 1
        BY <2>2, <2>3
      <3>2. g[a] \in Int /\ g[b] \in Int /\ c \in Int
        BY <1>1, <1>4, <1>5
      <3> HIDE DEF c
      <3> QED BY <2>4, <3>1, <3>2
    <2> QED BY <1>5, <2>5
  <1>6. ASSUME NEW x \in S, SumFunctionOnSet(f, S) = f[x], SumFunctionOnSet(g, S) = g[x]
        PROVE  SumFunctionOnSet(g, S) - c =< 0
    <2>1. f[x] \in Int /\ f[x] =< cap
      BY <1>6
    <2>2. Migration!Rounded(f[x]) - c =< 0
      BY <2>1, MigrationExcess
    <2> QED BY <1>6, <2>2
  <1>7. SumFunctionOnSet(g, S) \in Int
    <2>1. IsFiniteSet(S)
      <3>1. IsFiniteSet({a} \cup {b})
        BY FS_Singleton, FS_AddElement
      <3>2. S \in SUBSET ({a} \cup {b})
        OBVIOUS
      <3> QED BY <3>1, <3>2, FS_Subset
    <2> QED BY <1>1, <2>1, SumType
  <1>8. ASSUME SumFunctionOnSet(g, S) - c =< 0
        PROVE  SumFunctionOnSet(g, S) - c =< 1 /\ ~(SumFunctionOnSet(g, S) > c)
    BY <1>4, <1>7, <1>8
  <1>9. CASE a \in S /\ b \notin S
    <2>1. SumFunctionOnSet(f, S) = f[a] /\ SumFunctionOnSet(g, S) = g[a]
      BY <1>1, <1>2, <1>3, <1>9
    <2> QED BY <1>6, <1>8, <1>9, <2>1
  <1>10. CASE a \notin S /\ b \in S
    <2>1. SumFunctionOnSet(f, S) = f[b] /\ SumFunctionOnSet(g, S) = g[b]
      BY <1>1, <1>2, <1>3, <1>10
    <2> QED BY <1>6, <1>8, <1>10, <2>1
  <1>11. CASE a \notin S /\ b \notin S
    <2>1. 0 =< cap /\ SumFunctionOnSet(g, S) = 0
      BY <1>2, <1>3, <1>11
    <2>2. SumFunctionOnSet(g, S) - c =< 0
      BY <1>4, <2>1, MigrationExcess
    <2> QED BY <1>8, <2>2
  <1> QED BY <1>5, <1>9, <1>10, <1>11

\* A statement that claws back one too much of each group, of groups that share nothing, takes
\* it from one allocation of the group and leaves the group within its cap.
LEMMA MigrationClawBack ==
  ASSUME Migration!MigrationsAssumption, NEW D, IsFiniteSet(D), D \subseteq Migration!Pairs,
         DOMAIN allocated = D, \A p \in D : allocated[p] \in Int,
         NEW groups, \A g \in Migration!Group : groups[g] \subseteq D,
         \A g, h \in Migration!Group : g # h => groups[g] \cap groups[h] = {},
         NEW cap, DOMAIN cap = Migration!Group, \A g \in Migration!Group : cap[g] \in Int,
         \A g \in Migration!Group : SumFunctionOnSet(allocated, groups[g]) - cap[g] =< 1,
         Migration!ClawBack(groups, cap)
  PROVE  /\ DOMAIN allocated' = D
         /\ \A p \in D : /\ allocated'[p] \in Int
                         /\ \/ allocated'[p] = allocated[p]
                            \/ /\ allocated'[p] = allocated[p] - 1
                               /\ \E g \in Migration!Group :
                                    p \in groups[g] /\ SumFunctionOnSet(allocated, groups[g]) > cap[g]
         /\ \A g \in Migration!Group : SumFunctionOnSet(allocated', groups[g]) =< cap[g]
  <1> DEFINE G == Migration!Group
             sum(g) == SumFunctionOnSet(allocated, groups[g])
             excess == [g \in G |-> sum(g) - cap[g]]
  <1>1. PICK largest \in [G -> Migration!Pairs \cup {none}] :
          /\ \A g \in G :
               IF excess[g] > 0
               THEN largest[g] \in groups[g] /\ \A p \in groups[g] : allocated[p] <= allocated[largest[g]]
               ELSE largest[g] = none
          /\ allocated' = [p \in D |->
                             allocated[p] - SumFunctionOnSet(excess, {g \in G : largest[g] = p})]
    <2>1. excess = [g \in DOMAIN cap |-> Migration!Total(allocated, groups[g]) - cap[g]]
      BY MigrationTotal
    <2> HIDE DEF excess
    <2> QED BY <2>1, MigrationTotal DEF Migration!ClawBack
  <1>2. \A g \in G : IsFiniteSet(groups[g]) /\ \A p \in groups[g] : allocated[p] \in Int
    BY FS_Subset
  <1>3. \A g \in G : sum(g) \in Int /\ excess[g] = sum(g) - cap[g] /\ excess[g] \in Int /\ excess[g] =< 1
    <2> SUFFICES ASSUME NEW g \in G PROVE sum(g) \in Int /\ excess[g] = sum(g) - cap[g] /\ excess[g] \in Int /\ excess[g] =< 1
      OBVIOUS
    <2>1. sum(g) \in Int
      BY <1>2, SumType
    <2> QED BY <2>1
  <1> DEFINE Taken(p) == {g \in G : largest[g] = p}
  <1>4. \A p \in D, g \in G : g \in Taken(p) =>
           /\ excess[g] = 1 /\ p \in groups[g] /\ Taken(p) = {g} /\ sum(g) > cap[g]
    <2> SUFFICES ASSUME NEW p \in D, NEW g \in G, largest[g] = p
                 PROVE  excess[g] = 1 /\ p \in groups[g] /\ Taken(p) = {g} /\ sum(g) > cap[g]
      OBVIOUS
    <2>0. none \notin Migration!Pairs
      BY DEF Migration!MigrationsAssumption
    <2>1. \A h \in G : largest[h] = p => excess[h] > 0 /\ p \in groups[h]
      <3> HIDE DEF excess
      <3> QED BY <1>1, <2>0
    <2>2. excess[g] > 0 /\ p \in groups[g]
      BY <2>1
    <2>3. excess[g] = 1 /\ sum(g) > cap[g]
      <3> HIDE DEF excess, sum
      <3> QED BY <1>3, <2>2
    <2>4. \A h \in G : largest[h] = p => h = g
      BY <2>1, <2>2
    <2> QED BY <2>2, <2>3, <2>4
  <1>5. ASSUME NEW p \in D, Taken(p) = {} PROVE allocated'[p] = allocated[p]
    <2>1. SumFunctionOnSet(excess, Taken(p)) = 0
      BY <1>5, SumEmpty
    <2>2. allocated'[p] = allocated[p] - SumFunctionOnSet(excess, Taken(p))
      BY <1>1
    <2> HIDE DEF excess, Taken
    <2> QED BY <2>1, <2>2
  <1>6. ASSUME NEW p \in D, NEW g \in G, g \in Taken(p) PROVE allocated'[p] = allocated[p] - excess[g]
    <2>1. Taken(p) = {g} /\ excess[g] \in Int
      BY <1>3, <1>4, <1>6
    <2>2. SumFunctionOnSet(excess, {g}) = excess[g]
      <3> HIDE DEF excess
      <3> QED BY <2>1, SumSingle
    <2>3. allocated'[p] = allocated[p] - SumFunctionOnSet(excess, Taken(p))
      BY <1>1
    <2> HIDE DEF excess, Taken
    <2> QED BY <2>1, <2>2, <2>3
  <1>7. DOMAIN allocated' = D
    BY <1>1
  <1>8. ASSUME NEW p \in D
        PROVE  /\ allocated'[p] \in Int
               /\ \/ allocated'[p] = allocated[p]
                  \/ /\ allocated'[p] = allocated[p] - 1
                     /\ \E g \in G : p \in groups[g] /\ sum(g) > cap[g]
    <2>1. CASE Taken(p) = {}
      BY <1>5, <2>1
    <2>2. CASE \E g \in G : g \in Taken(p)
      <3>1. PICK g \in G : g \in Taken(p)
        BY <2>2
      <3>2. excess[g] = 1 /\ p \in groups[g] /\ sum(g) > cap[g]
        BY <1>4, <3>1
      <3>3. allocated'[p] = allocated[p] - 1
        <4> HIDE DEF excess, Taken
        <4> QED BY <1>6, <3>1, <3>2
      <3> QED BY <3>2, <3>3
    <2> QED BY <2>1, <2>2
  <1>9. ASSUME NEW g \in G PROVE SumFunctionOnSet(allocated', groups[g]) =< cap[g]
    <2>1. \A p \in groups[g] : p \in D /\ allocated[p] \in Int /\ allocated'[p] \in Int
      BY <1>8
    <2>2. \A p \in groups[g], h \in G : h \in Taken(p) => h = g
      <3> HIDE DEF Taken, excess
      <3> QED BY <1>4, <2>1
    <2>3. CASE excess[g] =< 0
      <3>1. \A p \in groups[g] : Taken(p) = {}
        <4> SUFFICES ASSUME NEW p \in groups[g], NEW h \in Taken(p) PROVE FALSE
          OBVIOUS
        <4>1. h = g /\ excess[h] = 1
          BY <1>4, <2>1, <2>2
        <4> HIDE DEF excess
        <4> QED BY <2>3, <4>1
      <3>2. \A p \in groups[g] : allocated'[p] = allocated[p]
        <4> HIDE DEF Taken
        <4> QED BY <1>5, <2>1, <3>1
      <3>3. sum(g) = SumFunctionOnSet(allocated', groups[g])
        BY <1>2, <2>1, <3>2, SumSame
      <3>4. sum(g) =< cap[g]
        <4> HIDE DEF excess, sum
        <4> QED BY <1>3, <2>3
      <3> HIDE DEF sum
      <3> QED BY <3>3, <3>4
    <2>4. CASE excess[g] > 0
      <3> DEFINE p == largest[g]
      <3>1. p \in groups[g]
        <4> HIDE DEF excess
        <4> QED BY <1>1, <2>4
      <3>2. g \in Taken(p)
        OBVIOUS
      <3>3. allocated'[p] = allocated[p] - excess[g]
        <4> HIDE DEF Taken, excess, p
        <4> QED BY <1>6, <2>1, <3>1, <3>2
      <3>4. \A q \in groups[g] : q # p => allocated'[q] = allocated[q]
        <4> SUFFICES ASSUME NEW q \in groups[g], q # p PROVE allocated'[q] = allocated[q]
          OBVIOUS
        <4>1. Taken(q) = {}
          BY <2>2
        <4> HIDE DEF Taken, excess, p
        <4> QED BY <1>5, <2>1, <4>1
      <3>5. SumFunctionOnSet(allocated', groups[g]) = sum(g) - allocated[p] + allocated'[p]
        <4> HIDE DEF p
        <4>1. IsFiniteSet(groups[g]) /\ p \in groups[g]
          BY <1>2, <3>1
        <4>2. \A q \in groups[g] : /\ allocated[q] \in Int /\ allocated'[q] \in Int
                                   /\ q # p => allocated'[q] = allocated[q]
          BY <2>1, <3>4
        <4> DEFINE s == groups[g]
        <4> HIDE DEF s, Taken, excess, G
        <4>3. \A f, h : (\A q \in s : f[q] \in Int /\ h[q] \in Int /\ (q # p => h[q] = f[q]))
                => SumFunctionOnSet(h, s) = SumFunctionOnSet(f, s) - f[p] + h[p]
          <5> SUFFICES ASSUME NEW f, NEW h,
                              \A q \in s : f[q] \in Int /\ h[q] \in Int /\ (q # p => h[q] = f[q])
                       PROVE  SumFunctionOnSet(h, s) = SumFunctionOnSet(f, s) - f[p] + h[p]
            OBVIOUS
          <5>1. IsFiniteSet(s) /\ p \in s
            BY <4>1 DEF s
          <5> QED BY SMT, <5>1, SumChange
        <4> QED BY Zenon, <4>2, <4>3 DEF s
      <3>6. allocated[p] \in Int
        BY <2>1, <3>1
      <3>7. sum(g) \in Int /\ excess[g] = sum(g) - cap[g] /\ cap[g] \in Int
        BY <1>3
      <3> HIDE DEF excess, sum, p
      <3> QED BY <3>3, <3>5, <3>6, <3>7
    <2> HIDE DEF excess
    <2> QED BY <1>3, <2>3, <2>4
  <1> QED BY <1>7, <1>8, <1>9

\* The allocations there are, and the groups of two they are in.
MigrationRow(e) == {<<e, 1>>, <<e, 2>>}
MigrationColumn(k) == {<<1, k>>, <<2, k>>}
MigrationCells ==
  /\ DOMAIN exact \subseteq Migration!Pairs /\ DOMAIN allocated = DOMAIN exact
  /\ \A p \in DOMAIN exact : exact[p] \in Int /\ allocated[p] \in Int
  /\ DOMAIN expenses = Migration!Group /\ \A e \in Migration!Group : expenses[e] \in Int
  /\ DOMAIN lots = Migration!Group /\ \A k \in Migration!Group : lots[k] \in Int

\* A group is within its cap, or exceeds it by one, when it has two allocations.
MigrationWithin(group, cap) == SumFunctionOnSet(allocated, group) =< cap
MigrationNear(group, cap, both) ==
  /\ SumFunctionOnSet(allocated, group) - cap =< 1
  /\ SumFunctionOnSet(allocated, group) > cap => both \subseteq DOMAIN exact

\* An allocation was rounded, and lost nothing, or one for each of its groups that has two.
MigrationUnmoved(p) == allocated[p] = Migration!Rounded(exact[p])
MigrationMoved(p, by) == allocated[p] = Migration!Rounded(exact[p]) - by
MigrationOnce(p, both) == MigrationMoved(p, 1) /\ both \subseteq DOMAIN exact

\* The inductive invariant of 000019 and 000020.
MigrationRoundInv ==
  step \in Migration!Rounding =>
    /\ MigrationCells
    /\ step = "round" =>
         /\ allocated = exact
         /\ \A e \in Migration!Group : MigrationWithin(Migration!OfExpense(e), expenses[e])
         /\ \A k \in Migration!Group : MigrationWithin(Migration!OfLot(k), lots[k])
    /\ step = "by expense" =>
         /\ \A p \in DOMAIN exact : MigrationUnmoved(p)
         /\ \A e \in Migration!Group :
              MigrationNear(Migration!OfExpense(e), expenses[e], MigrationRow(e))
         /\ \A k \in Migration!Group :
              MigrationNear(Migration!OfLot(k), lots[k], MigrationColumn(k))
    /\ step = "by lot" =>
         /\ \A p \in DOMAIN exact : MigrationUnmoved(p) \/ MigrationOnce(p, MigrationRow(p[1]))
         /\ \A e \in Migration!Group : MigrationWithin(Migration!OfExpense(e), expenses[e])
         /\ \A k \in Migration!Group :
              MigrationNear(Migration!OfLot(k), lots[k], MigrationColumn(k))
    /\ step = "rounded" =>
         /\ \A p \in DOMAIN exact :
              \/ MigrationUnmoved(p)
              \/ MigrationOnce(p, MigrationRow(p[1])) \/ MigrationOnce(p, MigrationColumn(p[2]))
              \/ MigrationMoved(p, 2)
                   /\ MigrationRow(p[1]) \cup MigrationColumn(p[2]) \subseteq DOMAIN exact
         /\ \A e \in Migration!Group : MigrationWithin(Migration!OfExpense(e), expenses[e])
         /\ \A k \in Migration!Group : MigrationWithin(Migration!OfLot(k), lots[k])

\* The groups of the allocations.
LEMMA MigrationGroups ==
  ASSUME NEW D, D \subseteq Migration!Pairs, DOMAIN allocated = D
  PROVE  /\ IsFiniteSet(D) /\ \A p \in D : p[1] \in Migration!Group /\ p[2] \in Migration!Group
         /\ \A p \in D : p \in MigrationRow(p[1]) /\ p \in MigrationColumn(p[2])
         /\ \A e \in Migration!Group :
              /\ Migration!OfExpense(e) \subseteq D /\ Migration!OfExpense(e) \subseteq MigrationRow(e)
              /\ IsFiniteSet(Migration!OfExpense(e))
              /\ \A p \in Migration!OfExpense(e) : p[1] = e
         /\ \A k \in Migration!Group :
              /\ Migration!OfLot(k) \subseteq D /\ Migration!OfLot(k) \subseteq MigrationColumn(k)
              /\ IsFiniteSet(Migration!OfLot(k))
              /\ \A p \in Migration!OfLot(k) : p[2] = k
  <1>1. \A p \in Migration!Pairs : p \in {<<1, 1>>, <<1, 2>>, <<2, 1>>, <<2, 2>>}
    BY DEF Migration!Pairs, Migration!Group
  <1>2. IsFiniteSet(D)
    <2> DEFINE A == {<<1, 1>>} \cup {<<1, 2>>}
               B == A \cup {<<2, 1>>}
               C == B \cup {<<2, 2>>}
    <2>1. IsFiniteSet({<<1, 1>>})
      BY FS_Singleton
    <2>2. IsFiniteSet(A)
      BY <2>1, FS_AddElement
    <2> HIDE DEF A
    <2>3. IsFiniteSet(B)
      BY <2>2, FS_AddElement
    <2> HIDE DEF B
    <2>4. IsFiniteSet(C)
      BY <2>3, FS_AddElement
    <2>5. D \subseteq C
      BY <1>1 DEF A, B
    <2> HIDE DEF C
    <2> QED BY <2>4, <2>5, FS_Subset
  <1>3. \A p \in D : /\ p[1] \in Migration!Group /\ p[2] \in Migration!Group
                     /\ p \in MigrationRow(p[1]) /\ p \in MigrationColumn(p[2])
    BY <1>1 DEF Migration!Group, MigrationRow, MigrationColumn
  <1>4. \A e : Migration!OfExpense(e) \in SUBSET D /\ Migration!OfLot(e) \in SUBSET D
               /\ (\A p \in Migration!OfExpense(e) : p[1] = e)
               /\ (\A p \in Migration!OfLot(e) : p[2] = e)
    BY DEF Migration!OfExpense, Migration!OfLot
  <1>5. \A e : IsFiniteSet(Migration!OfExpense(e)) /\ IsFiniteSet(Migration!OfLot(e))
    BY <1>2, <1>4, FS_Subset
  <1>6. \A e : Migration!OfExpense(e) \subseteq MigrationRow(e) /\ Migration!OfLot(e) \subseteq MigrationColumn(e)
    BY <1>3, <1>4
  <1> QED BY <1>2, <1>3, <1>4, <1>5, <1>6

\* It holds at the start.
LEMMA MigrationRoundInit ==
  ASSUME Migration!MigrationsAssumption, Migration!Init
  PROVE  MigrationRoundInv
  <1>1. CASE Migration!InitScoping
    BY <1>1 DEF Migration!InitScoping, MigrationRoundInv, Migration!Rounding
  <1>2. CASE Migration!InitRounding
    <2>1. PICK pairs \in SUBSET Migration!Pairs : allocated \in [pairs -> Shares]
      BY <1>2 DEF Migration!InitRounding
    <2>2. DOMAIN allocated = pairs /\ exact = allocated /\ \A p \in pairs : allocated[p] \in Int
      <3>1. DOMAIN allocated = pairs /\ \A p \in pairs : allocated[p] \in Shares
        BY <2>1
      <3>2. Shares \subseteq Int
        BY DEF Migration!MigrationsAssumption
      <3>3. exact = allocated
        BY <1>2 DEF Migration!InitRounding
      <3> QED BY <3>1, <3>2, <3>3
    <2>3. \A g \in Migration!Group :
            /\ SumFunctionOnSet(allocated, Migration!OfExpense(g)) \in Int
            /\ SumFunctionOnSet(allocated, Migration!OfLot(g)) \in Int
      <3> SUFFICES ASSUME NEW g \in Migration!Group
                   PROVE  /\ SumFunctionOnSet(allocated, Migration!OfExpense(g)) \in Int
                          /\ SumFunctionOnSet(allocated, Migration!OfLot(g)) \in Int
        OBVIOUS
      <3>1. /\ IsFiniteSet(Migration!OfExpense(g)) /\ \A p \in Migration!OfExpense(g) : allocated[p] \in Int
            /\ IsFiniteSet(Migration!OfLot(g)) /\ \A p \in Migration!OfLot(g) : allocated[p] \in Int
        BY <2>1, <2>2, MigrationGroups
      <3> QED BY <3>1, SumType
    <2>4. /\ DOMAIN expenses = Migration!Group
          /\ \A e \in Migration!Group :
               expenses[e] \in Int /\ MigrationWithin(Migration!OfExpense(e), expenses[e])
      <3>1. PICK more \in [Migration!Group -> Slack] :
              expenses = [e \in Migration!Group |->
                            more[e] + SumFunctionOnSet(allocated, Migration!OfExpense(e))]
        BY <1>2, MigrationTotal DEF Migration!InitRounding
      <3>2. \A e \in Migration!Group : more[e] \in Nat
        BY DEF Migration!MigrationsAssumption
      <3> QED BY <2>3, <3>1, <3>2 DEF MigrationWithin
    <2>5. /\ DOMAIN lots = Migration!Group
          /\ \A k \in Migration!Group :
               lots[k] \in Int /\ MigrationWithin(Migration!OfLot(k), lots[k])
      <3>1. PICK more \in [Migration!Group -> Slack] :
              lots = [k \in Migration!Group |->
                            more[k] + SumFunctionOnSet(allocated, Migration!OfLot(k))]
        BY <1>2, MigrationTotal DEF Migration!InitRounding
      <3>2. \A k \in Migration!Group : more[k] \in Nat
        BY DEF Migration!MigrationsAssumption
      <3> QED BY <2>3, <3>1, <3>2 DEF MigrationWithin
    <2>6. step = "round" /\ MigrationCells
      BY <1>2, <2>1, <2>2, <2>4, <2>5 DEF Migration!InitRounding, MigrationCells
    <2> QED BY <2>2, <2>4, <2>5, <2>6 DEF MigrationRoundInv
  <1> QED BY <1>1, <1>2 DEF Migration!Init

\* The rounding leaves every group within its cap, or one over.
LEMMA MigrationRoundKeeps ==
  ASSUME Migration!MigrationsAssumption, MigrationRoundInv, Migration!Round
  PROVE  MigrationRoundInv'
  <1> DEFINE D == DOMAIN exact
  <1>1. /\ step = "round" /\ step' = "by expense" /\ exact' = exact
        /\ allocated' = [p \in DOMAIN allocated |-> Migration!Rounded(allocated[p])]
        /\ expenses' = [e \in DOMAIN expenses |-> Migration!Rounded(expenses[e])]
        /\ lots' = [k \in DOMAIN lots |-> Migration!Rounded(lots[k])]
    BY DEF Migration!Round, Migration!RoundAll
  <1>2. /\ MigrationCells /\ allocated = exact
        /\ \A e \in Migration!Group : MigrationWithin(Migration!OfExpense(e), expenses[e])
        /\ \A k \in Migration!Group : MigrationWithin(Migration!OfLot(k), lots[k])
    BY <1>1 DEF MigrationRoundInv, Migration!Rounding
  <1>3. Parts \in Nat \ {0}
    BY DEF Migration!MigrationsAssumption
  <1>4. /\ D \subseteq Migration!Pairs /\ DOMAIN allocated = D
        /\ \A p \in D : exact[p] \in Int /\ allocated[p] \in Int
    BY <1>2 DEF MigrationCells
  <1>5. \A e : Migration!OfExpense(e)' = Migration!OfExpense(e) /\ Migration!OfLot(e)' = Migration!OfLot(e)
    BY <1>1 DEF Migration!OfExpense, Migration!OfLot
  <1>6. MigrationCells'
    BY <1>1, <1>2, <1>3, MigrationRounded DEF MigrationCells
  <1>7. \A p \in D : MigrationUnmoved(p)' /\ allocated'[p] = Migration!Rounded(allocated[p])
    BY <1>1, <1>2, <1>4 DEF MigrationUnmoved, Migration!Rounded
  <1>8. ASSUME NEW a, NEW b, a # b, NEW S, S \subseteq {a, b}, S \subseteq D,
               NEW cap \in Int, MigrationWithin(S, cap)
        PROVE  /\ SumFunctionOnSet(allocated', S) - Migration!Rounded(cap) =< 1
               /\ SumFunctionOnSet(allocated', S) > Migration!Rounded(cap) => {a, b} \subseteq S
    <2>1. \A x \in S : allocated[x] \in Int /\ allocated'[x] = Migration!Rounded(allocated[x])
      BY <1>4, <1>7, <1>8
    <2>2. SumFunctionOnSet(allocated, S) =< cap
      BY <1>8 DEF MigrationWithin
    <2> QED BY <1>3, <1>8, <2>1, <2>2, MigrationRoundGroup
  <1>9. ASSUME NEW e \in Migration!Group
        PROVE  MigrationNear(Migration!OfExpense(e), expenses[e], MigrationRow(e))'
    <2> DEFINE a == <<e, 1>>
               b == <<e, 2>>
               S == Migration!OfExpense(e)
               cap == expenses[e]
    <2>1. S \subseteq D /\ S \subseteq {a, b} /\ a # b
      BY <1>4, MigrationGroups DEF MigrationRow
    <2>2. cap \in Int /\ expenses'[e] = Migration!Rounded(cap) /\ MigrationWithin(S, cap)
      BY <1>1, <1>2 DEF MigrationCells
    <2>3. S' = S /\ MigrationRow(e) = {a, b} /\ D' = D
      BY <1>1, <1>5 DEF MigrationRow
    <2> HIDE DEF a, b, S, cap
    <2>4. /\ SumFunctionOnSet(allocated', S) - Migration!Rounded(cap) =< 1
          /\ SumFunctionOnSet(allocated', S) > Migration!Rounded(cap) => {a, b} \subseteq S
      BY <1>8, <2>1, <2>2
    <2>5. /\ SumFunctionOnSet(allocated', S) - expenses'[e] =< 1
          /\ SumFunctionOnSet(allocated', S) > expenses'[e] => MigrationRow(e) \subseteq D
      BY <2>1, <2>2, <2>3, <2>4
    <2> QED BY <2>3, <2>5 DEF MigrationNear, S, D, MigrationRow
  <1>10. ASSUME NEW k \in Migration!Group
         PROVE  MigrationNear(Migration!OfLot(k), lots[k], MigrationColumn(k))'
    <2> DEFINE a == <<1, k>>
               b == <<2, k>>
               S == Migration!OfLot(k)
               cap == lots[k]
    <2>1. S \subseteq D /\ S \subseteq {a, b} /\ a # b
      BY <1>4, MigrationGroups DEF MigrationColumn
    <2>2. cap \in Int /\ lots'[k] = Migration!Rounded(cap) /\ MigrationWithin(S, cap)
      BY <1>1, <1>2 DEF MigrationCells
    <2>3. S' = S /\ MigrationColumn(k) = {a, b} /\ D' = D
      BY <1>1, <1>5 DEF MigrationColumn
    <2> HIDE DEF a, b, S, cap
    <2>4. /\ SumFunctionOnSet(allocated', S) - Migration!Rounded(cap) =< 1
          /\ SumFunctionOnSet(allocated', S) > Migration!Rounded(cap) => {a, b} \subseteq S
      BY <1>8, <2>1, <2>2
    <2>5. /\ SumFunctionOnSet(allocated', S) - lots'[k] =< 1
          /\ SumFunctionOnSet(allocated', S) > lots'[k] => MigrationColumn(k) \subseteq D
      BY <2>1, <2>2, <2>3, <2>4
    <2> QED BY <2>3, <2>5 DEF MigrationNear, S, D, MigrationColumn
  <1> QED BY <1>1, <1>6, <1>7, <1>9, <1>10 DEF MigrationRoundInv

\* The expenses that were exceeded are no longer; nothing else is exceeded by it.
LEMMA MigrationReconcileExpenses ==
  ASSUME Migration!MigrationsAssumption, MigrationRoundInv, Migration!ReconcileExpenses
  PROVE  MigrationRoundInv'
  <1> DEFINE D == DOMAIN exact
             groups == [g \in Migration!Group |-> Migration!OfExpense(g)]
  <1>1. /\ step = "by expense" /\ step' = "by lot"
        /\ Migration!ClawBack(groups, expenses)
        /\ exact' = exact /\ expenses' = expenses /\ lots' = lots
    BY DEF Migration!ReconcileExpenses
  <1>2. /\ MigrationCells
        /\ \A g \in Migration!Group : MigrationNear(Migration!OfExpense(g), expenses[g], MigrationRow(g))
    BY <1>1 DEF MigrationRoundInv, Migration!Rounding
  <1>3. /\ D \subseteq Migration!Pairs /\ DOMAIN allocated = D
        /\ \A p \in D : exact[p] \in Int /\ allocated[p] \in Int
        /\ DOMAIN expenses = Migration!Group /\ \A g \in Migration!Group : expenses[g] \in Int
        /\ DOMAIN lots = Migration!Group /\ \A g \in Migration!Group : lots[g] \in Int
    BY <1>2 DEF MigrationCells
  <1>4. /\ IsFiniteSet(D) /\ \A p \in D : p[1] \in Migration!Group /\ p[2] \in Migration!Group
        /\ \A g \in Migration!Group :
             /\ Migration!OfExpense(g) \subseteq D /\ Migration!OfLot(g) \subseteq D
             /\ IsFiniteSet(Migration!OfExpense(g)) /\ IsFiniteSet(Migration!OfLot(g))
             /\ \A p \in Migration!OfExpense(g) : p[1] = g
    BY <1>3, MigrationGroups
  <1>5. /\ DOMAIN allocated' = D
        /\ \A p \in D : /\ allocated'[p] \in Int
                        /\ \/ allocated'[p] = allocated[p]
                           \/ /\ allocated'[p] = allocated[p] - 1
                              /\ \E g \in Migration!Group :
                                   p \in groups[g] /\ SumFunctionOnSet(allocated, groups[g]) > expenses[g]
        /\ \A g \in Migration!Group : SumFunctionOnSet(allocated', groups[g]) =< expenses[g]
    <2>1. \A g \in Migration!Group : groups[g] \subseteq D
      BY <1>4
    <2>2. \A g, h \in Migration!Group : g # h => groups[g] \cap groups[h] = {}
      BY <1>4
    <2>3. \A g \in Migration!Group : SumFunctionOnSet(allocated, groups[g]) - expenses[g] =< 1
      BY <1>2 DEF MigrationNear
    <2> HIDE DEF groups, D
    <2>4. IsFiniteSet(D) /\ D \subseteq Migration!Pairs /\ DOMAIN allocated = D
          /\ \A p \in D : allocated[p] \in Int
      BY <1>3, <1>4
    <2> QED BY <1>1, <1>3, <2>1, <2>2, <2>3, <2>4, MigrationClawBack
  <1>6. \A g : Migration!OfExpense(g)' = Migration!OfExpense(g) /\ Migration!OfLot(g)' = Migration!OfLot(g)
    BY <1>1, <1>3, <1>5 DEF Migration!OfExpense, Migration!OfLot
  <1>7. MigrationCells'
    BY <1>1, <1>2, <1>5 DEF MigrationCells
  <1>8. ASSUME NEW g \in Migration!Group
        PROVE  MigrationWithin(Migration!OfExpense(g), expenses[g])'
    BY <1>1, <1>5, <1>6 DEF MigrationWithin
  <1>9. ASSUME NEW g \in Migration!Group
        PROVE  /\ SumFunctionOnSet(allocated', Migration!OfLot(g)) \in Int
               /\ SumFunctionOnSet(allocated, Migration!OfLot(g)) \in Int
               /\ SumFunctionOnSet(allocated', Migration!OfLot(g))
                    =< SumFunctionOnSet(allocated, Migration!OfLot(g))
    <2>1. \A p \in Migration!OfLot(g) :
            allocated[p] \in Int /\ allocated'[p] \in Int /\ allocated'[p] =< allocated[p]
      <3> SUFFICES ASSUME NEW p \in D
                   PROVE  allocated[p] \in Int /\ allocated'[p] \in Int /\ allocated'[p] =< allocated[p]
        BY <1>4
      <3>1. allocated[p] \in Int /\ allocated'[p] \in Int
            /\ (allocated'[p] = allocated[p] \/ allocated'[p] = allocated[p] - 1)
        BY <1>3, <1>5
      <3> QED BY <3>1
    <2>2. IsFiniteSet(Migration!OfLot(g))
      BY <1>4
    <2> QED BY <2>1, <2>2, SumType, SumMonotone
  <1>10. ASSUME NEW p \in D
         PROVE  \/ allocated'[p] = allocated[p]
                \/ allocated'[p] = allocated[p] - 1 /\ MigrationRow(p[1]) \subseteq D
    <2>1. CASE allocated'[p] = allocated[p]
      BY <2>1
    <2>2. CASE allocated'[p] # allocated[p]
      <3>1. PICK g \in Migration!Group :
              p \in Migration!OfExpense(g) /\ SumFunctionOnSet(allocated, Migration!OfExpense(g)) > expenses[g]
        BY <1>5, <2>2
      <3>2. p[1] = g /\ MigrationRow(g) \subseteq D
        BY <1>2, <1>4, <3>1 DEF MigrationNear
      <3> QED BY <1>5, <2>2, <3>2
    <2> QED BY <2>1, <2>2
  <1>11. \A p \in D : (MigrationUnmoved(p) \/ MigrationOnce(p, MigrationRow(p[1])))'
    <2> SUFFICES ASSUME NEW p \in D PROVE (MigrationUnmoved(p) \/ MigrationOnce(p, MigrationRow(p[1])))'
      BY <1>1
    <2>1. allocated[p] = Migration!Rounded(exact[p])
      BY <1>1 DEF MigrationRoundInv, Migration!Rounding, MigrationUnmoved
    <2>2. Migration!Rounded(exact[p])' = Migration!Rounded(exact[p])
      BY <1>1 DEF Migration!Rounded
    <2> QED BY <1>1, <1>10, <2>1, <2>2 DEF MigrationUnmoved, MigrationOnce, MigrationMoved,
               MigrationRow
  <1>12. ASSUME NEW k \in Migration!Group
         PROVE  MigrationNear(Migration!OfLot(k), lots[k], MigrationColumn(k))'
    <2>1. MigrationNear(Migration!OfLot(k), lots[k], MigrationColumn(k))
      BY <1>1 DEF MigrationRoundInv, Migration!Rounding
    <2> DEFINE new == SumFunctionOnSet(allocated', Migration!OfLot(k))
               old == SumFunctionOnSet(allocated, Migration!OfLot(k))
    <2>2. old - lots[k] =< 1 /\ (old > lots[k] => MigrationColumn(k) \subseteq D)
      BY <2>1 DEF MigrationNear
    <2>3. new \in Int /\ old \in Int /\ new =< old /\ lots[k] \in Int
      BY <1>3, <1>9
    <2> HIDE DEF new, old
    <2>4. new - lots[k] =< 1 /\ (new > lots[k] => MigrationColumn(k) \subseteq D)
      BY <2>2, <2>3
    <2>5. Migration!OfLot(k)' = Migration!OfLot(k)
      BY <1>6
    <2> QED BY <1>1, <2>4, <2>5 DEF MigrationNear, new, MigrationColumn
  <1> QED BY <1>1, <1>7, <1>8, <1>11, <1>12 DEF MigrationRoundInv

\* The lots that were exceeded are no longer; nothing else is exceeded by it.
LEMMA MigrationReconcileLots ==
  ASSUME Migration!MigrationsAssumption, MigrationRoundInv, Migration!ReconcileLots
  PROVE  MigrationRoundInv'
  <1> DEFINE D == DOMAIN exact
             groups == [g \in Migration!Group |-> Migration!OfLot(g)]
  <1>1. /\ step = "by lot" /\ step' = "rounded"
        /\ Migration!ClawBack(groups, lots)
        /\ exact' = exact /\ expenses' = expenses /\ lots' = lots
    BY DEF Migration!ReconcileLots
  <1>2. /\ MigrationCells
        /\ \A g \in Migration!Group : MigrationNear(Migration!OfLot(g), lots[g], MigrationColumn(g))
    BY <1>1 DEF MigrationRoundInv, Migration!Rounding
  <1>3. /\ D \subseteq Migration!Pairs /\ DOMAIN allocated = D
        /\ \A p \in D : exact[p] \in Int /\ allocated[p] \in Int
        /\ DOMAIN lots = Migration!Group /\ \A g \in Migration!Group : lots[g] \in Int
        /\ DOMAIN expenses = Migration!Group /\ \A g \in Migration!Group : expenses[g] \in Int
    BY <1>2 DEF MigrationCells
  <1>4. /\ IsFiniteSet(D) /\ \A p \in D : p[1] \in Migration!Group /\ p[2] \in Migration!Group
        /\ \A g \in Migration!Group :
             /\ Migration!OfExpense(g) \subseteq D /\ Migration!OfLot(g) \subseteq D
             /\ IsFiniteSet(Migration!OfExpense(g)) /\ IsFiniteSet(Migration!OfLot(g))
             /\ \A p \in Migration!OfLot(g) : p[2] = g
    BY <1>3, MigrationGroups
  <1>5. /\ DOMAIN allocated' = D
        /\ \A p \in D : /\ allocated'[p] \in Int
                        /\ \/ allocated'[p] = allocated[p]
                           \/ /\ allocated'[p] = allocated[p] - 1
                              /\ \E g \in Migration!Group :
                                   p \in groups[g] /\ SumFunctionOnSet(allocated, groups[g]) > lots[g]
        /\ \A g \in Migration!Group : SumFunctionOnSet(allocated', groups[g]) =< lots[g]
    <2>1. \A g \in Migration!Group : groups[g] \subseteq D
      BY <1>4
    <2>2. \A g, h \in Migration!Group : g # h => groups[g] \cap groups[h] = {}
      BY <1>4
    <2>3. \A g \in Migration!Group : SumFunctionOnSet(allocated, groups[g]) - lots[g] =< 1
      BY <1>2 DEF MigrationNear
    <2> HIDE DEF groups, D
    <2>4. IsFiniteSet(D) /\ D \subseteq Migration!Pairs /\ DOMAIN allocated = D
          /\ \A p \in D : allocated[p] \in Int
      BY <1>3, <1>4
    <2> QED BY <1>1, <1>3, <2>1, <2>2, <2>3, <2>4, MigrationClawBack
  <1>6. \A g : Migration!OfExpense(g)' = Migration!OfExpense(g) /\ Migration!OfLot(g)' = Migration!OfLot(g)
    BY <1>1, <1>3, <1>5 DEF Migration!OfExpense, Migration!OfLot
  <1>7. MigrationCells'
    BY <1>1, <1>2, <1>5 DEF MigrationCells
  <1>8. ASSUME NEW g \in Migration!Group
        PROVE  MigrationWithin(Migration!OfLot(g), lots[g])'
    BY <1>1, <1>5, <1>6 DEF MigrationWithin
  <1>9. ASSUME NEW g \in Migration!Group
        PROVE  /\ SumFunctionOnSet(allocated', Migration!OfExpense(g)) \in Int
               /\ SumFunctionOnSet(allocated, Migration!OfExpense(g)) \in Int
               /\ SumFunctionOnSet(allocated', Migration!OfExpense(g))
                    =< SumFunctionOnSet(allocated, Migration!OfExpense(g))
    <2>1. \A p \in Migration!OfExpense(g) :
            allocated[p] \in Int /\ allocated'[p] \in Int /\ allocated'[p] =< allocated[p]
      <3> SUFFICES ASSUME NEW p \in D
                   PROVE  allocated[p] \in Int /\ allocated'[p] \in Int /\ allocated'[p] =< allocated[p]
        BY <1>4
      <3>1. allocated[p] \in Int /\ allocated'[p] \in Int
            /\ (allocated'[p] = allocated[p] \/ allocated'[p] = allocated[p] - 1)
        BY <1>3, <1>5
      <3> QED BY <3>1
    <2>2. IsFiniteSet(Migration!OfExpense(g))
      BY <1>4
    <2> QED BY <2>1, <2>2, SumType, SumMonotone
  <1>10. ASSUME NEW p \in D
         PROVE  \/ allocated'[p] = allocated[p]
                \/ allocated'[p] = allocated[p] - 1 /\ MigrationColumn(p[2]) \subseteq D
    <2>1. CASE allocated'[p] = allocated[p]
      BY <2>1
    <2>2. CASE allocated'[p] # allocated[p]
      <3>1. PICK g \in Migration!Group :
              p \in Migration!OfLot(g) /\ SumFunctionOnSet(allocated, Migration!OfLot(g)) > lots[g]
        BY <1>5, <2>2
      <3>2. p[2] = g /\ MigrationColumn(g) \subseteq D
        BY <1>2, <1>4, <3>1 DEF MigrationNear
      <3> QED BY <1>5, <2>2, <3>2
    <2> QED BY <2>1, <2>2
  <1>11. \A p \in D : (\/ MigrationUnmoved(p)
                     \/ MigrationOnce(p, MigrationRow(p[1])) \/ MigrationOnce(p, MigrationColumn(p[2]))
                     \/ /\ MigrationMoved(p, 2)
                        /\ MigrationRow(p[1]) \cup MigrationColumn(p[2]) \subseteq DOMAIN exact)'
    <2> SUFFICES ASSUME NEW p \in D
                 PROVE (\/ MigrationUnmoved(p)
                        \/ MigrationOnce(p, MigrationRow(p[1])) \/ MigrationOnce(p, MigrationColumn(p[2]))
                        \/ /\ MigrationMoved(p, 2)
                           /\ MigrationRow(p[1]) \cup MigrationColumn(p[2]) \subseteq DOMAIN exact)'
      BY <1>1
    <2> DEFINE r == Migration!Rounded(exact[p])
               new == allocated'[p]
               old == allocated[p]
               inRow == MigrationRow(p[1]) \subseteq D
               inColumn == MigrationColumn(p[2]) \subseteq D
    <2>1. old = r \/ (old = r - 1 /\ inRow)
      BY <1>1 DEF MigrationRoundInv, Migration!Rounding, MigrationUnmoved, MigrationOnce,
         MigrationMoved
    <2>2. new = old \/ (new = old - 1 /\ inColumn)
      BY <1>10
    <2>3. r \in Int /\ old \in Int /\ new \in Int
      BY <1>3, <1>5, MigrationRounded DEF Migration!MigrationsAssumption
    <2>4. Migration!Rounded(exact[p])' = r /\ D' = D
      BY <1>1 DEF Migration!Rounded
    <2> HIDE DEF r, new, old, inRow, inColumn
    <2>5. new = r \/ (new = r - 1 /\ inRow) \/ (new = r - 1 /\ inColumn)
          \/ (new = r - 2 /\ inRow /\ inColumn)
      BY <2>1, <2>2, <2>3
    <2> USE DEF MigrationRow, MigrationColumn
    <2> QED BY <2>4, <2>5 DEF MigrationUnmoved, MigrationOnce, MigrationMoved, r, new, inRow,
               inColumn
  <1>12. ASSUME NEW e \in Migration!Group
         PROVE  MigrationWithin(Migration!OfExpense(e), expenses[e])'
    <2>1. MigrationWithin(Migration!OfExpense(e), expenses[e])
      BY <1>1 DEF MigrationRoundInv, Migration!Rounding
    <2> DEFINE new == SumFunctionOnSet(allocated', Migration!OfExpense(e))
               old == SumFunctionOnSet(allocated, Migration!OfExpense(e))
    <2>2. old =< expenses[e]
      BY <2>1 DEF MigrationWithin
    <2>3. new \in Int /\ old \in Int /\ new =< old /\ expenses[e] \in Int
      BY <1>3, <1>9
    <2> HIDE DEF new, old
    <2>4. new =< expenses[e]
      BY <2>2, <2>3
    <2>5. Migration!OfExpense(e)' = Migration!OfExpense(e)
      BY <1>6
    <2> QED BY <1>1, <2>4, <2>5 DEF MigrationWithin, new
  <1> QED BY <1>1, <1>7, <1>8, <1>11, <1>12 DEF MigrationRoundInv

\* A set of one, two or three has no more elements than a finite set it is in.
LEMMA MigrationAtLeast ==
  ASSUME NEW D, IsFiniteSet(D), NEW a \in D
  PROVE  /\ Cardinality(D) \in Nat /\ Cardinality(D) >= 1
         /\ \A b \in D : b # a => Cardinality(D) >= 2
         /\ \A b, c \in D : b # a /\ c # a /\ c # b => Cardinality(D) >= 3
  <1>1. IsFiniteSet({a}) /\ Cardinality({a}) = 1
    BY FS_Singleton
  <1>2. Cardinality(D) \in Nat /\ \A T \in SUBSET D : Cardinality(T) =< Cardinality(D)
    BY FS_CardinalityType, FS_Subset
  <1>3. ASSUME NEW b \in D, b # a
        PROVE  IsFiniteSet({a} \cup {b}) /\ Cardinality({a} \cup {b}) = 2
    BY <1>1, <1>3, FS_AddElement
  <1>4. ASSUME NEW b \in D, NEW c \in D, b # a, c # a, c # b
        PROVE  Cardinality(({a} \cup {b}) \cup {c}) = 3
    <2>1. IsFiniteSet({a} \cup {b}) /\ Cardinality({a} \cup {b}) = 2 /\ c \notin {a} \cup {b}
      BY <1>3, <1>4
    <2> QED BY <2>1, FS_AddElement
  <1>5. Cardinality(D) >= 1
    BY <1>1, <1>2
  <1>6. ASSUME NEW b \in D, b # a PROVE Cardinality(D) >= 2
    BY <1>2, <1>3, <1>6
  <1>7. ASSUME NEW b \in D, NEW c \in D, b # a, c # a, c # b PROVE Cardinality(D) >= 3
    BY <1>2, <1>4, <1>7
  <1> QED BY <1>2, <1>5, <1>6, <1>7

\* The allocations after 000020.
LEMMA MigrationRoundImplies ==
  ASSUME Migration!MigrationsAssumption, MigrationRoundInv
  PROVE  Migration!AllocationsWithinCaps
  <1> SUFFICES ASSUME step = "rounded"
               PROVE  /\ \A e \in Migration!Group :
                           Migration!Total(allocated, Migration!OfExpense(e)) <= expenses[e]
                      /\ \A k \in Migration!Group :
                           Migration!Total(allocated, Migration!OfLot(k)) <= lots[k]
                      /\ \A p \in DOMAIN exact :
                           (Parts * allocated[p] - exact[p]) \in
                              -(Parts * Migration!Cardinality(DOMAIN exact))
                                .. Parts * Migration!Cardinality(DOMAIN exact)
    BY DEF Migration!AllocationsWithinCaps
  <1> DEFINE D == DOMAIN exact
  <1>1. /\ MigrationCells
        /\ \A p \in D :
             \/ MigrationUnmoved(p)
             \/ MigrationOnce(p, MigrationRow(p[1])) \/ MigrationOnce(p, MigrationColumn(p[2]))
             \/ MigrationMoved(p, 2) /\ MigrationRow(p[1]) \cup MigrationColumn(p[2]) \subseteq D
        /\ \A e \in Migration!Group : MigrationWithin(Migration!OfExpense(e), expenses[e])
        /\ \A k \in Migration!Group : MigrationWithin(Migration!OfLot(k), lots[k])
    BY DEF MigrationRoundInv, Migration!Rounding
  <1>2. /\ \A e \in Migration!Group :
             Migration!Total(allocated, Migration!OfExpense(e)) <= expenses[e]
        /\ \A k \in Migration!Group :
             Migration!Total(allocated, Migration!OfLot(k)) <= lots[k]
    BY <1>1, MigrationTotal DEF MigrationWithin
  <1>3. /\ D \subseteq Migration!Pairs /\ DOMAIN allocated = D
        /\ \A p \in D : exact[p] \in Int /\ allocated[p] \in Int
    BY <1>1 DEF MigrationCells
  <1>4. ASSUME NEW p \in D
        PROVE  (Parts * allocated[p] - exact[p]) \in
                  -(Parts * Cardinality(D)) .. Parts * Cardinality(D)
    <2> DEFINE a == allocated[p]
               x == exact[p]
               r == Migration!Rounded(x)
               N == Cardinality(D)
    <2>1. /\ a \in Int /\ x \in Int /\ r \in Int /\ Parts \in Nat /\ Parts > 0
          /\ 2 * (Parts * r) =< 2 * x + Parts /\ 2 * x + Parts < 2 * (Parts * r) + 2 * Parts
      BY <1>3, MigrationRounded DEF Migration!MigrationsAssumption
    <2>2. /\ N \in Nat /\ N >= 1
          /\ \A b \in D : b # p => N >= 2
          /\ \A b, c \in D : b # p /\ c # p /\ c # b => N >= 3
      BY <1>3, MigrationGroups, MigrationAtLeast
    <2>3. PICK e \in {1, 2}, k \in {1, 2} : p = <<e, k>>
      BY <1>3 DEF Migration!Pairs, Migration!Group
    <2>4. MigrationRow(p[1]) = {<<e, 1>>, <<e, 2>>} /\ MigrationColumn(p[2]) = {<<1, k>>, <<2, k>>}
      BY <2>3 DEF MigrationRow, MigrationColumn
    <2>5. <<e, 3 - k>> \in MigrationRow(p[1]) /\ <<3 - e, k>> \in MigrationColumn(p[2])
          /\ <<e, 3 - k>> # p /\ <<3 - e, k>> # p /\ <<e, 3 - k>> # <<3 - e, k>>
      BY <2>3, <2>4
    <2>6. \/ a = r
          \/ a = r - 1 /\ N >= 2
          \/ a = r - 2 /\ N >= 3
      <3>1. CASE MigrationUnmoved(p)
        BY <3>1 DEF MigrationUnmoved
      <3>2. CASE MigrationOnce(p, MigrationRow(p[1]))
        BY <2>2, <2>5, <3>2 DEF MigrationOnce, MigrationMoved
      <3>3. CASE MigrationOnce(p, MigrationColumn(p[2]))
        BY <2>2, <2>5, <3>3 DEF MigrationOnce, MigrationMoved
      <3>4. CASE MigrationMoved(p, 2) /\ MigrationRow(p[1]) \cup MigrationColumn(p[2]) \subseteq D
        BY <2>2, <2>5, <3>4 DEF MigrationMoved
      <3> QED BY <1>1, <3>1, <3>2, <3>3, <3>4
    <2> HIDE DEF a, x, r, N
    <2> DEFINE pn == Parts * N
               pr == Parts * r
    <2>7. pn \in Int /\ pr \in Int /\ pn >= Parts
          /\ (N >= 2 => pn >= 2 * Parts) /\ (N >= 3 => pn >= 3 * Parts)
      <3>1. PICK m \in Nat : N = 1 + m
        <4>1. N - 1 \in Nat /\ N = 1 + (N - 1)
          BY <2>2
        <4> QED BY <4>1
      <3> DEFINE pm == Parts * m
      <3>2. pn = Parts + pm /\ pm \in Nat /\ pr \in Int
        BY <2>1, <3>1
      <3>3. N >= 2 => pm >= Parts
        <4> SUFFICES ASSUME m >= 1 PROVE pm >= Parts
          BY <3>1
        <4>1. Parts * m = Parts + Parts * (m - 1) /\ Parts * (m - 1) \in Nat
          BY <2>1, <3>1
        <4> QED BY <2>1, <4>1
      <3>4. N >= 3 => pm >= 2 * Parts
        <4> SUFFICES ASSUME m >= 2 PROVE pm >= 2 * Parts
          BY <3>1
        <4>1. Parts * m = 2 * Parts + Parts * (m - 2) /\ Parts * (m - 2) \in Nat
          BY <2>1, <3>1
        <4> QED BY <2>1, <4>1
      <3> HIDE DEF pn, pm, pr
      <3> QED BY <2>1, <2>2, <3>2, <3>3, <3>4
    <2>8. /\ a = r => Parts * a = pr
          /\ a = r - 1 => Parts * a = pr - Parts
          /\ a = r - 2 => Parts * a = pr - 2 * Parts
      BY <2>1
    <2> DEFINE pa == Parts * a
    <2>9. pa \in Int
      BY <2>1
    <2>10. /\ a = r => pa = pr
           /\ a = r - 1 => pa = pr - Parts
           /\ a = r - 2 => pa = pr - 2 * Parts
      BY <2>8
    <2>11. 2 * pr =< 2 * x + Parts /\ 2 * x + Parts < 2 * pr + 2 * Parts
      BY <2>1
    <2> HIDE DEF pn, pr, pa
    <2>12. pa - x >= -pn /\ pa - x =< pn
      BY <2>1, <2>2, <2>6, <2>7, <2>9, <2>10, <2>11
    <2>13. (pa - x) \in -pn .. pn
      BY <2>1, <2>7, <2>9, <2>12
    <2> QED BY <2>13 DEF pn, pa, a, x, N
  <1>5. Migration!Cardinality(DOMAIN exact) = Cardinality(DOMAIN exact)
    BY DEF Migration!Cardinality, Cardinality, Migration!IsFiniteSet, IsFiniteSet
  <1> QED BY <1>2, <1>4, <1>5

\* It is inductive.
LEMMA MigrationRoundStep ==
  ASSUME Migration!MigrationsAssumption, MigrationRoundInv, Migration!Next
  PROVE  MigrationRoundInv'
  <1>1. CASE Migration!AssignSingle \/ Migration!Fork \/ Migration!DeleteOrphans
               \/ Migration!MergeTwins \/ Migration!Constrain
    <2>1. step' \in {"fork", "orphans", "merge", "constrain", "scoped", "failed"}
      BY <1>1 DEF Migration!AssignSingle, Migration!Fork, Migration!DeleteOrphans,
                  Migration!MergeTwins, Migration!Constrain, Migration!Goto
    <2> QED BY <2>1 DEF MigrationRoundInv, Migration!Rounding
  <1>2. CASE Migration!Round
    BY <1>2, MigrationRoundKeeps
  <1>3. CASE Migration!ReconcileExpenses
    BY <1>3, MigrationReconcileExpenses
  <1>4. CASE Migration!ReconcileLots
    BY <1>4, MigrationReconcileLots
  <1> QED BY <1>1, <1>2, <1>3, <1>4 DEF Migration!Next

\* It does not change with the other parts.
LEMMA MigrationRoundStays ==
  ASSUME MigrationRoundInv, UNCHANGED <<step, allocated, expenses, lots, exact>>
  PROVE  MigrationRoundInv'
  <1> SUFFICES MigrationRoundInv' = MigrationRoundInv
    OBVIOUS
  <1> QED BY DEF MigrationRoundInv, MigrationCells, MigrationUnmoved, MigrationOnce, MigrationMoved,
                 MigrationNear, MigrationWithin, MigrationRow, MigrationColumn, Migration!Rounding,
                 Migration!OfExpense, Migration!OfLot, Migration!Rounded, Migration!Group,
                 Migration!Pairs

\* Lines of two budgets are under a category; a line is under a category of its budget; a
\* category has a line.
MigrationTwofold(c) ==
  \E l, m \in DOMAIN placed :
    placed[l].category = c /\ placed[m].category = c /\ placed[l].budget # placed[m].budget
MigrationOwn(l) == catalog[placed[l].category].budget = placed[l].budget
MigrationUsed(c) == \E l \in DOMAIN placed : placed[l].category = c

\* The rows of 000014, with the name each line had.
MigrationRows ==
  /\ IsFiniteSet(DOMAIN placed) /\ DOMAIN placed = DOMAIN was
  /\ DOMAIN catalog \subseteq Migration!Ids
  /\ \A c \in DOMAIN catalog : catalog[c] \in [name : Names, budget : Budgets \cup {none}]
  /\ \A l \in DOMAIN placed :
       placed[l] \in [budget : Budgets, category : DOMAIN catalog \cup {none}]
MigrationNamed(l) ==
  /\ was[l] = none => placed[l].category = none
  /\ was[l] # none => placed[l].category \in DOMAIN catalog
                        /\ catalog[placed[l].category].name = was[l]

\* The inductive invariant of 000014.
MigrationScopeInv ==
  /\ MigrationRows /\ \A l \in DOMAIN placed : MigrationNamed(l)
  /\ step \in Migration!Scoping \cup Migration!Rounding
  /\ step = "assign" => \A c \in DOMAIN catalog : c[2] = none
  /\ step = "fork" =>
       /\ \A c \in DOMAIN catalog : MigrationTwofold(c) =>
            c[2] = none /\ \A b \in Budgets : <<c[1], b>> \notin DOMAIN catalog
       /\ \A l \in DOMAIN placed : placed[l].category # none =>
            MigrationTwofold(placed[l].category) \/ MigrationOwn(l)
  /\ step \in {"orphans", "merge", "constrain", "scoped"} =>
       \A l \in DOMAIN placed : placed[l].category # none => MigrationOwn(l)
  /\ step \in {"merge", "constrain", "scoped"} => \A c \in DOMAIN catalog : MigrationUsed(c)
  /\ step = "constrain" => \A c, d \in DOMAIN catalog : catalog[c] = catalog[d] => c = d

\* The sizes that are compared with one.
LEMMA MigrationSizes ==
  ASSUME NEW S, IsFiniteSet(S)
  PROVE  /\ Migration!Cardinality(S) > 1 <=> \E x, y \in S : x # y
         /\ Migration!Cardinality(S) = 1 <=> \E x : S = {x}
  <1>1. Migration!Cardinality(S) = Cardinality(S)
    BY DEF Migration!Cardinality, Cardinality, Migration!IsFiniteSet, IsFiniteSet
  <1>2. Cardinality(S) \in Nat /\ (Cardinality(S) = 0 <=> S = {})
    BY FS_CardinalityType, FS_EmptySet
  <1>3. Cardinality(S) = 1 <=> \E x : S = {x}
    BY FS_Singleton
  <1>4. CASE S = {}
    BY <1>1, <1>2, <1>3, <1>4
  <1>5. CASE \E x : S = {x}
    BY <1>1, <1>3, <1>5
  <1>6. CASE S # {} /\ ~ \E x : S = {x}
    <2>1. \E x, y \in S : x # y
      BY <1>6
    <2>2. Cardinality(S) # 0 /\ Cardinality(S) # 1
      BY <1>2, <1>3, <1>6
    <2> QED BY <1>1, <1>2, <1>6, <2>1, <2>2
  <1> QED BY <1>4, <1>5, <1>6

\* Which categories are shared, and which are of one budget.
LEMMA MigrationShared ==
  ASSUME MigrationRows
  PROVE  /\ \A c \in DOMAIN catalog : c \in Migration!Shared <=> MigrationTwofold(c)
         /\ \A c : Migration!Cardinality(Migration!BudgetsOf(c)) = 1
                     <=> \E b : Migration!BudgetsOf(c) = {b}
         /\ \A c : Migration!BudgetsOf(c) # {} <=> MigrationUsed(c)
         /\ \A c, b : b \in Migration!BudgetsOf(c)
                        <=> \E l \in DOMAIN placed : placed[l].category = c /\ placed[l].budget = b
  <1>1. ASSUME NEW c
        PROVE  /\ IsFiniteSet(Migration!BudgetsOf(c))
               /\ \A b : b \in Migration!BudgetsOf(c)
                    <=> \E l \in DOMAIN placed : placed[l].category = c /\ placed[l].budget = b
    <2> DEFINE L == {l \in DOMAIN placed : placed[l].category = c}
               f == [l \in L |-> placed[l].budget]
    <2>1. IsFiniteSet(L)
      BY FS_Subset DEF MigrationRows
    <2>2. Migration!BudgetsOf(c) = {f[l] : l \in L}
      BY DEF Migration!BudgetsOf
    <2>3. f \in Surjection(L, Migration!BudgetsOf(c))
      BY <2>2 DEF Surjection
    <2> HIDE DEF L, f
    <2>4. IsFiniteSet(Migration!BudgetsOf(c))
      BY <2>1, <2>3, FS_Surjection
    <2> QED BY <2>4 DEF Migration!BudgetsOf
  <1>2. ASSUME NEW c \in DOMAIN catalog PROVE c \in Migration!Shared <=> MigrationTwofold(c)
    <2>1. c \in Migration!Shared <=> \E x, y \in Migration!BudgetsOf(c) : x # y
      BY <1>1, MigrationSizes DEF Migration!Shared
    <2> QED BY <1>1, <2>1 DEF MigrationTwofold
  <1>3. \A c : Migration!Cardinality(Migration!BudgetsOf(c)) = 1
                     <=> \E b : Migration!BudgetsOf(c) = {b}
    BY <1>1, MigrationSizes
  <1>4. \A c : Migration!BudgetsOf(c) # {} <=> MigrationUsed(c)
    BY <1>1 DEF MigrationUsed
  <1> QED BY <1>1, <1>2, <1>3, <1>4

\* What the lines are filed under: a category there is.
LEMMA MigrationFiled ==
  ASSUME Migration!MigrationsAssumption, MigrationRows, \A l \in DOMAIN placed : MigrationNamed(l)
  PROVE  /\ none \notin DOMAIN catalog /\ none \notin Budgets /\ none \notin Names
         /\ \A c \in DOMAIN catalog : c \in Migration!Ids /\ c = <<c[1], c[2]>>
                                        /\ c[1] \in 1 .. OldCategories
         /\ \A l \in DOMAIN placed :
              /\ placed[l].budget \in Budgets
              /\ placed[l].category # none => placed[l].category \in DOMAIN catalog
              /\ placed[l].category = none <=> was[l] = none
  <1>1. none \notin Migration!Ids /\ none \notin Budgets /\ none \notin Names
    BY DEF Migration!MigrationsAssumption
  <1>2. \A c \in Migration!Ids : c = <<c[1], c[2]>> /\ c[1] \in 1 .. OldCategories
    BY DEF Migration!Ids
  <1>3. none \notin DOMAIN catalog
    BY <1>1 DEF MigrationRows
  <1> QED BY <1>1, <1>2, <1>3 DEF MigrationRows, MigrationNamed

\* It holds at the start.
LEMMA MigrationScopeInit ==
  ASSUME Migration!MigrationsAssumption, Migration!Init
  PROVE  MigrationScopeInv
  <1>1. CASE Migration!InitScoping
    <2> DEFINE C == {Migration!Old(n) : n \in 1 .. OldCategories}
    <2>1. /\ step = "assign" /\ catalog \in [C -> [name : Names, budget : {none}]]
          /\ placed \in [Migration!OldLineIds -> [budget : Budgets, category : C \cup {none}]]
          /\ was = [l \in Migration!OldLineIds |->
                      IF placed[l].category = none THEN none ELSE catalog[placed[l].category].name]
      BY <1>1 DEF Migration!InitScoping
    <2>2. IsFiniteSet(Migration!OldLineIds)
      BY FS_Interval DEF Migration!OldLineIds, Migration!MigrationsAssumption
    <2>3. C \subseteq Migration!Ids /\ \A c \in C : c[2] = none
      BY DEF Migration!Old, Migration!Ids
    <2> HIDE DEF C
    <2>4. MigrationRows
      BY <2>1, <2>2, <2>3 DEF MigrationRows
    <2>5. \A l \in DOMAIN placed : MigrationNamed(l)
      <3> SUFFICES ASSUME NEW l \in Migration!OldLineIds PROVE MigrationNamed(l)
        BY <2>1
      <3>1. placed[l].category \in C \cup {none} /\ none \notin Names
        BY <2>1 DEF Migration!MigrationsAssumption
      <3>2. \A c \in C : catalog[c].name \in Names /\ DOMAIN catalog = C
        BY <2>1
      <3> QED BY <2>1, <3>1, <3>2 DEF MigrationNamed
    <2> QED BY <2>1, <2>3, <2>4, <2>5 DEF MigrationScopeInv, Migration!Scoping
  <1>2. CASE Migration!InitRounding
    <2>1. step = "round" /\ DOMAIN catalog = {} /\ DOMAIN placed = {} /\ DOMAIN was = {}
      BY <1>2 DEF Migration!InitRounding, Migration!Nothing
    <2> QED BY <2>1, FS_EmptySet DEF MigrationScopeInv, MigrationRows, Migration!Rounding
  <1> QED BY <1>1, <1>2 DEF Migration!Init

\* The categories of one budget are given to it; the others wait to be forked.
LEMMA MigrationAssigns ==
  ASSUME Migration!MigrationsAssumption, MigrationScopeInv, Migration!AssignSingle
  PROVE  MigrationScopeInv'
  <1>1. /\ step = "assign" /\ step' = "fork" /\ placed' = placed /\ was' = was
        /\ catalog' = [c \in DOMAIN catalog |->
             IF Migration!Cardinality(Migration!BudgetsOf(c)) = 1
             THEN [catalog[c] EXCEPT !.budget = CHOOSE b \in Migration!BudgetsOf(c) : TRUE]
             ELSE catalog[c]]
    BY DEF Migration!AssignSingle, Migration!Goto
  <1>2. /\ MigrationRows /\ \A l \in DOMAIN placed : MigrationNamed(l)
        /\ \A c \in DOMAIN catalog : c[2] = none
    BY <1>1 DEF MigrationScopeInv
  <1>3. /\ none \notin DOMAIN catalog /\ none \notin Budgets /\ none \notin Names
        /\ \A c \in DOMAIN catalog : c \in Migration!Ids /\ c = <<c[1], c[2]>>
        /\ \A l \in DOMAIN placed :
             /\ placed[l].budget \in Budgets
             /\ placed[l].category # none => placed[l].category \in DOMAIN catalog
    BY <1>2, MigrationFiled
  <1>4. \A c \in DOMAIN catalog :
          catalog[c] \in [name : Names, budget : Budgets \cup {none}]
    BY <1>2 DEF MigrationRows
  <1>5. ASSUME NEW c \in DOMAIN catalog
        PROVE  /\ catalog'[c] \in [name : Names, budget : Budgets \cup {none}]
               /\ catalog'[c].name = catalog[c].name
               /\ \A b : Migration!BudgetsOf(c) = {b} => catalog'[c].budget = b
    <2>1. CASE Migration!Cardinality(Migration!BudgetsOf(c)) = 1
      <3>1. PICK b : Migration!BudgetsOf(c) = {b}
        BY <1>2, <2>1, MigrationShared
      <3>2. (CHOOSE x \in Migration!BudgetsOf(c) : TRUE) = b
        BY <3>1
      <3>3. b \in Budgets
        <4>1. \E l \in DOMAIN placed : placed[l].category = c /\ placed[l].budget = b
          BY <1>2, <3>1, MigrationShared
        <4> QED BY <1>3, <4>1
      <3>4. catalog'[c] = [catalog[c] EXCEPT !.budget = b]
        BY <1>1, <2>1, <3>2
      <3> QED BY <1>4, <3>1, <3>3, <3>4
    <2>2. CASE Migration!Cardinality(Migration!BudgetsOf(c)) # 1
      BY <1>1, <1>2, <1>4, <2>2, MigrationShared
    <2> QED BY <2>1, <2>2
  <1>6. DOMAIN catalog' = DOMAIN catalog
    BY <1>1
  <1>7. MigrationRows'
    BY <1>1, <1>2, <1>5, <1>6 DEF MigrationRows, Migration!Ids
  <1>8. \A l \in DOMAIN placed : MigrationNamed(l)'
    BY <1>1, <1>2, <1>5, <1>6 DEF MigrationNamed
  <1>9. \A c : MigrationTwofold(c)' <=> MigrationTwofold(c)
    BY <1>1 DEF MigrationTwofold
  <1>10. \A c \in DOMAIN catalog, b \in Budgets : <<c[1], b>> \notin DOMAIN catalog
    BY <1>2, <1>3
  <1>11. ASSUME NEW l \in DOMAIN placed, placed[l].category # none
         PROVE  (MigrationTwofold(placed[l].category) \/ MigrationOwn(l))'
    <2> DEFINE c == placed[l].category
    <2>1. CASE MigrationTwofold(c)
      BY <1>1, <1>9, <2>1
    <2>2. CASE ~ MigrationTwofold(c)
      <3>1. Migration!BudgetsOf(c) = {placed[l].budget}
        <4>1. \A b : b \in Migration!BudgetsOf(c)
                       <=> \E m \in DOMAIN placed : placed[m].category = c /\ placed[m].budget = b
          BY <1>2, MigrationShared
        <4> QED BY <2>2, <4>1 DEF MigrationTwofold
      <3>2. catalog'[c].budget = placed[l].budget
        BY <1>3, <1>5, <1>11, <3>1
      <3> QED BY <1>1, <3>2 DEF MigrationOwn
    <2> QED BY <2>1, <2>2
  <1> QED BY <1>1, <1>2, <1>6, <1>7, <1>8, <1>10, <1>11 DEF MigrationScopeInv, Migration!Scoping

\* A shared category stays with one budget, its lines of others move to copies of it.
LEMMA MigrationForks ==
  ASSUME Migration!MigrationsAssumption, MigrationScopeInv, step = "fork",
         NEW c \in DOMAIN catalog, MigrationTwofold(c), Migration!ForkShared(c),
         step' = "fork", was' = was
  PROVE  MigrationScopeInv'
  <1>1. /\ MigrationRows /\ \A l \in DOMAIN placed : MigrationNamed(l)
        /\ \A d \in DOMAIN catalog : MigrationTwofold(d) =>
             d[2] = none /\ \A b \in Budgets : <<d[1], b>> \notin DOMAIN catalog
        /\ \A l \in DOMAIN placed : placed[l].category # none =>
             MigrationTwofold(placed[l].category) \/ MigrationOwn(l)
    BY DEF MigrationScopeInv
  <1>2. /\ none \notin DOMAIN catalog /\ none \notin Budgets /\ none \notin Names
        /\ \A d \in DOMAIN catalog : d \in Migration!Ids /\ d = <<d[1], d[2]>>
                                        /\ d[1] \in 1 .. OldCategories
        /\ \A l \in DOMAIN placed :
             /\ placed[l].budget \in Budgets
             /\ placed[l].category # none => placed[l].category \in DOMAIN catalog
             /\ placed[l].category = none <=> was[l] = none
    BY <1>1, MigrationFiled
  <1>3. PICK primary \in Migration!BudgetsOf(c) :
          LET copies == {Migration!Forked(c, b) : b \in Migration!BudgetsOf(c) \ {primary}}
          IN  /\ catalog' =
                   [d \in DOMAIN catalog \cup copies |->
                      IF d \in copies THEN [name |-> catalog[c].name, budget |-> d[2]]
                      ELSE IF d = c THEN [catalog[c] EXCEPT !.budget = primary]
                      ELSE catalog[d]]
              /\ placed' =
                   [l \in DOMAIN placed |->
                      IF placed[l].category = c /\ placed[l].budget # primary
                      THEN [placed[l] EXCEPT !.category = Migration!Forked(c, placed[l].budget)]
                      ELSE placed[l]]
    BY DEF Migration!ForkShared
  <1> DEFINE copy(b) == <<c[1], b>>
             copies == {copy(b) : b \in Migration!BudgetsOf(c) \ {primary}}
             D == DOMAIN catalog
  <1>4. /\ catalog' =
             [d \in D \cup copies |->
                IF d \in copies THEN [name |-> catalog[c].name, budget |-> d[2]]
                ELSE IF d = c THEN [catalog[c] EXCEPT !.budget = primary]
                ELSE catalog[d]]
        /\ placed' =
             [l \in DOMAIN placed |->
                IF placed[l].category = c /\ placed[l].budget # primary
                THEN [placed[l] EXCEPT !.category = copy(placed[l].budget)]
                ELSE placed[l]]
    BY <1>3 DEF Migration!Forked
  <1>5. \A b \in Migration!BudgetsOf(c) : b \in Budgets
    <2>1. \A b : b \in Migration!BudgetsOf(c)
                   <=> \E l \in DOMAIN placed : placed[l].category = c /\ placed[l].budget = b
      BY <1>1, MigrationShared
    <2> QED BY <1>2, <2>1
  <1>6. /\ c[2] = none /\ c[1] \in 1 .. OldCategories
        /\ \A b \in Budgets : copy(b) \notin D
    BY <1>1, <1>2
  <1>7. /\ \A d \in copies : d \in Migration!Ids /\ d \notin D /\ d[2] \in Budgets /\ d[1] = c[1]
        /\ \A l \in DOMAIN placed :
             placed[l].category = c /\ placed[l].budget # primary => copy(placed[l].budget) \in copies
    <2>1. ASSUME NEW b \in Budgets
          PROVE  copy(b) \in Migration!Ids /\ copy(b) \notin D /\ copy(b)[2] \in Budgets /\ copy(b)[1] = c[1]
      BY <1>6 DEF Migration!Ids
    <2>2. \A b : b \in Migration!BudgetsOf(c)
                   <=> \E l \in DOMAIN placed : placed[l].category = c /\ placed[l].budget = b
      BY <1>1, MigrationShared
    <2> QED BY <1>5, <2>1, <2>2
  <1>8. c \notin copies /\ none \notin copies
    <2>1. none \notin Migration!Ids
      BY DEF Migration!MigrationsAssumption
    <2> QED BY <1>7, <2>1
  <1>9. \A d \in D : catalog[d] \in [name : Names, budget : Budgets \cup {none}]
    BY <1>1 DEF MigrationRows
  <1>10. \A l \in DOMAIN placed :
           placed[l] \in [budget : Budgets, category : D \cup {none}]
    BY <1>1 DEF MigrationRows
  <1> HIDE DEF copies
  <1>11. /\ DOMAIN catalog' = D \cup copies /\ DOMAIN placed' = DOMAIN placed
         /\ \A d \in copies : catalog'[d] = [name |-> catalog[c].name, budget |-> d[2]]
         /\ catalog'[c] = [catalog[c] EXCEPT !.budget = primary]
         /\ \A d \in D : d # c => catalog'[d] = catalog[d]
    BY <1>4, <1>7, <1>8
  <1>12. \A d \in D \cup copies :
           catalog'[d] \in [name : Names, budget : Budgets \cup {none}]
    <2>1. \A d \in copies : catalog'[d] \in [name : Names, budget : Budgets \cup {none}]
      BY <1>7, <1>9, <1>11
    <2>2. catalog'[c] \in [name : Names, budget : Budgets \cup {none}]
      BY <1>5, <1>9, <1>11
    <2> QED BY <1>9, <1>11, <2>1, <2>2
  <1>13. ASSUME NEW l \in DOMAIN placed
         PROVE  /\ placed'[l] \in [budget : Budgets, category : (D \cup copies) \cup {none}]
                /\ placed'[l].budget = placed[l].budget
                /\ IF placed[l].category = c /\ placed[l].budget # primary
                   THEN placed'[l].category = copy(placed[l].budget) /\ placed'[l].category \in copies
                   ELSE placed'[l].category = placed[l].category
    <2>1. CASE placed[l].category = c /\ placed[l].budget # primary
      <3>1. placed'[l] = [placed[l] EXCEPT !.category = copy(placed[l].budget)]
        BY <1>4, <2>1
      <3>2. copy(placed[l].budget) \in copies
        BY <1>7, <2>1
      <3> HIDE DEF copy
      <3> QED BY <1>10, <2>1, <3>1, <3>2
    <2>2. CASE ~ (placed[l].category = c /\ placed[l].budget # primary)
      BY <1>4, <1>10, <2>2
    <2> QED BY <2>1, <2>2
  <1>14. MigrationRows'
    BY <1>1, <1>7, <1>11, <1>12, <1>13 DEF MigrationRows, Migration!Ids
  <1>15. ASSUME NEW l \in DOMAIN placed PROVE MigrationNamed(l)'
    <2>1. CASE placed[l].category = c /\ placed[l].budget # primary
      <3>1. placed'[l].category \in copies /\ catalog'[placed'[l].category].name = catalog[c].name
        BY <1>11, <1>13, <2>1
      <3>2. was[l] # none /\ catalog[c].name = was[l]
        BY <1>1, <1>2, <2>1 DEF MigrationNamed
      <3> QED BY <1>11, <3>1, <3>2 DEF MigrationNamed
    <2>2. CASE ~ (placed[l].category = c /\ placed[l].budget # primary)
      <3>1. placed'[l].category = placed[l].category
        BY <1>13, <2>2
      <3>2. \A d \in D : d \in DOMAIN catalog' /\ catalog'[d].name = catalog[d].name
        BY <1>9, <1>11
      <3> QED BY <1>1, <3>1, <3>2 DEF MigrationNamed
    <2> QED BY <2>1, <2>2
  <1>16. ASSUME NEW d \in D \cup copies, MigrationTwofold(d)'
         PROVE  d \in D /\ d # c /\ MigrationTwofold(d)
    <2>1. PICK l, m \in DOMAIN placed :
            /\ placed'[l].category = d /\ placed'[m].category = d
            /\ placed[l].budget # placed[m].budget
      BY <1>11, <1>13, <1>16 DEF MigrationTwofold
    <2>2. d \notin copies
      <3> SUFFICES ASSUME d \in copies PROVE FALSE
        OBVIOUS
      <3>1. \A n \in DOMAIN placed : placed'[n].category = d => d = copy(placed[n].budget)
        <4> SUFFICES ASSUME NEW n \in DOMAIN placed, placed'[n].category = d
                     PROVE  d = copy(placed[n].budget)
          OBVIOUS
        <4>1. placed[n].category # d
          BY <1>2, <1>7, <1>8
        <4> QED BY <1>13, <4>1
      <3>2. copy(placed[l].budget) = copy(placed[m].budget)
        BY <2>1, <3>1
      <3> QED BY <2>1, <3>2
    <2>3. \A n \in DOMAIN placed : placed'[n].category = d =>
            placed[n].category = d /\ (d = c => placed[n].budget = primary)
      BY <1>13, <2>2
    <2> QED BY <2>1, <2>2, <2>3 DEF MigrationTwofold
  <1>17. ASSUME NEW d \in D \cup copies, MigrationTwofold(d)'
         PROVE  d[2] = none /\ \A b \in Budgets : <<d[1], b>> \notin D \cup copies
    <2>1. d \in D /\ d # c /\ MigrationTwofold(d)
      BY <1>16, <1>17
    <2>2. d[2] = none /\ \A b \in Budgets : <<d[1], b>> \notin D
      BY <1>1, <2>1
    <2>3. d[1] # c[1]
      BY <1>2, <1>6, <2>1, <2>2
    <2> QED BY <1>7, <2>2, <2>3
  <1>18. ASSUME NEW l \in DOMAIN placed, placed'[l].category # none
         PROVE  (MigrationTwofold(placed[l].category) \/ MigrationOwn(l))'
    <2>1. CASE placed[l].category = c /\ placed[l].budget # primary
      <3>1. catalog'[placed'[l].category].budget = placed[l].budget
        BY <1>11, <1>13, <2>1
      <3> QED BY <1>13, <3>1 DEF MigrationOwn
    <2>2. CASE placed[l].category = c /\ placed[l].budget = primary
      <3>1. catalog'[c].budget = primary
        BY <1>9, <1>11
      <3> QED BY <1>13, <2>2, <3>1 DEF MigrationOwn
    <2>3. CASE placed[l].category # c
      <3> DEFINE d == placed[l].category
      <3>1. placed'[l].category = d /\ d \in D /\ catalog'[d] = catalog[d]
        BY <1>2, <1>11, <1>13, <1>18, <2>3
      <3>2. CASE MigrationOwn(l)
        BY <1>13, <3>1, <3>2 DEF MigrationOwn
      <3>3. CASE MigrationTwofold(d)
        <4>1. MigrationTwofold(d)'
          BY <1>11, <1>13, <2>3, <3>1, <3>3 DEF MigrationTwofold
        <4> QED BY <3>1, <4>1
      <3> QED BY <1>1, <1>13, <1>18, <3>1, <3>2, <3>3
    <2> QED BY <2>1, <2>2, <2>3
  <1> QED BY <1>11, <1>14, <1>15, <1>17, <1>18 DEF MigrationScopeInv, Migration!Scoping

\* The lines move to the row that is kept; those left are in use as before.
LEMMA MigrationMerges ==
  ASSUME Migration!MigrationsAssumption, MigrationScopeInv, step = "merge",
         NEW keep \in DOMAIN catalog, NEW gone, gone = Migration!Twins(keep) \ {keep},
         placed' = [l \in DOMAIN placed |->
                      IF placed[l].category \in gone
                      THEN [placed[l] EXCEPT !.category = keep] ELSE placed[l]],
         catalog' = [c \in DOMAIN catalog \ gone |-> catalog[c]],
         step' = "merge", was' = was
  PROVE  MigrationScopeInv'
  <1>1. /\ MigrationRows /\ \A l \in DOMAIN placed : MigrationNamed(l)
        /\ \A l \in DOMAIN placed : placed[l].category # none => MigrationOwn(l)
        /\ \A c \in DOMAIN catalog : MigrationUsed(c)
    BY DEF MigrationScopeInv
  <1>2. /\ none \notin DOMAIN catalog
        /\ \A l \in DOMAIN placed :
             /\ placed[l].category # none => placed[l].category \in DOMAIN catalog
             /\ placed[l].category = none <=> was[l] = none
    BY <1>1, MigrationFiled
  <1>3. /\ keep \notin gone /\ gone \subseteq DOMAIN catalog
        /\ \A c \in gone : catalog[c] = catalog[keep]
    BY DEF Migration!Twins
  <1>4. /\ DOMAIN catalog' = DOMAIN catalog \ gone /\ DOMAIN placed' = DOMAIN placed
        /\ \A c \in DOMAIN catalog \ gone : catalog'[c] = catalog[c]
    OBVIOUS
  <1>5. ASSUME NEW l \in DOMAIN placed
        PROVE  /\ placed'[l] \in [budget : Budgets, category : (DOMAIN catalog \ gone) \cup {none}]
               /\ placed'[l].budget = placed[l].budget
               /\ placed[l].category \in gone => placed'[l].category = keep
               /\ placed[l].category \notin gone => placed'[l].category = placed[l].category
    <2>1. placed[l] \in [budget : Budgets, category : DOMAIN catalog \cup {none}]
      BY <1>1 DEF MigrationRows
    <2>2. CASE placed[l].category \in gone
      <3>1. placed'[l] = [placed[l] EXCEPT !.category = keep]
        BY <2>2
      <3> QED BY <1>3, <2>1, <2>2, <3>1
    <2>3. CASE placed[l].category \notin gone
      BY <2>1, <2>3
    <2> QED BY <2>2, <2>3
  <1>6. MigrationRows'
    BY <1>1, <1>4, <1>5 DEF MigrationRows, Migration!Ids
  <1>7. ASSUME NEW l \in DOMAIN placed
        PROVE  /\ placed[l].category = none <=> placed'[l].category = none
               /\ placed[l].category # none =>
                    /\ placed'[l].category \in DOMAIN catalog \ gone
                    /\ catalog'[placed'[l].category] = catalog[placed[l].category]
    BY <1>2, <1>3, <1>4, <1>5
  <1>8. ASSUME NEW l \in DOMAIN placed PROVE MigrationNamed(l)'
    BY <1>1, <1>2, <1>4, <1>7 DEF MigrationNamed
  <1>9. ASSUME NEW l \in DOMAIN placed, placed'[l].category # none PROVE MigrationOwn(l)'
    <2>1. placed[l].category # none
      BY <1>7, <1>9
    <2>2. catalog'[placed'[l].category] = catalog[placed[l].category]
      BY <1>7, <2>1
    <2>3. catalog[placed[l].category].budget = placed[l].budget
      BY <1>1, <2>1 DEF MigrationOwn
    <2> QED BY <1>5, <2>2, <2>3 DEF MigrationOwn
  <1>10. ASSUME NEW c \in DOMAIN catalog \ gone PROVE MigrationUsed(c)'
    BY <1>1, <1>4, <1>5 DEF MigrationUsed
  <1> QED BY <1>4, <1>6, <1>8, <1>9, <1>10 DEF MigrationScopeInv, Migration!Scoping

\* Every step of 000014 keeps it, and none fails.
LEMMA MigrationScopeStep ==
  ASSUME Migration!MigrationsAssumption, MigrationScopeInv, Migration!Next
  PROVE  MigrationScopeInv'
  <1>1. /\ MigrationRows /\ \A l \in DOMAIN placed : MigrationNamed(l)
    BY DEF MigrationScopeInv
  <1>2. /\ none \notin DOMAIN catalog /\ none \notin Budgets
        /\ \A l \in DOMAIN placed :
             /\ placed[l].budget \in Budgets
             /\ placed[l].category # none => placed[l].category \in DOMAIN catalog
    BY <1>1, MigrationFiled
  <1>3. CASE Migration!AssignSingle
    BY <1>3, MigrationAssigns
  <1>4. CASE Migration!Fork
    <2>1. step = "fork" /\ was' = was
      BY <1>4 DEF Migration!Fork
    <2>2. ASSUME NEW c \in Migration!Shared, Migration!ForkShared(c), Migration!Goto("fork")
          PROVE  MigrationScopeInv'
      <3>1. c \in DOMAIN catalog /\ MigrationTwofold(c)
        BY <1>1, MigrationShared DEF Migration!Shared
      <3>2. step' = "fork"
        BY <2>2 DEF Migration!Goto
      <3> QED BY <2>1, <2>2, <3>1, <3>2, MigrationForks
    <2>3. ASSUME Migration!Shared = {}, Migration!Goto("orphans"), UNCHANGED <<catalog, placed>>
          PROVE  MigrationScopeInv'
      <3>1. step' = "orphans" /\ catalog' = catalog /\ placed' = placed
        BY <2>3 DEF Migration!Goto
      <3>2. \A c \in DOMAIN catalog : ~ MigrationTwofold(c)
        BY <1>1, <2>3, MigrationShared
      <3>3. \A l \in DOMAIN placed : placed[l].category # none => MigrationOwn(l)
        BY <1>2, <2>1, <3>2 DEF MigrationScopeInv
      <3>4. MigrationRows' /\ \A l \in DOMAIN placed' : MigrationNamed(l)'
        BY <1>1, <2>1, <3>1 DEF MigrationRows, MigrationNamed, Migration!Ids
      <3>5. \A l \in DOMAIN placed' : placed'[l].category # none => MigrationOwn(l)'
        BY <3>1, <3>3 DEF MigrationOwn
      <3> QED BY <3>1, <3>4, <3>5 DEF MigrationScopeInv, Migration!Scoping
    <2> QED BY <1>4, <2>2, <2>3 DEF Migration!Fork
  <1>5. CASE Migration!DeleteOrphans
    <2>1. /\ step = "orphans" /\ step' = "merge" /\ placed' = placed /\ was' = was
          /\ catalog' = [c \in {d \in DOMAIN catalog : Migration!BudgetsOf(d) # {}} |-> catalog[c]]
      BY <1>5 DEF Migration!DeleteOrphans, Migration!Goto
    <2> DEFINE D == {d \in DOMAIN catalog : MigrationUsed(d)}
    <2>2. DOMAIN catalog' = D /\ \A c \in D : catalog'[c] = catalog[c]
      BY <1>1, <2>1, MigrationShared
    <2>3. \A l \in DOMAIN placed : placed[l].category # none =>
            placed[l].category \in D /\ MigrationOwn(l)
      BY <1>2, <2>1 DEF MigrationScopeInv, MigrationUsed
    <2>4. D \subseteq DOMAIN catalog /\ \A c \in D : MigrationUsed(c)
      OBVIOUS
    <2> HIDE DEF D
    <2>5. MigrationRows'
      <3>1. \A l \in DOMAIN placed : placed[l] \in [budget : Budgets, category : D \cup {none}]
        BY <1>1, <2>3 DEF MigrationRows
      <3> QED BY <1>1, <2>1, <2>2, <2>4, <3>1 DEF MigrationRows, Migration!Ids
    <2>6. \A l \in DOMAIN placed' : MigrationNamed(l)'
      BY <1>1, <1>2, <2>1, <2>2, <2>3 DEF MigrationNamed, MigrationRows
    <2>7. \A l \in DOMAIN placed' : placed'[l].category # none => MigrationOwn(l)'
      BY <2>1, <2>2, <2>3 DEF MigrationOwn
    <2>8. \A c \in DOMAIN catalog' : MigrationUsed(c)'
      BY <2>1, <2>2, <2>4 DEF MigrationUsed
    <2> QED BY <2>1, <2>5, <2>6, <2>7, <2>8 DEF MigrationScopeInv, Migration!Scoping
  <1>6. CASE Migration!MergeTwins
    <2>1. step = "merge" /\ was' = was
      BY <1>6 DEF Migration!MergeTwins
    <2>2. ASSUME NEW keep \in DOMAIN catalog,
                 placed' = [l \in DOMAIN placed |->
                              IF placed[l].category \in Migration!Twins(keep) \ {keep}
                              THEN [placed[l] EXCEPT !.category = keep] ELSE placed[l]],
                 catalog' = [c \in DOMAIN catalog \ (Migration!Twins(keep) \ {keep}) |-> catalog[c]],
                 Migration!Goto("merge")
          PROVE  MigrationScopeInv'
      <3> DEFINE gone == Migration!Twins(keep) \ {keep}
      <3>1. step' = "merge"
        BY <2>2 DEF Migration!Goto
      <3>2. placed' = [l \in DOMAIN placed |-> IF placed[l].category \in gone
                              THEN [placed[l] EXCEPT !.category = keep] ELSE placed[l]]
            /\ catalog' = [c \in DOMAIN catalog \ gone |-> catalog[c]]
        BY <2>2
      <3>3. gone = Migration!Twins(keep) \ {keep}
        OBVIOUS
      <3> HIDE DEF gone
      <3> QED BY <2>1, <3>1, <3>2, <3>3, MigrationMerges
    <2>3. ASSUME \A c \in DOMAIN catalog : Migration!Twins(c) = {c},
                 Migration!Goto("constrain"), UNCHANGED <<catalog, placed>>
          PROVE  MigrationScopeInv'
      <3>1. step' = "constrain" /\ catalog' = catalog /\ placed' = placed
        BY <2>3 DEF Migration!Goto
      <3>2. \A c, d \in DOMAIN catalog : catalog[c] = catalog[d] => c = d
        <4> SUFFICES ASSUME NEW c \in DOMAIN catalog, NEW d \in DOMAIN catalog, catalog[c] = catalog[d]
                     PROVE  c = d
          OBVIOUS
        <4>1. d \in Migration!Twins(c)
          BY DEF Migration!Twins
        <4> QED BY <2>3, <4>1
      <3>3. MigrationRows' /\ \A l \in DOMAIN placed' : MigrationNamed(l)'
        BY <1>1, <2>1, <3>1 DEF MigrationRows, MigrationNamed, Migration!Ids
      <3>4. /\ \A l \in DOMAIN placed : placed[l].category # none => MigrationOwn(l)
            /\ \A c \in DOMAIN catalog : MigrationUsed(c)
        BY <2>1 DEF MigrationScopeInv
      <3>5. /\ \A l \in DOMAIN placed' : placed'[l].category # none => MigrationOwn(l)'
            /\ \A c \in DOMAIN catalog' : MigrationUsed(c)'
        BY <3>1, <3>4 DEF MigrationOwn, MigrationUsed
      <3> QED BY <3>1, <3>2, <3>3, <3>5 DEF MigrationScopeInv, Migration!Scoping
    <2> QED BY <1>6, <2>2, <2>3 DEF Migration!MergeTwins
  <1>7. CASE Migration!Constrain
    <2>1. step = "constrain" /\ catalog' = catalog /\ placed' = placed /\ was' = was
      BY <1>7 DEF Migration!Constrain, Migration!scopeVars
    <2>2. /\ \A l \in DOMAIN placed : placed[l].category # none => MigrationOwn(l)
          /\ \A c \in DOMAIN catalog : MigrationUsed(c)
          /\ \A c, d \in DOMAIN catalog : catalog[c] = catalog[d] => c = d
      BY <2>1 DEF MigrationScopeInv
    <2>3. \A c \in DOMAIN catalog : catalog[c].budget # none
      <3> SUFFICES ASSUME NEW c \in DOMAIN catalog PROVE catalog[c].budget # none
        OBVIOUS
      <3>1. PICK l \in DOMAIN placed : placed[l].category = c
        BY <2>2 DEF MigrationUsed
      <3>2. c # none /\ placed[l].budget # none
        BY <1>2
      <3> QED BY <2>2, <3>1, <3>2 DEF MigrationOwn
    <2>4. step' = "scoped"
      BY <1>7, <2>2, <2>3 DEF Migration!Constrain, Migration!Goto
    <2>5. MigrationRows' /\ \A l \in DOMAIN placed' : MigrationNamed(l)'
      BY <1>1, <2>1 DEF MigrationRows, MigrationNamed, Migration!Ids
    <2>6. /\ \A l \in DOMAIN placed' : placed'[l].category # none => MigrationOwn(l)'
          /\ \A c \in DOMAIN catalog' : MigrationUsed(c)'
      BY <2>1, <2>2 DEF MigrationOwn, MigrationUsed
    <2> QED BY <2>4, <2>5, <2>6 DEF MigrationScopeInv, Migration!Scoping
  <1>8. CASE Migration!Round \/ Migration!ReconcileExpenses \/ Migration!ReconcileLots
    <2>1. step' \in {"by expense", "by lot", "rounded"}
          /\ catalog' = catalog /\ placed' = placed /\ was' = was
      BY <1>8 DEF Migration!Round, Migration!ReconcileExpenses, Migration!ReconcileLots,
                  Migration!scopeVars
    <2>2. MigrationRows' /\ \A l \in DOMAIN placed' : MigrationNamed(l)'
      BY <1>1, <2>1 DEF MigrationRows, MigrationNamed, Migration!Ids
    <2> QED BY <2>1, <2>2 DEF MigrationScopeInv, Migration!Rounding
  <1> QED BY <1>3, <1>4, <1>5, <1>6, <1>7, <1>8 DEF Migration!Next

\* The categories after 000014.
LEMMA MigrationScopeImplies ==
  ASSUME Migration!MigrationsAssumption, MigrationScopeInv
  PROVE  Migration!LinesKeepCategories
  <1>1. step # "failed"
    BY DEF MigrationScopeInv, Migration!Scoping, Migration!Rounding
  <1>2. MigrationRows /\ \A l \in DOMAIN placed : MigrationNamed(l)
    BY DEF MigrationScopeInv
  <1>3. ASSUME step = "scoped"
        PROVE  /\ \A l \in DOMAIN placed :
                    IF was[l] = none THEN placed[l].category = none
                    ELSE catalog[placed[l].category] = [name |-> was[l], budget |-> placed[l].budget]
               /\ \A c \in DOMAIN catalog : Migration!BudgetsOf(c) # {}
    <2>1. \A c \in DOMAIN catalog : Migration!BudgetsOf(c) # {}
      BY <1>2, <1>3, MigrationShared DEF MigrationScopeInv
    <2>2. ASSUME NEW l \in DOMAIN placed, was[l] # none
          PROVE  catalog[placed[l].category] = [name |-> was[l], budget |-> placed[l].budget]
      <3>1. placed[l].category \in DOMAIN catalog /\ placed[l].category # none
            /\ catalog[placed[l].category].name = was[l]
        BY <1>2, <2>2, MigrationFiled DEF MigrationNamed
      <3>2. catalog[placed[l].category].budget = placed[l].budget
        BY <1>3, <3>1 DEF MigrationScopeInv, MigrationOwn
      <3>3. catalog[placed[l].category] \in [name : Names, budget : Budgets \cup {none}]
        BY <1>2, <3>1 DEF MigrationRows
      <3> HIDE <2>2
      <3> QED BY <3>1, <3>2, <3>3
    <2> QED BY <1>2, <2>1, <2>2 DEF MigrationNamed
  <1> QED BY <1>1, <1>3 DEF Migration!LinesKeepCategories

\* It does not change with the other parts.
LEMMA MigrationScopeStays ==
  ASSUME MigrationScopeInv, UNCHANGED <<step, catalog, placed, was>>
  PROVE  MigrationScopeInv'
  <1>1. step' = step /\ catalog' = catalog /\ placed' = placed /\ was' = was
    OBVIOUS
  <1>2. MigrationRows'
    BY <1>1 DEF MigrationScopeInv, MigrationRows, Migration!Ids
  <1>3. \A l : (MigrationNamed(l)' <=> MigrationNamed(l)) /\ (MigrationOwn(l)' <=> MigrationOwn(l))
    BY <1>1 DEF MigrationNamed, MigrationOwn
  <1>4. \A c : (MigrationTwofold(c)' <=> MigrationTwofold(c)) /\ (MigrationUsed(c)' <=> MigrationUsed(c))
    BY <1>1 DEF MigrationTwofold, MigrationUsed
  <1>5. step' \in Migration!Scoping \cup Migration!Rounding
    BY <1>1 DEF MigrationScopeInv
  <1> QED BY <1>1, <1>2, <1>3, <1>4, <1>5 DEF MigrationScopeInv, Migration!Scoping,
             Migration!Rounding

-----------------------------------------------------------------------------
\* The inductive invariant of the migrations: nothing is allocated while 000014 runs.
MigrationInv ==
  /\ MigrationScopeInv /\ MigrationRoundInv
  /\ step \notin Migration!Rounding => allocated = Migration!Nothing /\ exact = Migration!Nothing

\* It holds at the start.
LEMMA MigrationInvInit ==
  ASSUME Migration!MigrationsAssumption, Migration!Init PROVE MigrationInv
  <1>1. step \notin Migration!Rounding => allocated = Migration!Nothing /\ exact = Migration!Nothing
    BY DEF Migration!Init, Migration!InitScoping, Migration!InitRounding, Migration!Rounding
  <1> QED BY <1>1, MigrationScopeInit, MigrationRoundInit DEF MigrationInv

\* It is inductive.
LEMMA MigrationInvStep ==
  ASSUME Migration!MigrationsAssumption, MigrationInv, Migration!Next PROVE MigrationInv'
  <1>1. MigrationScopeInv' /\ MigrationRoundInv'
    BY MigrationScopeStep, MigrationRoundStep DEF MigrationInv
  <1>2. (step \notin Migration!Rounding => allocated = Migration!Nothing /\ exact = Migration!Nothing)'
    <2>1. CASE step \in Migration!Rounding
      <3>1. step' \in Migration!Rounding
        BY <2>1 DEF Migration!Next, Migration!AssignSingle, Migration!Fork, Migration!DeleteOrphans,
             Migration!MergeTwins, Migration!Constrain, Migration!Round, Migration!ReconcileExpenses,
             Migration!ReconcileLots, Migration!Rounding
      <3> QED BY <3>1 DEF Migration!Rounding
    <2>2. CASE step \notin Migration!Rounding
      <3>1. UNCHANGED <<allocated, exact>>
        BY <2>2 DEF Migration!Next, Migration!AssignSingle, Migration!Fork, Migration!DeleteOrphans,
             Migration!MergeTwins, Migration!Constrain, Migration!Round, Migration!ReconcileExpenses,
             Migration!ReconcileLots, Migration!Rounding, Migration!Goto, Migration!roundVars
      <3> QED BY <2>2, <3>1 DEF MigrationInv, Migration!Nothing, Migration!Rounding
    <2> QED BY <2>1, <2>2
  <1> QED BY <1>1, <1>2 DEF MigrationInv

\* What it gives.
LEMMA MigrationInvImplies ==
  ASSUME Migration!MigrationsAssumption, MigrationInv
  PROVE  Migration!TypeOK /\ Migration!LinesKeepCategories /\ Migration!AllocationsWithinCaps
  <1>1. /\ DOMAIN allocated \subseteq Migration!Pairs /\ DOMAIN exact = DOMAIN allocated
        /\ \A p \in DOMAIN allocated : allocated[p] \in Int
    <2>1. CASE step \in Migration!Rounding
      BY <2>1 DEF MigrationInv, MigrationRoundInv, MigrationCells
    <2>2. CASE step \notin Migration!Rounding
      BY <2>2 DEF MigrationInv, Migration!Nothing
    <2> QED BY <2>1, <2>2
  <1>2. MigrationScopeInv /\ MigrationRoundInv
    BY DEF MigrationInv
  <1>3. Migration!TypeOK
    BY <1>1, <1>2 DEF Migration!TypeOK, MigrationScopeInv, MigrationRows
  <1> QED BY <1>2, <1>3, MigrationScopeImplies, MigrationRoundImplies

\* It does not change with the other parts.
LEMMA MigrationInvStays ==
  ASSUME MigrationInv, UNCHANGED <<step, catalog, placed, was, allocated, expenses, lots, exact>>
  PROVE  MigrationInv'
  <1>1. MigrationScopeInv' /\ MigrationRoundInv'
    BY MigrationScopeStays, MigrationRoundStays DEF MigrationInv
  <1> QED BY <1>1 DEF MigrationInv, Migration!Nothing, Migration!Rounding

\* Every step keeps it.
LEMMA MigrationInvNext ==
  ASSUME Migration!MigrationsAssumption, MigrationInv, [Migration!Next]_(Migration!vars)
  PROVE  MigrationInv'
  <1>1. CASE UNCHANGED Migration!vars
    BY <1>1, MigrationInvStays DEF Migration!vars, Migration!scopeVars, Migration!roundVars
  <1>2. CASE Migration!Next
    BY <1>2, MigrationInvStep
  <1> QED BY <1>1, <1>2

-----------------------------------------------------------------------------
(* The five parts of the instance.                                         *)

\* The inductive invariant: that of the part the behaviour is of.
BudgetsInv ==
  /\ part = "funders" => FunderInv
  /\ part = "lines" => LineIInv
  /\ part = "files" => FileInv
  /\ part = "figures" => Figure!TypeOK
  /\ part = "migrations" => MigrationInv

\* A step is one of the part the behaviour is of, which stays the same.
LEMMA StepsAreOfOnePart ==
  ASSUME BudgetsInv, [Next]_vars
  PROVE  /\ part' = part
         /\ part = "funders" => [Funder!Next]_(Funder!vars)
         /\ part = "lines" => [Line!Next]_(Line!vars)
         /\ part = "files" => [File!Next]_(File!vars)
         /\ part = "figures" => [Figure!Next]_(Figure!vars)
         /\ part = "migrations" => [Migration!Next]_(Migration!vars)
  <1> DEFINE StepOf == /\ part' = part
                       /\ part = "funders" => [Funder!Next]_(Funder!vars)
                       /\ part = "lines" => [Line!Next]_(Line!vars)
                       /\ part = "files" => [File!Next]_(File!vars)
                       /\ part = "figures" => [Figure!Next]_(Figure!vars)
                       /\ part = "migrations" => [Migration!Next]_(Migration!vars)
             FunderMove ==
               \/ \E d \in Donors : Funder!BeginApprove(d) \/ Funder!Approve(d) \/ Funder!Revoke(d)
               \/ \E c \in Donors \cup {Ngo} : Funder!UpdateCompany(c)
               \/ \E r \in Requests :
                    \/ Funder!BeginCreate(r) \/ Funder!BeginUpdate(r) \/ Funder!CanFund(r)
                    \/ Funder!CanOwn(r) \/ Funder!LoadBudget(r) \/ Funder!Relate(r)
                    \/ Funder!CallFails(r) \/ Funder!Insert(r) \/ Funder!Update(r)
             LineMove ==
               \/ \E w \in Writers :
                    \/ Line!BeginAdd(w) \/ Line!FindCategory(w) \/ Line!InsertCategory(w)
                    \/ Line!RereadCategory(w) \/ Line!AddLine(w) \/ Line!Answer(w)
                    \/ Line!BeginRename(w) \/ Line!BeginDelete(w) \/ Line!Rename(w) \/ Line!Delete(w)
               \/ \E l \in 1 .. MaxLines : Line!DeleteLine(l)
             FileMove ==
               \/ File!Turn \/ File!DeleteReport
               \/ \E u \in Uploads : File!InsertAttachment(u) \/ \E l \in Lines : File!SaveFile(u, l)
               \/ \E d \in Deleters :
                    \/ File!BeginDelete(d) \/ File!DeleteRow(d) \/ File!DeleteBlob(d)
                    \/ File!DeleteFiles(d) \/ File!DeleteLine(d)
               \/ \E b \in BugReports :
                    File!SaveScreenshot(b) \/ File!CreateBugReport(b) \/ File!Enqueue(b) \/ File!Post(b)
             FigureMove ==
               \/ \E k \in Kinds : Figure!Create(k)
               \/ \E i \in 1 .. MaxBudgets :
                    /\ i <= Len(budgets)
                    /\ \/ \E s \in Figure!Statuses : Figure!Turn(i, s)
                       \/ Figure!Receive(i) \/ Figure!Convert(i) \/ Figure!Spend(i)
             MigrationMove ==
               \/ Migration!AssignSingle \/ Migration!Fork \/ Migration!DeleteOrphans
               \/ Migration!MergeTwins \/ Migration!Constrain \/ Migration!Round
               \/ Migration!ReconcileExpenses \/ Migration!ReconcileLots
  <1>1. \/ UNCHANGED vars
        \/ InFunder /\ FunderMove /\ FunderOnly
        \/ InLine /\ LineMove /\ LineOnly
        \/ InFile /\ FileMove /\ FileOnly
        \/ InFigure /\ FigureMove /\ FigureOnly
        \/ InMigration /\ MigrationMove /\ MigrationOnly
    BY DEF Next
  <1>2. FunderMove => Funder!Next
    BY DEF Funder!Next, Funder!Customers
  <1>3. LineMove => Line!Next
    BY DEF Line!Next, Line!LineIds
  <1>4. FileMove => File!Next
    BY DEF File!Next
  <1>5. InFigure /\ FigureMove => Figure!Next
    <2>1. InFigure => Len(budgets) \in Nat
      BY DEF InFigure, BudgetsInv, Figure!TypeOK
    <2> QED BY <2>1 DEF Figure!Next, Figure!Ids
  <1>6. MigrationMove => Migration!Next
    BY DEF Migration!Next
  <1> HIDE DEF FunderMove, LineMove, FileMove, FigureMove, MigrationMove
  <1>7. ASSUME UNCHANGED vars
        PROVE  StepOf
    BY <1>7 DEF vars, funderVars, lineVars, fileVars, figureVars, migrationVars, Funder!vars,
                Funder!users, Line!vars, Line!tables, File!vars, File!reportVars, File!bugVars,
                Figure!vars, Migration!vars, Migration!scopeVars, Migration!roundVars
  <1>8. ASSUME InFunder /\ FunderMove /\ FunderOnly
        PROVE  StepOf
    BY <1>2, <1>8 DEF InFunder, FunderOnly
  <1>9. ASSUME InLine /\ LineMove /\ LineOnly
        PROVE  StepOf
    BY <1>3, <1>9 DEF InLine, LineOnly
  <1>10. ASSUME InFile /\ FileMove /\ FileOnly
         PROVE  StepOf
    BY <1>4, <1>10 DEF InFile, FileOnly
  <1>11. ASSUME InFigure /\ FigureMove /\ FigureOnly
         PROVE  StepOf
    BY <1>5, <1>11 DEF InFigure, FigureOnly
  <1>12. ASSUME InMigration /\ MigrationMove /\ MigrationOnly
         PROVE  StepOf
    BY <1>6, <1>12 DEF InMigration, MigrationOnly
  <1> QED BY <1>1, <1>7, <1>8, <1>9, <1>10, <1>11, <1>12

\* The invariant holds in every reachable state.
LEMMA BudgetsInvariance == Spec => []BudgetsInv
  <1> USE Assumptions
  <1>1. Init => BudgetsInv
    <2> SUFFICES ASSUME Init PROVE BudgetsInv
      OBVIOUS
    <2>1. part = "funders" => FunderInv
      BY FunderInvInit DEF Init
    <2>2. part = "lines" => LineIInv
      BY LineInvInit DEF Init
    <2>3. part = "files" => FileInv
      BY FileInvInit DEF Init
    <2>4. part = "figures" => Figure!TypeOK
      BY FigureTypesInit DEF Init
    <2>5. part = "migrations" => MigrationInv
      BY MigrationInvInit DEF Init
    <2> QED BY <2>1, <2>2, <2>3, <2>4, <2>5 DEF BudgetsInv
  <1>2. BudgetsInv /\ [Next]_vars => BudgetsInv'
    <2> SUFFICES ASSUME BudgetsInv, [Next]_vars PROVE BudgetsInv'
      OBVIOUS
    <2>1. part' = part
      BY StepsAreOfOnePart
    <2>2. part = "funders" => FunderInv'
      BY StepsAreOfOnePart, FunderInvStep DEF BudgetsInv
    <2>3. part = "lines" => LineIInv'
      BY StepsAreOfOnePart, LineInvStep DEF BudgetsInv
    <2>4. part = "files" => FileInv'
      BY StepsAreOfOnePart, FileInvStep DEF BudgetsInv
    <2>5. part = "figures" => Figure!TypeOK'
      BY StepsAreOfOnePart, FigureTypesStep DEF BudgetsInv
    <2>6. part = "migrations" => MigrationInv'
      BY StepsAreOfOnePart, MigrationInvNext DEF BudgetsInv
    <2> QED BY <2>1, <2>2, <2>3, <2>4, <2>5, <2>6 DEF BudgetsInv
  <1> QED BY <1>1, <1>2, PTL DEF Spec
-----------------------------------------------------------------------------
(* The modules by themselves.                                              *)

\* FunderLinks by itself: however its requests overlap, budgets are linked to donors that
\* approved their owner.
THEOREM FunderLinksCorrect ==
  ASSUME Funder!FundersAssumption
  PROVE  Funder!Spec => []Funder!TypeOK /\ [][Funder!LinkStep /\ Funder!FunderStep]_(Funder!vars)
  <1>1. Funder!Init => FunderInv
    BY FunderInvInit
  <1>2. FunderInv /\ [Funder!Next]_(Funder!vars) => FunderInv'
    BY FunderInvStep
  <1>3. FunderInv => Funder!TypeOK
    BY DEF FunderInv
  <1>4. FunderInv /\ [Funder!Next]_(Funder!vars) => [Funder!LinkStep /\ Funder!FunderStep]_(Funder!vars)
    BY FunderLinkStep, FunderFunderStep
  <1> QED BY <1>1, <1>2, <1>3, <1>4, PTL DEF Funder!Spec

\* BudgetLines by itself: requests that race for a name all add their lines under it.
THEOREM BudgetLinesCorrect ==
  ASSUME Line!LinesAssumption
  PROVE  Line!Spec => []Line!TypeOK /\ Line!AddsGoThrough
  <1>1. Line!Init => LineIInv
    BY LineInvInit
  <1>2. LineIInv /\ [Line!Next]_(Line!vars) => LineIInv'
    BY LineInvStep
  <1>3. LineIInv => Line!TypeOK
    BY DEF LineIInv, LineTypes
  <1>4. LineIInv /\ [Line!Next]_(Line!vars) => [Line!RaceStep /\ Line!FiledStep]_(Line!vars)
    BY LineNobodyRefused, LineFiledAsAsked
  <1> QED BY <1>1, <1>2, <1>3, <1>4, PTL DEF Line!Spec, Line!AddsGoThrough

\* Attachments by itself: rows have files, and what is announced is stored.
THEOREM AttachmentsCorrect ==
  ASSUME File!AttachmentsAssumption
  PROVE  File!Spec => [](File!TypeOK /\ File!FilesAreThere)
  <1>1. File!Init => FileInv
    BY FileInvInit
  <1>2. FileInv /\ [File!Next]_(File!vars) => FileInv'
    BY FileInvStep
  <1>3. FileInv => File!TypeOK /\ File!FilesAreThere
    BY FileInvImplies
  <1> QED BY <1>1, <1>2, <1>3, PTL DEF File!Spec

\* FundingFigures by itself: figures that are added up apart agree.
THEOREM FundingFiguresCorrect ==
  ASSUME Figure!FiguresAssumption
  PROVE  Figure!Spec => [](Figure!TypeOK /\ Figure!FiguresAgree)
  <1>1. Figure!Init => Figure!TypeOK
    BY FigureTypesInit
  <1>2. Figure!TypeOK /\ [Figure!Next]_(Figure!vars) => Figure!TypeOK'
    BY FigureTypesStep
  <1>3. Figure!TypeOK => Figure!FiguresAgree
    BY FigureAgrees
  <1> QED BY <1>1, <1>2, <1>3, PTL DEF Figure!Spec

\* BudgetMigrations by itself: neither migration loses what it rewrites.
THEOREM BudgetMigrationsCorrect ==
  ASSUME Migration!MigrationsAssumption
  PROVE  Migration!Spec =>
           [](Migration!TypeOK /\ Migration!LinesKeepCategories /\ Migration!AllocationsWithinCaps)
  <1>1. Migration!Init => MigrationInv
    BY MigrationInvInit
  <1>2. MigrationInv /\ [Migration!Next]_(Migration!vars) => MigrationInv'
    BY MigrationInvNext
  <1>3. MigrationInv =>
          Migration!TypeOK /\ Migration!LinesKeepCategories /\ Migration!AllocationsWithinCaps
    BY MigrationInvImplies
  <1> QED BY <1>1, <1>2, <1>3, PTL DEF Migration!Spec
-----------------------------------------------------------------------------
(* The properties of the instance.                                         *)

\* Tables, requests, files and figures hold what the type invariants of their modules say, for
\* any number of donors, requests, categories, lines, uploads, budgets and amounts.
THEOREM BudgetsTypeCorrect == Spec => []TypeOK
  <1>1. BudgetsInv => TypeOK
    BY Assumptions, FileInvImplies, MigrationInvImplies
       DEF BudgetsInv, TypeOK, FunderInv, LineIInv, LineTypes
  <1> QED BY <1>1, BudgetsInvariance, PTL

\* However many requests, approvals, revocations and edits overlap, a budget is linked to a
\* donor only if the donor had approved its owner while the request was under way, and a
\* request that nobody overtakes leaves the budget a donor or a name.
THEOREM LinksAreApproved == Spec => LinksHold
  <1>1. BudgetsInv /\ [Next]_vars => (part = "funders" => Funder!LinkStep /\ Funder!FunderStep)
    BY Assumptions, StepsAreOfOnePart, FunderLinkStep, FunderFunderStep DEF BudgetsInv
  <1> QED BY <1>1, BudgetsInvariance, PTL DEF Spec, LinksHold

\* Requests that add lines under one new name at the same moment all succeed, and each line
\* is filed under the name its request gave, unless a category was renamed or deleted
\* meanwhile: a request that loses the race finds the winner's category when it looks again
\* (get_or_create_category's savepoint).
THEOREM EveryAddGoesThrough == Spec => AddsGoThrough
  <1>1. BudgetsInv /\ [Next]_vars => (part = "lines" => Line!RaceStep /\ Line!FiledStep)
    BY Assumptions, StepsAreOfOnePart, LineNobodyRefused, LineFiledAsAsked DEF BudgetsInv
  <1> QED BY <1>1, BudgetsInvariance, PTL DEF Spec, AddsGoThrough

\* However uploads, deletions and crashes between their two writes interleave, the file of a
\* row that is listed is there, unless its line's deletion took it, and a bug report that was
\* announced is stored.
THEOREM FilesStored == Spec => []FilesAreThere
  <1>1. BudgetsInv => FilesAreThere
    BY FileInvImplies DEF BudgetsInv, FilesAreThere
  <1> QED BY <1>1, BudgetsInvariance, PTL

\* For any budgets, of any owners, funders, currencies and rates, with any receipts,
\* conversions and expenses: a donor's summary is the sum of its list of grantees, what an
\* owner committed is what its funders allocated, and its dashboard shows what its ledgers do.
THEOREM FiguresShownAgree == Spec => []FiguresAgree
  <1>1. BudgetsInv => FiguresAgree
    BY Assumptions, FigureAgrees DEF BudgetsInv, FiguresAgree
  <1> QED BY <1>1, BudgetsInvariance, PTL

\* Whatever lines shared whatever categories, the migration that gives each category to one
\* budget passes its own constraints and leaves every line under the name it had; whatever was
\* allocated within expenses and lots is within them when all is rounded and repaired, and no
\* amount moved by more than a digit for each allocation.
THEOREM MigrationsKeepData == Spec => []MigrationsKeep
  <1>1. BudgetsInv => MigrationsKeep
    BY Assumptions, MigrationInvImplies DEF BudgetsInv, MigrationsKeep
  <1> QED BY <1>1, BudgetsInvariance, PTL
=============================================================================
