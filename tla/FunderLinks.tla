---------------------------- MODULE FunderLinks ----------------------------
(***************************************************************************)
(* Who funds a budget.  In the users service a donor approves a grantee    *)
(* (donor_grantees) and takes it back, and companies turn their roles on   *)
(* and off.  In the budget service requests link one draft budget to a     *)
(* donor or give it a free-text funder: they ask the users service about   *)
(* the donor (an answer kept in a cache of the process, without expiry)    *)
(* and about the approval (never cached), and write without a lock, only   *)
(* the attributes that differ from what they loaded.                       *)
(***************************************************************************)
EXTENDS Naturals, SequencesExt

CONSTANTS Donors,    \* customers that may fund
          Ngo,       \* the customer that owns the budget
          Requests,  \* requests of the budget service, one at a time each
          CacheSize, \* _CACHE_MAXSIZE
          MaxEdits,  \* how often a company changes a role (a bound)
          none

Customers == Donors \cup {Ngo}

\* What is assumed of the constants.
FundersAssumption ==
  /\ Ngo \notin Donors /\ none \notin Customers /\ CacheSize \in Nat \ {0}
  /\ MaxEdits \in Nat

VARIABLES edits,     \* how often a role changed
          flags,     \* is_donor and is_ngo of the customers
          approved,  \* donors with a donor_grantees row for the Ngo
          approving, \* those about to commit one
          cache,     \* _customer_cache, the entry used last at the end
          budget,    \* funding_customer_id and external_funder_name
          request,   \* what each request holds
          since      \* donors approved at some time since it began (history)

users == <<edits, flags, approved, approving>>
vars == <<users, cache, budget, request, since>>

\* A name is NULL, "" or text; a payload that says nothing of it leaves it unset.
Budget == [made : BOOLEAN, donor : Donors \cup {none}, name : {"null", "empty", "text"}]
NoBudget == [made |-> FALSE, donor |-> none, name |-> "null"]
Entry == [who : Customers, donor : BOOLEAN, ngo : BOOLEAN]
Request == [pc : {"idle", "fund", "own", "load", "relate", "write"}, op : {none, "create", "update"},
            staff : BOOLEAN, donor : Donors \cup {none}, name : {"unset", "empty", "text"},
            seen : Budget]
Begun(pc, op, staff, donor, name) ==
  [pc |-> pc, op |-> op, staff |-> staff, donor |-> donor, name |-> name, seen |-> NoBudget]
Idle == Begun("idle", none, FALSE, none, "unset")

TypeOK ==
  /\ edits \in 0 .. MaxEdits
  /\ flags \in [Customers -> [donor : BOOLEAN, ngo : BOOLEAN]]
  /\ approved \subseteq Donors /\ approving \subseteq Donors
  /\ cache \in Seq(Entry) /\ Len(cache) <= CacheSize
  /\ budget \in Budget
  /\ request \in [Requests -> Request]
  /\ since \in [Requests -> SUBSET Donors]

Init ==
  /\ edits = 0
  /\ flags = [c \in Customers |-> [donor |-> c # Ngo, ngo |-> c = Ngo]]
  /\ approved = {} /\ approving = {}
  /\ cache = <<>>
  /\ budget = NoBudget
  /\ request = [r \in Requests |-> Idle]
  /\ since = [r \in Requests |-> {}]

-----------------------------------------------------------------------------
(* The users service. *)

\* Both customers are read and their roles checked; the row is committed later.
BeginApprove(d) ==
  /\ d \notin approving
  /\ flags[d].donor /\ flags[Ngo].ngo
  /\ approving' = approving \cup {d}
  /\ UNCHANGED <<edits, flags, approved, cache, budget, request, since>>

\* A second row of the pair is refused by the unique constraint.
Approve(d) ==
  /\ d \in approving
  /\ approving' = approving \ {d}
  /\ approved' = approved \cup {d}
  /\ since' = [r \in Requests |-> IF request[r].pc = "idle" THEN {} ELSE since[r] \cup {d}]
  /\ UNCHANGED <<edits, flags, cache, budget, request>>

\* The row is deleted by its id: one deleted before is not missed.
Revoke(d) ==
  /\ d \in approved
  /\ approved' = approved \ {d}
  /\ UNCHANGED <<edits, flags, approving, cache, budget, request, since>>

\* update_company_service: one role or both.
UpdateCompany(c) ==
  /\ edits < MaxEdits
  /\ edits' = edits + 1
  /\ \E donor, ngo \in BOOLEAN : flags' = [flags EXCEPT ![c] = [donor |-> donor, ngo |-> ngo]]
  /\ UNCHANGED <<approved, approving, cache, budget, request, since>>

-----------------------------------------------------------------------------
(* The budget service asks about a customer.  What it is answered is       *)
(* cached the moment it is given.                                          *)

Cached(c) == \E i \in DOMAIN cache : cache[i].who = c
Place(c) == CHOOSE i \in DOMAIN cache : cache[i].who = c
Answer(c) ==
  IF Cached(c) THEN cache[Place(c)] ELSE [who |-> c, donor |-> flags[c].donor, ngo |-> flags[c].ngo]

\* Mutant: no entry leaves.
RememberedAll(c) ==
  Append(IF Cached(c) THEN RemoveAt(cache, Place(c)) ELSE cache, Answer(c))

\* The entry used goes to the end; the first one leaves when there is one too many.
Remembered(c) ==
  LET used == Append(IF Cached(c) THEN RemoveAt(cache, Place(c)) ELSE cache, Answer(c))
  IN  IF Len(used) > CacheSize THEN Tail(used) ELSE used

Set(r, record) == request' = [request EXCEPT ![r] = record]
Retire(r) == Set(r, Idle) /\ since' = [since EXCEPT ![r] = {}]
Goto(r, pc) == Set(r, [request[r] EXCEPT !.pc = pc]) /\ UNCHANGED since

\* BudgetCreate has a donor or a name; a superuser states the owner.
BeginCreate(r) ==
  /\ request[r].pc = "idle" /\ ~budget.made
  /\ \E d \in Donors \cup {none}, n \in {"unset", "empty", "text"}, staff \in BOOLEAN :
       /\ d # none \/ n = "text"
       /\ Set(r, Begun(IF d # none THEN "fund" ELSE IF staff THEN "own" ELSE "write",
                       "create", staff, d, n))
  /\ since' = [since EXCEPT ![r] = approved]
  /\ UNCHANGED <<users, cache, budget>>

\* A PATCH by the owner that touches the funder.
BeginUpdate(r) ==
  /\ request[r].pc = "idle" /\ budget.made
  /\ \E d \in Donors \cup {none}, n \in {"unset", "empty", "text"} :
       /\ d # none \/ n # "unset"
       /\ Set(r, Begun(IF d # none THEN "fund" ELSE "load", "update", FALSE, d, n))
  /\ since' = [since EXCEPT ![r] = approved]
  /\ UNCHANGED <<users, cache, budget>>

\* validate_customer_can_fund
CanFund(r) ==
  LET q == request[r]
  IN  /\ q.pc = "fund"
      /\ cache' = Remembered(q.donor)
      /\ IF Answer(q.donor).donor
         THEN Goto(r, IF q.op = "update" THEN "load" ELSE IF q.staff THEN "own" ELSE "relate")
         ELSE Retire(r)
      /\ UNCHANGED <<users, budget>>

\* validate_customer_can_own
CanOwn(r) ==
  LET q == request[r]
  IN  /\ q.pc = "own"
      /\ cache' = Remembered(Ngo)
      /\ IF Answer(Ngo).ngo
         THEN Goto(r, IF q.donor # none THEN "relate" ELSE "write")
         ELSE Retire(r)
      /\ UNCHANGED <<users, budget>>

LoadBudget(r) ==
  /\ request[r].pc = "load"
  /\ Set(r, [request[r] EXCEPT !.seen = budget,
               !.pc = IF request[r].donor # none THEN "relate" ELSE "write"])
  /\ UNCHANGED <<users, cache, budget, since>>

\* Mutant: the approval is checked only when the budget is created.
RelateAtCreation(r) ==
  LET q == request[r]
  IN  /\ q.pc = "relate"
      /\ IF q.donor \in approved \/ q.op = "update" THEN Goto(r, "write") ELSE Retire(r)
      /\ UNCHANGED <<users, cache, budget>>

\* validate_donor_grantee_relationship
Relate(r) ==
  LET q == request[r]
  IN  /\ q.pc = "relate"
      /\ IF q.donor \in approved THEN Goto(r, "write") ELSE Retire(r)
      /\ UNCHANGED <<users, cache, budget>>

\* The users service does not answer, or in error, when it has to be asked.
CallFails(r) ==
  /\ \/ request[r].pc = "relate"
     \/ request[r].pc = "fund" /\ ~Cached(request[r].donor)
     \/ request[r].pc = "own" /\ ~Cached(Ngo)
  /\ Retire(r)
  /\ UNCHANGED <<users, cache, budget>>

-----------------------------------------------------------------------------
(* The write. *)

Funded(donor, name) == donor # none \/ name = "text"

\* Mutant: a name is taken as sent when it is not empty.
EffectiveIfText(q) ==
  IF q.name = "text" THEN [donor |-> q.donor, name |-> q.name]
  ELSE IF q.donor # none THEN [donor |-> q.donor, name |-> q.seen.name]
  ELSE [donor |-> q.seen.donor, name |-> q.seen.name]

\* _effective_funder_after_update: what the check takes for the outcome.
Effective(q) ==
  IF q.name # "unset" THEN [donor |-> q.donor, name |-> q.name]
  ELSE IF q.donor # none THEN [donor |-> q.donor, name |-> q.seen.name]
  ELSE [donor |-> q.seen.donor, name |-> q.seen.name]

\* An attribute that has the value loaded is not written.
Written(old, new, current) == IF new = old THEN current ELSE new

\* update_budget, on the object the request loaded.
Updated(q) ==
  IF q.name # "unset"
  THEN [budget EXCEPT !.name = Written(q.seen.name, q.name, @),
                      !.donor = Written(q.seen.donor, q.donor, @)]
  ELSE [budget EXCEPT !.donor = Written(q.seen.donor, q.donor, @)]

\* A budget that is created when there is one already is another, not followed here.
Insert(r) ==
  LET q == request[r]
  IN  /\ q.pc = "write" /\ q.op = "create"
      /\ IF budget.made THEN UNCHANGED budget
         ELSE budget' = [made |-> TRUE, donor |-> q.donor,
                         name |-> IF q.name = "unset" THEN "null" ELSE q.name]
      /\ Retire(r)
      /\ UNCHANGED <<users, cache>>

Update(r) ==
  LET q == request[r]
  IN  /\ q.pc = "write" /\ q.op = "update"
      /\ IF Funded(Effective(q).donor, Effective(q).name)
         THEN budget' = Updated(q)
         ELSE UNCHANGED budget
      /\ Retire(r)
      /\ UNCHANGED <<users, cache>>

Next ==
  \/ \E d \in Donors : BeginApprove(d) \/ Approve(d) \/ Revoke(d)
  \/ \E c \in Customers : UpdateCompany(c)
  \/ \E r \in Requests :
       \/ BeginCreate(r) \/ BeginUpdate(r) \/ CanFund(r) \/ CanOwn(r) \/ LoadBudget(r)
       \/ Relate(r) \/ CallFails(r) \/ Insert(r) \/ Update(r)

Spec == Init /\ [][Next]_vars
-----------------------------------------------------------------------------
(* Properties. *)

\* A budget is only linked to a donor whose approval stood at some moment of the request
\* that links it: "revocation must take effect on the very next call"
\* (check_donor_grantee_relationship), whatever the cache says of the donor.
LinkStep ==
  \A d \in Donors : budget.donor # d /\ budget'.donor = d =>
    \E r \in Requests : request[r].pc = "write" /\ request[r].donor = d /\ d \in since[r]

\* "Budget must have either an approved donor or a funder name": a request that loaded the
\* budget as it still is leaves one of the two, so the rule the check applies is the rule of
\* the write.
\* Not so when another request wrote in between: of <<donor, NULL>>, one that swaps the
\* donor for a name and one that blanks the name together leave neither.
FunderStep ==
  budget' # budget =>
    \A r \in Requests :
      (request[r].pc = "write" /\ request'[r].pc = "idle" /\ (budget.made => request[r].seen = budget))
        => Funded(budget'.donor, budget'.name)

\* Both, of every step.
LinksHold == [][LinkStep /\ FunderStep]_vars
=============================================================================
