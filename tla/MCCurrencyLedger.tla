-------------------------- MODULE MCCurrencyLedger --------------------------
(* Instances of CurrencyLedger for TLC. *)
EXTENDS CurrencyLedger, TLC

\* Edits by one request at a time, and no failures.
MCOpsOrderly == [create |-> 2, update |-> 1, convert |-> 2, delete |-> 0, drop |-> 0]

\* Everything at once.
MCOpsAll == [create |-> 2, update |-> 1, convert |-> 1, delete |-> 1, drop |-> 1]

\* One new line while the report is handed over.
MCOpsSubmit == [create |-> 1, update |-> 0, convert |-> 1, delete |-> 0, drop |-> 0]

\* Two edits of one line.
MCOpsEdits == [create |-> 1, update |-> 2, convert |-> 1, delete |-> 0, drop |-> 0]

MCAmounts == {-1, 1, 2}
MCAmountsPositive == 1 .. 2
MCDates == 1 .. 2

Symmetry == Permutations(Requests)
=============================================================================
