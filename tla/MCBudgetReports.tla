--------------------------- MODULE MCBudgetReports ---------------------------
(***************************************************************************)
(* Instances of BudgetReports for TLC.  Two sessions make requests in a    *)
(* behaviour: one of each side, or both of the owner.                      *)
(***************************************************************************)
EXTENDS BudgetReports, TLC

CONSTANTS
    TabWrites,   \* bound on reports and edits together where both sessions are the owner's
    TabDay       \* the last day of the periods, there

VARIABLE party        \* the two sessions

\* The owner's sessions are alike.
Tabs == Permutations(Owners)

MCInit == Init /\ \E s \in Owners : \E t \in Sessions \ {s} : party = {s, t}

MCNext ==
    /\ \E s \in party : BudgetStep(s) \/ ReportStep(s)
    /\ party \subseteq Owners => /\ nReports' + figures' <= TabWrites
                                /\ \A s \in party : span'[s].to <= TabDay
    /\ UNCHANGED party

MCSpec == MCInit /\ [][MCNext]_<<vars, party>>
=============================================================================
