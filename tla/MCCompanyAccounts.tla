------------------------ MODULE MCCompanyAccounts ------------------------
(***************************************************************************)
(* Instances of CompanyAccounts for TLC.  A behaviour is one of three      *)
(* kinds, by how many of the workers serve admins at the same time, and    *)
(* each kind has the bounds under which its questions come up.             *)
(***************************************************************************)
EXTENDS CompanyAccounts, TLC

CONSTANT Newcomer   \* joins only where all workers may serve admins

VARIABLE desk       \* the workers that serve admins, of those that may

\* Workers are alike.
Staff == Permutations(Workers)

\* Nobody serves admins: passwords change.  One does: roles change and users go while
\* others log in and refresh.  All do: their requests overlap, a third user joins, and
\* one session is enough, which is neither renewed nor logged out.
MCBounds ==
    /\ desk # {} => minted <= 2 /\ \A u \in Users : users[u].secret <= 1
    /\ desk # Workers => ~Known(Newcomer)
    /\ desk = Workers =>
          /\ nRows <= 1 /\ minted <= 1
          /\ \A w \in Workers : req[w].kind \notin {"refresh", "logout", "reset", "change"}

MCInit == Init /\ desk \in SUBSET Office

MCNext ==
    /\ Next
    /\ \A w \in Workers \ desk : req'[w].kind \notin {"role", "remove"}
    /\ UNCHANGED desk
    /\ MCBounds'

MCSpec == MCInit /\ [][MCNext]_<<vars, desk>>
=============================================================================
