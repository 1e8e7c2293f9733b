---------------------------- MODULE LotAccounts ----------------------------
(***************************************************************************)
(* What a currency ledger promises: conversion lots are accounts from      *)
(* which expenses take money.  Money is moved, never made: what leaves a   *)
(* lot is held by one expense line, comes from one lot at a time and never *)
(* exceeds what the lot has, and goes back only as a whole line or report  *)
(* is released.                                                            *)
(***************************************************************************)
EXTENDS Integers

CONSTANTS Lines, Lots

VARIABLES
    size,     \* what each lot was opened with
    balance,  \* money left in each lot
    held      \* held[l][k]: money line l took from lot k

Init ==
    /\ size = [k \in Lots |-> 0]
    /\ balance = size
    /\ held = [l \in Lines |-> [k \in Lots |-> 0]]

\* A conversion is recorded: an account nobody holds money of is opened.
Open(k) ==
    /\ size[k] = 0 /\ balance[k] = 0
    /\ size' \in [Lots -> Int]
    /\ \A j \in Lots \ {k} : size'[j] = size[j]
    /\ balance' = [balance EXCEPT ![k] = size'[k]]
    /\ UNCHANGED held

\* A line takes n from lot k, which has it.
Take(l, k, n) ==
    /\ balance' = [balance EXCEPT ![k] = @ - n]
    /\ held' = [held EXCEPT ![l][k] = @ + n]
    /\ UNCHANGED size

\* One line gives back everything it holds, each part to the lot it is from.
GiveBack(l) ==
    /\ held' = [held EXCEPT ![l] = [k \in Lots |-> 0]]
    /\ balance' = [k \in Lots |-> balance[k] + held[l][k]]
    /\ UNCHANGED size

\* Every line gives back: the lots are full again.
GiveAllBack ==
    /\ held' = [l \in Lines |-> [k \in Lots |-> 0]]
    /\ balance' = size
    /\ UNCHANGED size

Next ==
    \/ \E k \in Lots : Open(k)
    \/ \E l \in Lines, k \in Lots : \E n \in 1 .. balance[k] : Take(l, k, n)
    \/ \E l \in Lines : GiveBack(l)
    \/ GiveAllBack

Spec == Init /\ [][Next]_<<size, balance, held>>
=============================================================================
