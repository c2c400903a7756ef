------------------------------- MODULE Ledger -------------------------------
(***************************************************************************)
(* What the write API promises about one outlet's books, whatever requests *)
(* are repeated, raced or cut short: each intent (a client_id) is applied  *)
(* at most once, as a whole, to the stock as it is at that moment, and no  *)
(* product ever goes below zero (design.md 3.4; docstring of               *)
(* routers/sales.py).                                                      *)
(***************************************************************************)
EXTENDS Integers

CONSTANTS
    Intents,    \* the intents clients may submit
    Products,   \* the products of the outlet
    Effect,     \* Effect[c][p]: what intent c adds to the stock of p
    Opening     \* Opening[p]: the stock of p at the start

VARIABLES
    balance,    \* balance[p]: the stock of p
    recorded    \* the intents applied so far

vars == <<balance, recorded>>

Init ==
    /\ balance = Opening
    /\ recorded = {}

Apply(c) ==
    /\ c \notin recorded
    /\ \A p \in Products : balance[p] + Effect[c][p] >= 0
    /\ balance' = [p \in Products |-> balance[p] + Effect[c][p]]
    /\ recorded' = recorded \cup {c}

Next == \E c \in Intents : Apply(c)

Spec == Init /\ [][Next]_vars
=============================================================================
