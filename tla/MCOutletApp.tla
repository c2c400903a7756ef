----------------------------- MODULE MCOutletApp -----------------------------
(* A small instance of OutletApp for TLC: two cashiers, one product whose    *)
(* price and discounts end in half cents.                                    *)
EXTENDS OutletApp, TLC

CONSTANTS ama, kofi, soap

TwoUsers == {ama, kofi}
OneUser == {ama}
OneProduct == {soap}

\* 12.50% of 3.64 is 45.5 cents.
Prices == soap :> 364
SoldOut == {soap :> 0}
Forms == {[kind |-> "percentage", value |-> 1250, tax |-> 100]}

=============================================================================
