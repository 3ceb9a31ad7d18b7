------------------------------ MODULE MCBilling ------------------------------
(* A small instance of Billing: amounts around the half cent. *)
EXTENDS Billing, TLC

\* 0.50 of a cent, 1.49 cents and a discount of half a cent
FractionalLines == {50, 149, -50}
\* a payment of 2 cents, and a refund of half a cent
FractionalPayments == {200, -50}

NightlyRates == {1, 2}
=============================================================================
