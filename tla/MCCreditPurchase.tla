-------------------------- MODULE MCCreditPurchase --------------------------
(* Two payments in one credit system, and a third in another. *)
EXTENDS CreditPurchase

CONSTANTS p1, p2, p3

MCSystemOf == [p \in Payments |-> IF p = p3 THEN "images" ELSE "tokens"]
=============================================================================
