----------------------------- MODULE MCDelivery -----------------------------
(* Finite instances of Delivery.                                           *)
EXTENDS Delivery
=============================================================================
