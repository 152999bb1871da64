------------------------------ MODULE MCDelivery ------------------------------
(* Instances of Delivery for TLC. *)
EXTENDS Delivery
CONSTANTS m1, m2, m3, m4, none
===============================================================================
