------------------------------ MODULE MCDelivery ------------------------------
(* Delivery for TLC: clients are interchangeable. *)
EXTENDS Delivery, TLC

ClientSymmetry == Permutations(Clients)

===============================================================================
