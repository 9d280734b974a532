---------------------------- MODULE MCSubscriptions ----------------------------
(* Subscriptions for TLC: clients are interchangeable. *)
EXTENDS Subscriptions, TLC

ClientSymmetry == Permutations(Clients)

===============================================================================
